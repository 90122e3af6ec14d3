------------------------- MODULE ChatAnswersProofs -------------------------
(***************************************************************************)
(* The answers of the desktop chat, for any number of conversations,       *)
(* messages, chunks and clicks.  OneVoice follows from how the text        *)
(* signals of a stream stand in the event queue, QuestionFirst from how    *)
(* the insertions of questions, answers and copies stand in the queue of   *)
(* the connection, SidebarSettles from what every change of the list leaves*)
(* to be done, TotalsSettle from which statements are still to come,       *)
(* HistoryIsConversation from what the insertions in the queue, the loads  *)
(* and the creations are going to bring to the database and the session.   *)
(***************************************************************************)
EXTENDS ChatControllerProofs, FiniteSetTheorems, WellFoundedInduction, SequenceTheorems

TextsOf(q, g) == {i \in DOMAIN q : q[i].kind = "text" /\ q[i].gen = g}

(* The chunks of stream g in the queue are the last of the n it has sent. *)
Sequenced(q, g, n) ==
    /\ \A i \in TextsOf(q, g) : q[i].index <= n
    /\ \A i, j \in TextsOf(q, g) : i < j => q[i].index < q[j].index
    /\ \A i \in TextsOf(q, g) : \A m \in q[i].index + 1 .. n :
           \E j \in TextsOf(q, g) : q[j].index = m

(* They are those after the first h. *)
Follows(q, g, h, n) ==
    /\ h <= n
    /\ \A i \in TextsOf(q, g) : q[i].index > h
    /\ \A m \in h + 1 .. n : \E j \in TextsOf(q, g) : q[j].index = m

Heard(t) == IF t = <<>> THEN 0 ELSE t[Len(t)][2]

Fresh(g) == streams[g].status = "none" /\ streams[g].sent = 0 /\ TextsOf(signals, g) = {}
Unsent(g) == g > sent \/ g = pendingText

Queued == \A g \in Gens : Sequenced(signals, g, streams[g].sent)
Unsaid == \A g \in Gens : Unsent(g) => Fresh(g)

(* The text put together so far, and how the queue continues it. *)
Growing ==
    token # 0 =>
        /\ \A k \in DOMAIN genText : genText[k] = <<token, genText[1][2] + k - 1>>
        /\ genText # <<>> /\ token \notin cut => genText[1][2] = 1
        /\ genText # <<>> \/ token \notin cut =>
               Follows(signals, token, Heard(genText), streams[token].sent)

Voice == Queued /\ Unsaid /\ Growing

-----------------------------------------------------------------------------
(* The queue: a signal is appended, or taken from its head.                  *)
LEMMA QueueFields ==
  ASSUME NEW q \in Seq(GoodSignal), NEW g
  PROVE  /\ \A i \in DOMAIN q : q[i] \in GoodSignal /\ i \in Nat /\ i # 0
         /\ \A i \in TextsOf(q, g) : q[i].index \in Nat /\ q[i].index # 0 /\ i \in Nat /\ i # 0
<1>1. \A i \in DOMAIN q : q[i] \in GoodSignal /\ i \in Nat /\ i # 0
  OBVIOUS
<1>2. \A s \in GoodSignal : s.kind = "text" => s.index \in Nat /\ s.index # 0
  BY Constants DEF GoodSignal
<1> QED BY <1>1, <1>2 DEF TextsOf

LEMMA Same ==
  ASSUME NEW q, NEW r, NEW g, NEW h, NEW n,
         TextsOf(q, g) = TextsOf(r, g), \A i \in TextsOf(q, g) : q[i] = r[i]
  PROVE  /\ Sequenced(q, g, n) => Sequenced(r, g, n)
         /\ Follows(q, g, h, n) => Follows(r, g, h, n)
BY DEF Sequenced, Follows

More(q, r, s) ==
    /\ DOMAIN q = 1 .. Len(q) /\ Len(q) \in Nat
    /\ DOMAIN r = 1 .. Len(q) + 1
    /\ \A i \in 1 .. Len(q) : r[i] = q[i]
    /\ r[Len(q) + 1] = s

LEMMA Appends ==
  ASSUME NEW q \in Seq(GoodSignal), NEW s, NEW r, r = Append(q, s)
  PROVE  More(q, r, s)
BY DEF More

LEMMA Kept ==
  ASSUME NEW q, NEW s, NEW r, More(q, r, s), NEW g, NEW i \in TextsOf(q, g)
  PROVE  r[i] = q[i] /\ i < Len(q) + 1
BY DEF More, TextsOf

LEMMA Appended ==
  ASSUME NEW q, NEW s, NEW r, More(q, r, s), NEW g
  PROVE  /\ ~(s.kind = "text" /\ s.gen = g) => TextsOf(r, g) = TextsOf(q, g)
         /\ s.kind = "text" /\ s.gen = g =>
                TextsOf(r, g) = TextsOf(q, g) \cup {Len(q) + 1} /\ r[Len(q) + 1] = s
<1>1. 1 .. Len(q) + 1 = (1 .. Len(q)) \cup {Len(q) + 1} /\ \A i \in 1 .. Len(q) : i < Len(q) + 1
  BY DEF More
<1> QED BY <1>1 DEF TextsOf, More

(* A queue r that is the tail of q. *)
Rest(q, r, g) ==
    /\ \A i \in TextsOf(r, g) : i + 1 \in TextsOf(q, g) /\ r[i] = q[i + 1] /\ i \in Nat /\ i # 0
    /\ \A i \in TextsOf(q, g) : i # 1 => i - 1 \in TextsOf(r, g) /\ r[i - 1] = q[i]
    /\ \A i \in TextsOf(q, g) : i \in Nat /\ i >= 1 /\ q[i].index \in Nat

LEMMA TailRests ==
  ASSUME NEW q \in Seq(GoodSignal), q # <<>>, NEW r, r = Tail(q), NEW g
  PROVE  /\ Rest(q, r, g)
         /\ 1 \in TextsOf(q, g) <=> Head(q).kind = "text" /\ Head(q).gen = g
         /\ Head(q) = q[1]
<1>1. /\ DOMAIN q = 1 .. Len(q) /\ Len(q) \in Nat /\ 1 \in DOMAIN q /\ Head(q) = q[1]
      /\ DOMAIN r = 1 .. Len(q) - 1
      /\ \A i \in 1 .. Len(q) - 1 : r[i] = q[i + 1]
  OBVIOUS
<1>2. ASSUME NEW i \in TextsOf(r, g)
      PROVE  i + 1 \in TextsOf(q, g) /\ r[i] = q[i + 1] /\ i \in Nat /\ i # 0
  BY <1>1 DEF TextsOf
<1>3. ASSUME NEW i \in TextsOf(q, g), i # 1
      PROVE  i - 1 \in TextsOf(r, g) /\ r[i - 1] = q[i]
  <2>1. i \in 1 .. Len(q) /\ i - 1 \in 1 .. Len(q) - 1 /\ (i - 1) + 1 = i
    BY <1>1, <1>3 DEF TextsOf
  <2>2. r[i - 1] = q[i]
    BY <1>1, <2>1
  <2> QED BY <1>1, <2>1, <2>2 DEF TextsOf
<1>4. \A i \in TextsOf(q, g) : i \in Nat /\ i >= 1 /\ q[i].index \in Nat
  <2>1. \A i \in TextsOf(q, g) : i \in Nat /\ i # 0 /\ q[i].index \in Nat
    BY QueueFields
  <2> QED BY <2>1
<1>5. 1 \in TextsOf(q, g) <=> Head(q).kind = "text" /\ Head(q).gen = g
  BY <1>1 DEF TextsOf
<1> QED BY <1>1, <1>2, <1>3, <1>4, <1>5 DEF Rest

LEMMA TakenSequenced ==
  ASSUME NEW q, NEW r, NEW g, Rest(q, r, g), NEW n \in Nat, Sequenced(q, g, n)
  PROVE  Sequenced(r, g, n)
<1>1. \A i \in TextsOf(r, g) : r[i].index <= n
  BY DEF Sequenced, Rest
<1>2. ASSUME NEW i \in TextsOf(r, g), NEW j \in TextsOf(r, g), i < j
      PROVE  r[i].index < r[j].index
  <2>1. /\ i + 1 \in TextsOf(q, g) /\ j + 1 \in TextsOf(q, g) /\ i + 1 < j + 1
        /\ r[i] = q[i + 1] /\ r[j] = q[j + 1]
    BY <1>2 DEF Rest
  <2> QED BY <2>1 DEF Sequenced
<1>3. ASSUME NEW i \in TextsOf(r, g), NEW m \in r[i].index + 1 .. n
      PROVE  \E j \in TextsOf(r, g) : r[j].index = m
  <2>1. i + 1 \in TextsOf(q, g) /\ r[i] = q[i + 1] /\ 1 < i + 1 /\ q[i + 1].index \in Nat
    BY DEF Rest
  <2>2. PICK j \in TextsOf(q, g) : q[j].index = m
    BY <1>3, <2>1 DEF Sequenced
  <2>3. j # 1
    BY <1>3, <2>1, <2>2 DEF Sequenced
  <2> QED BY <2>2, <2>3 DEF Rest
<1> QED BY <1>1, <1>2, <1>3 DEF Sequenced

(* The head is another's, or the chunk that was to come next. *)
LEMMA TakenFollows ==
  ASSUME NEW q, NEW r, NEW g, Rest(q, r, g), 1 \notin TextsOf(q, g),
         NEW n \in Nat, NEW h \in Nat, Follows(q, g, h, n)
  PROVE  Follows(r, g, h, n)
<1>1. \A i \in TextsOf(r, g) : r[i].index > h
  BY DEF Follows, Rest
<1>2. ASSUME NEW m \in h + 1 .. n
      PROVE  \E j \in TextsOf(r, g) : r[j].index = m
  <2>1. PICK j \in TextsOf(q, g) : q[j].index = m
    BY DEF Follows
  <2>2. j # 1
    OBVIOUS
  <2> QED BY <2>1, <2>2 DEF Rest
<1> QED BY <1>1, <1>2 DEF Follows

LEMMA TakenNext ==
  ASSUME NEW q, NEW r, NEW g, Rest(q, r, g), 1 \in TextsOf(q, g),
         NEW n \in Nat, Sequenced(q, g, n)
  PROVE  /\ Follows(r, g, q[1].index, n)
         /\ \A h \in Nat : Follows(q, g, h, n) => q[1].index = h + 1
<1> DEFINE x == q[1].index
<1>1. x \in Nat /\ x <= n
  BY DEF Sequenced, Rest
<1>2. ASSUME NEW i \in TextsOf(r, g) PROVE r[i].index > x
  <2>1. i + 1 \in TextsOf(q, g) /\ r[i] = q[i + 1] /\ 1 < i + 1 /\ q[i + 1].index \in Nat
    BY DEF Rest
  <2> QED BY <1>1, <2>1 DEF Sequenced
<1>3. ASSUME NEW m \in x + 1 .. n
      PROVE  \E j \in TextsOf(r, g) : r[j].index = m
  <2>1. PICK j \in TextsOf(q, g) : q[j].index = m
    BY <1>1 DEF Sequenced
  <2>2. j # 1
    BY <1>1, <2>1
  <2> QED BY <2>1, <2>2 DEF Rest
<1>4. ASSUME NEW h \in Nat, Follows(q, g, h, n) PROVE x = h + 1
  <2>1. x > h /\ h + 1 \in h + 1 .. n
    BY <1>1, <1>4 DEF Follows
  <2>2. PICK j \in TextsOf(q, g) : q[j].index = h + 1
    BY <1>4, <2>1 DEF Follows
  <2>3. j = 1 \/ 1 < j
    BY DEF Rest
  <2>4. 1 < j => x < h + 1
    BY <2>2 DEF Sequenced
  <2> QED BY <1>1, <2>1, <2>2, <2>3, <2>4
<1> QED BY <1>1, <1>2, <1>3, <1>4 DEF Follows

-----------------------------------------------------------------------------
(* Steps that leave the text alone. *)
Silent ==
    \/ signals' = signals
    \/ \E s : s.kind # "text" /\ signals' = Append(signals, s)
    \/ signals # <<>> /\ Consumed /\ Head(signals).kind # "text"

LEMMA Carried ==
  ASSUME Types, Silent, NEW g, NEW n \in Nat
  PROVE  /\ Sequenced(signals, g, n) => Sequenced(signals', g, n)
         /\ \A h \in Nat : Follows(signals, g, h, n) => Follows(signals', g, h, n)
         /\ TextsOf(signals, g) = {} => TextsOf(signals', g) = {}
<1>1. signals \in Seq(GoodSignal)
  BY TypesSplit DEF Queues
<1>2. CASE signals' = signals
  BY <1>2
<1>3. ASSUME NEW s, s.kind # "text", signals' = Append(signals, s)
      PROVE  TextsOf(signals', g) = TextsOf(signals, g)
             /\ \A i \in TextsOf(signals, g) : signals[i] = signals'[i]
  <2>1. More(signals, signals', s)
    BY <1>1, <1>3, Appends
  <2>2. \A i \in TextsOf(signals, g) : signals[i] = signals'[i]
    BY <2>1, Kept
  <2>3. TextsOf(signals', g) = TextsOf(signals, g)
    BY <1>3, <2>1, Appended
  <2> QED BY <2>2, <2>3
<1>4. CASE \E s : s.kind # "text" /\ signals' = Append(signals, s)
  BY <1>3, <1>4, Same
<1>5. CASE signals # <<>> /\ Consumed /\ Head(signals).kind # "text"
  <2>1. Rest(signals, signals', g) /\ 1 \notin TextsOf(signals, g)
    BY <1>1, <1>5, TailRests DEF Consumed
  <2>2. TextsOf(signals, g) = {} => TextsOf(signals', g) = {}
    BY <2>1 DEF Rest
  <2> QED BY <2>1, <2>2, TakenSequenced, TakenFollows
<1> QED BY <1>2, <1>4, <1>5 DEF Silent

LEMMA VoiceTypes ==
  ASSUME Types
  PROVE  /\ signals \in Seq(GoodSignal) /\ StreamTypeOK
         /\ \A g \in Gens : streams[g].sent \in Nat
         /\ \A g \in Gens : g \in Nat /\ g # 0
         /\ sent \in Nat /\ token \in Nat /\ (token # 0 => token \in Gens)
         /\ genText \in Seq(Chunk)
         /\ \A k \in DOMAIN genText : genText[k][2] \in Nat
         /\ Heard(genText) \in Nat
<1>1. genText \in Seq(Chunk) /\ sent \in Nat /\ token \in Nat /\ (token # 0 => token \in Gens)
  BY TypesSplit, Constants DEF UiTypes, CountTypes, Gens
<1>2. \A c \in Chunk : c[2] \in Nat
  BY DEF Chunk
<1>3. \A k \in DOMAIN genText : genText[k][2] \in Nat
  BY <1>1, <1>2
<1>4. Heard(genText) \in Nat
  <2>1. genText # <<>> => Len(genText) \in DOMAIN genText
    BY <1>1
  <2> QED BY <1>3, <2>1 DEF Heard
<1>5. \A g \in Gens : streams[g].sent \in Nat /\ g \in Nat /\ g # 0
  BY TypesSplit, Constants DEF StreamTypeOK, Stream, Gens
<1> QED BY <1>1, <1>3, <1>4, <1>5, TypesSplit DEF Queues

(* Whichever streams begin to be cancelled, and whoever finishes. *)
LEMMA VoiceKept ==
  ASSUME Types, Voice, Silent,
         \A g \in Gens : /\ streams'[g].sent = streams[g].sent
                         /\ streams[g].status = "none" => streams'[g].status = "none"
                         /\ Unsent(g)' => Unsent(g),
         token' = 0 \/ UNCHANGED <<token, genText, cut>>
  PROVE  Voice'
<1>1. Queued'
  BY Carried, VoiceTypes DEF Voice, Queued
<1>2. Unsaid'
  BY Carried, 0 \in Nat DEF Voice, Unsaid, Fresh
<1>3. Growing'
  <2>1. CASE token' = 0
    BY <2>1 DEF Growing
  <2>2. CASE token # 0 /\ UNCHANGED <<token, genText, cut>>
    <3>1. token \in Gens /\ Heard(genText) \in Nat /\ streams[token].sent \in Nat
      BY <2>2, VoiceTypes
    <3>2. genText # <<>> \/ token \notin cut =>
              Follows(signals', token, Heard(genText), streams[token].sent)
      BY <2>2, <3>1, Carried DEF Voice, Growing
    <3> QED BY <2>2, <3>1, <3>2 DEF Voice, Growing
  <2> QED BY <2>1, <2>2
<1> QED BY <1>1, <1>2, <1>3 DEF Voice

(* The new stream has not sent anything; the refused one loses the text of   *)
(* the stream that goes on.                                                *)
LEMMA VoiceSend ==
  ASSUME Types, Voice, Silent, NEW c, NEW g \in Gens, NEW before, NEW now, NEW after,
         DoSend(c, g, before, now, after),
         Unsent(g), ~Unsent(g)', \A o \in Gens : Unsent(o)' => Unsent(o)
  PROVE  Voice'
<1>1. Fresh(g)
  BY DEF Voice, Unsaid
<1>2. \A o \in Gens : /\ streams'[o].sent = streams[o].sent
                      /\ o # g => streams'[o].status = streams[o].status
  <2>1. streams \in [Gens -> Stream]
    BY VoiceTypes DEF StreamTypeOK
  <2>2. CASE SubmitStreaming(g)
    BY <2>1, <2>2 DEF SubmitStreaming, Stream
  <2>3. CASE ProviderUnavailable
    BY <2>3 DEF ProviderUnavailable
  <2> QED BY <2>2, <2>3 DEF DoSend
<1>3. Queued'
  BY <1>2, Carried, VoiceTypes DEF Voice, Queued
<1>4. Unsaid'
  BY <1>2, Carried, 0 \in Nat DEF Voice, Unsaid, Fresh
<1>5. Growing'
  <2>1. genText' = <<>> /\ Heard(genText') = 0 /\ DOMAIN genText' = {}
    BY DEF DoSend, Heard
  <2>2. CASE token' = g
    <3>1. streams'[g].sent = 0 /\ TextsOf(signals', g) = {}
      BY <1>1, <1>2, Carried, 0 \in Nat DEF Fresh
    <3>2. Follows(signals', g, 0, 0)
      BY <3>1 DEF Follows
    <3> QED BY <2>1, <2>2, <3>1, <3>2 DEF Growing
  <2>3. CASE ProviderUnavailable
    <3>1. token' # 0 => token' \in cut'
      BY <2>3 DEF ProviderUnavailable
    <3> QED BY <2>1, <3>1 DEF Growing
  <2> QED BY <2>2, <2>3 DEF DoSend
<1> QED BY <1>3, <1>4, <1>5 DEF Voice

(* A stream sends its next chunk. *)
LEMMA VoiceEmit ==
  ASSUME Types, Voice, NEW g \in Gens, EmitChunk(g), UNCHANGED <<sent, pendingText, token, genText, cut>>
  PROVE  Voice'
<1> DEFINE n == streams[g].sent
           s == [NewSignal("text") EXCEPT !.gen = g, !.index = n + 1]
           e == Len(signals) + 1
<1>1. n \in Nat /\ signals \in Seq(GoodSignal)
  BY VoiceTypes
<1>2. s.kind = "text" /\ s.gen = g /\ s.index = n + 1 /\ signals' = Append(signals, s)
  BY DEF EmitChunk, NewSignal
<1>3. streams'[g].sent = n + 1 /\ \A o \in Gens : o # g => streams'[o] = streams[o]
  BY VoiceTypes DEF EmitChunk, StreamTypeOK, Stream
<1> HIDE DEF n, s
<1>11. More(signals, signals', s)
  BY <1>1, <1>2, Appends
<1>4. /\ TextsOf(signals', g) = TextsOf(signals, g) \cup {e} /\ signals'[e].index = n + 1
      /\ \A i \in TextsOf(signals, g) : /\ signals'[i] = signals[i] /\ i < e /\ ~(e < i) /\ i # e
                                        /\ signals[i].index \in Nat
  <2>1. \A i \in TextsOf(signals, g) : i \in Nat /\ signals[i].index \in Nat
    BY <1>1, QueueFields
  <2>2. e \in Nat
    BY <1>1
  <2>3. /\ TextsOf(signals', g) = TextsOf(signals, g) \cup {e} /\ signals'[e].index = n + 1
        /\ \A i \in TextsOf(signals, g) : signals'[i] = signals[i] /\ i < e
    <3>1. TextsOf(signals', g) = TextsOf(signals, g) \cup {e} /\ signals'[e].index = n + 1
      BY <1>2, <1>11, Appended
    <3>2. \A i \in TextsOf(signals, g) : signals'[i] = signals[i] /\ i < e
      BY <1>11, Kept
    <3> QED BY <3>1, <3>2
  <2> HIDE DEF e
  <2> QED BY <2>1, <2>2, <2>3
<1>5. \A o : o # g => /\ TextsOf(signals', o) = TextsOf(signals, o)
                      /\ \A i \in TextsOf(signals, o) : signals[i] = signals'[i]
  <2> SUFFICES ASSUME NEW o, o # g
               PROVE  /\ TextsOf(signals', o) = TextsOf(signals, o)
                      /\ \A i \in TextsOf(signals, o) : signals[i] = signals'[i]
    OBVIOUS
  <2>1. TextsOf(signals', o) = TextsOf(signals, o)
    BY <1>2, <1>11, Appended
  <2>2. \A i \in TextsOf(signals, o) : signals[i] = signals'[i]
    BY <1>11, Kept
  <2> QED BY <2>1, <2>2
<1> HIDE DEF e
<1>6. Sequenced(signals, g, n)
  BY DEF Voice, Queued, n
<1>7. Sequenced(signals', g, n + 1)
  <2>1. \A i \in TextsOf(signals', g) : signals'[i].index <= n + 1
    BY <1>1, <1>4, <1>6 DEF Sequenced
  <2>2. ASSUME NEW i \in TextsOf(signals', g), NEW j \in TextsOf(signals', g), i < j
        PROVE  signals'[i].index < signals'[j].index
    <3>1. i \in TextsOf(signals, g)
      <4>1. i = e => j # e /\ j \in TextsOf(signals, g)
        <5>1. e \in Nat
          BY <1>1 DEF e
        <5> QED BY <1>4, <2>2, <5>1
      <4> QED BY <1>4, <2>2, <4>1
    <3> QED BY <1>1, <1>4, <1>6, <2>2, <3>1 DEF Sequenced
  <2>3. ASSUME NEW i \in TextsOf(signals', g), NEW m \in signals'[i].index + 1 .. n + 1
        PROVE  \E j \in TextsOf(signals', g) : signals'[j].index = m
    <3>1. CASE m = n + 1
      BY <1>4, <3>1
    <3>2. CASE m # n + 1
      <4>1. i \in TextsOf(signals, g) /\ m \in signals[i].index + 1 .. n
        BY <1>1, <1>4, <2>3, <3>2
      <4> QED BY <1>4, <1>6, <4>1 DEF Sequenced
    <3> QED BY <3>1, <3>2
  <2> QED BY <2>1, <2>2, <2>3 DEF Sequenced
<1>8. ASSUME NEW h \in Nat, Follows(signals, g, h, n) PROVE Follows(signals', g, h, n + 1)
  <2>1. h <= n + 1 /\ \A i \in TextsOf(signals', g) : signals'[i].index > h
    BY <1>1, <1>4, <1>8 DEF Follows
  <2>2. ASSUME NEW m \in h + 1 .. n + 1
        PROVE  \E j \in TextsOf(signals', g) : signals'[j].index = m
    <3>1. CASE m = n + 1
      BY <1>4, <3>1
    <3>2. CASE m # n + 1
      <4>1. m \in h + 1 .. n
        BY <1>1, <3>2
      <4> QED BY <1>4, <1>8, <4>1 DEF Follows
    <3> QED BY <3>1, <3>2
  <2> QED BY <2>1, <2>2 DEF Follows
<1>9. Queued'
  BY <1>3, <1>5, <1>7, Same DEF Voice, Queued
<1>10. Unsaid'
  <2>1. ~Unsent(g)
    BY DEF Voice, Unsaid, Fresh, EmitChunk, Alive
  <2> QED BY <1>3, <1>5, <2>1 DEF Voice, Unsaid, Unsent, Fresh
<1>12. Growing'
  <2>1. CASE token # 0
    <3>1. token \in Gens /\ Heard(genText) \in Nat
      BY <2>1, VoiceTypes
    <3>2. genText # <<>> \/ token \notin cut =>
              Follows(signals', token, Heard(genText), streams'[token].sent)
      <4>1. CASE token = g
        BY <1>3, <1>8, <2>1, <3>1, <4>1 DEF Voice, Growing, n
      <4>2. CASE token # g
        BY <1>3, <1>5, <2>1, <3>1, <4>2, Same DEF Voice, Growing
      <4> QED BY <4>1, <4>2
    <3> QED BY <2>1, <3>2 DEF Voice, Growing
  <2> QED BY <2>1 DEF Growing
<1> QED BY <1>9, <1>10, <1>12 DEF Voice

(* The main thread takes a chunk of the stream it listens to, the next one, *)
(* or drops a chunk of another.                                            *)
LEMMA VoiceText ==
  ASSUME Types, Voice, OnText
  PROVE  Voice'
<1> DEFINE x == Head(signals).index
           g == Head(signals).gen
<1>1. signals \in Seq(GoodSignal) /\ signals # <<>> /\ signals' = Tail(signals)
  BY VoiceTypes DEF OnText, Received, Consumed
<1>2. \A o : Rest(signals, signals', o)
  BY <1>1, TailRests
<1>3. 1 \in TextsOf(signals, g) /\ x = signals[1].index /\ \A o : o # g => 1 \notin TextsOf(signals, o)
  BY <1>1, TailRests DEF OnText, Received
<1>4. x \in Nat
  BY <1>1, <1>3, QueueFields
<1>5. UNCHANGED <<streams, sent, pendingText, token, cut>>
  BY DEF OnText, countVars, ghostVars
<1>6. genText' = IF g = token THEN Append(genText, <<token, x>>) ELSE genText
  BY DEF OnText
<1> HIDE DEF x, g
<1>7. Queued'
  BY <1>2, <1>5, TakenSequenced, VoiceTypes DEF Voice, Queued
<1>8. Unsaid'
  BY <1>2, <1>5 DEF Voice, Unsaid, Unsent, Fresh, Rest
<1>9. ASSUME token # 0, g # token PROVE Growing'
  <2>1. token \in Gens /\ Heard(genText) \in Nat /\ streams[token].sent \in Nat
    BY <1>9, VoiceTypes
  <2>2. genText # <<>> \/ token \notin cut =>
            Follows(signals', token, Heard(genText), streams[token].sent)
    BY <1>2, <1>3, <1>9, <2>1, TakenFollows DEF Voice, Growing
  <2> QED BY <1>5, <1>6, <1>9, <2>2 DEF Voice, Growing
<1>10. ASSUME token # 0, g = token PROVE Growing'
  <2> DEFINE n == Len(genText)
             t == genText'
  <2>1. token \in Gens /\ Heard(genText) \in Nat /\ streams[token].sent \in Nat
    BY <1>10, VoiceTypes
  <2>2. Sequenced(signals, token, streams[token].sent)
    BY <2>1 DEF Voice, Queued
  <2>3. Follows(signals', token, x, streams[token].sent)
    BY <1>2, <1>3, <1>10, <2>1, <2>2, TakenNext
  <2>4. genText # <<>> \/ token \notin cut => x = Heard(genText) + 1
    <3>1. genText # <<>> \/ token \notin cut =>
              Follows(signals, token, Heard(genText), streams[token].sent)
      BY <1>10 DEF Voice, Growing
    <3>2. ASSUME NEW h \in Nat, Follows(signals, token, h, streams[token].sent)
          PROVE  x = h + 1
      <4>1. 1 \in TextsOf(signals, token) /\ Rest(signals, signals', token)
        BY <1>2, <1>3, <1>10
      <4>2. signals[1].index = h + 1
        BY <2>1, <2>2, <3>2, <4>1, TakenNext
      <4> QED BY <1>3, <4>2
    <3> QED BY <2>1, <3>1, <3>2
  <2>5. /\ n \in Nat /\ DOMAIN genText = 1 .. n /\ DOMAIN t = 1 .. n + 1 /\ t # <<>> /\ Len(t) = n + 1
        /\ t[n + 1] = <<token, x>> /\ (\A k \in 1 .. n : t[k] = genText[k])
        /\ (genText = <<>> <=> n = 0)
    <3>1. genText \in Seq(Chunk) /\ t = Append(genText, <<token, x>>)
      BY <1>6, <1>10, VoiceTypes
    <3> QED BY <3>1
  <2>6. Heard(genText) = IF n = 0 THEN 0 ELSE genText[n][2]
    BY <2>5 DEF Heard
  <2>7. Heard(t) = x
    BY <2>5 DEF Heard
  <2>8. \A k \in 1 .. n : genText[k] = <<token, genText[1][2] + k - 1>> /\ genText[k][2] \in Nat
    BY <1>10, <2>5, VoiceTypes DEF Voice, Growing
  <2> HIDE DEF n, t
  <2>9. /\ \A k \in 1 .. n + 1 : t[k] = <<token, t[1][2] + k - 1>>
        /\ token \notin cut => t[1][2] = 1
    <3>1. CASE n = 0
      <4>1. t[1] = <<token, x>> /\ t[1][2] = x /\ t[1][2] + 1 - 1 = x
        BY <1>4, <2>5, <3>1
      <4>2. token \notin cut => x = 1
        BY <2>4, <2>6, <3>1
      <4>3. \A k \in 1 .. n + 1 : k = 1
        BY <3>1
      <4> QED BY <4>1, <4>2, <4>3
    <3>2. CASE n # 0
      <4>1. 1 \in 1 .. n /\ n \in 1 .. n
        BY <2>5, <3>2
      <4>2. t[1][2] = genText[1][2] /\ genText[1][2] \in Nat
        BY <2>5, <2>8, <4>1
      <4>3. genText[n][2] = genText[1][2] + n - 1
        BY <2>8, <4>1
      <4>4. x = genText[1][2] + n
        BY <2>4, <2>5, <2>6, <3>2, <4>2, <4>3
      <4>5. t[n + 1] = <<token, t[1][2] + (n + 1) - 1>>
        BY <2>5, <4>2, <4>4
      <4>6. \A k \in 1 .. n : t[k] = <<token, t[1][2] + k - 1>>
        BY <2>5, <2>8, <4>2
      <4>7. \A k \in 1 .. n + 1 : k \in 1 .. n \/ k = n + 1
        BY <2>5
      <4>8. token \notin cut => t[1][2] = 1
        BY <1>10, <2>5, <3>2, <4>2 DEF Voice, Growing
      <4> QED BY <4>5, <4>6, <4>7, <4>8
    <3> QED BY <3>1, <3>2
  <2>10. Follows(signals', token', Heard(genText'), streams'[token'].sent)
    BY <1>5, <2>3, <2>7 DEF t
  <2>11. /\ \A k \in DOMAIN genText' : genText'[k] = <<token', genText'[1][2] + k - 1>>
         /\ token' \notin cut' => genText'[1][2] = 1
    BY <1>5, <2>5, <2>9 DEF t
  <2> QED BY <2>10, <2>11 DEF Growing
<1>11. Growing'
  BY <1>5, <1>9, <1>10 DEF Growing
<1> QED BY <1>7, <1>8, <1>11 DEF Voice

LEMMA VoiceUser ==
  ASSUME Types, Answering, Voice, User
  PROVE  Voice'
<1>1. /\ sent \in Nat /\ pendingText \in Nat /\ pendingText <= sent
      /\ sent < MaxGens => sent + 1 \in Gens
      /\ \A g \in Gens : g \in Nat
  BY VoiceTypes, TypesSplit, Constants DEF Gens, UiTypes, Answering, Asked1
<1>2. Silent
  BY DEF User, SendMessage, Resend, Stop, NewConversation, Select, Duplicate, Change1, Silent
<1>3. CASE (SendMessage /\ active # 0) \/ Resend
  <2>1. /\ sent' = sent + 1 /\ sent < MaxGens /\ pendingText' = pendingText
        /\ DoSend(active, sent + 1, jobs, history, <<>>)
    BY <1>3 DEF SendMessage, Resend
  <2>2. /\ Unsent(sent + 1) /\ ~(sent + 1 > sent' \/ sent + 1 = pendingText')
        /\ \A g \in Gens : Unsent(g)' => Unsent(g)
    BY <1>1, <2>1 DEF Unsent
  <2>3. sent + 1 \in Gens
    BY <1>1, <2>1
  <2> QED BY <1>2, <2>1, <2>2, <2>3, VoiceSend DEF Unsent
<1>4. CASE SendMessage /\ active = 0
  <2>1. /\ sent' = sent + 1 /\ pendingText' = sent + 1
        /\ UNCHANGED <<streams, token, genText, cut>>
    BY <1>4 DEF SendMessage
  <2>2. \A g \in Gens : Unsent(g)' => Unsent(g)
    BY <1>1, <2>1 DEF Unsent
  <2> QED BY <1>2, <2>1, <2>2, VoiceKept
<1>5. CASE Stop
  <2>1. token' = 0 /\ UNCHANGED <<sent, pendingText>>
    BY <1>5 DEF Stop, Click, FinishGeneration
  <2>2. \A g \in Gens : /\ streams'[g].sent = streams[g].sent
                        /\ streams[g].status = "none" => streams'[g].status = "none"
    <3>1. streams \in [Gens -> Stream] /\ token \in Gens
      BY <1>5, VoiceTypes DEF StreamTypeOK, Stop
    <3>2. streams' = [streams EXCEPT ![token].status =
                         IF streams[token].status = "running" THEN "cancelled"
                         ELSE streams[token].status]
      BY <1>5 DEF Stop, CancelStream
    <3> QED BY <3>1, <3>2 DEF Stream
  <2>3. \A g \in Gens : Unsent(g)' => Unsent(g)
    BY <2>1 DEF Unsent
  <2> QED BY <1>2, <2>1, <2>2, <2>3, VoiceKept
<1>6. CASE NewConversation \/ \E c \in Convs : \/ Select(c) \/ Duplicate(c)
                            \/ \E op \in {"archive", "delete"} : Change1(op, c)
  <2>1. UNCHANGED <<streams, sent, pendingText, token, genText, cut>>
    BY <1>6 DEF NewConversation, Select, Duplicate, Change1, Click, uiVars, ghostVars
  <2>2. \A g \in Gens : Unsent(g)' => Unsent(g)
    BY <2>1 DEF Unsent
  <2> QED BY <1>2, <2>1, <2>2, VoiceKept
<1> QED BY <1>3, <1>4, <1>5, <1>6 DEF User

LEMMA VoiceSignal ==
  ASSUME Types, Answering, Voice, OnSignal
  PROVE  Voice'
<1>1. CASE OnStreamDone \/ OnCreated \/ OnLoaded \/ OnRefresh \/ OnListed
  <2>1. Silent /\ UNCHANGED <<streams, sent, pendingText>>
        /\ (token' = 0 \/ UNCHANGED <<token, genText, cut>>)
    BY <1>1 DEF OnStreamDone, OnCreated, OnLoaded, OnRefresh, OnListed, Received, Silent,
                FinishGeneration, countVars, uiVars, ghostVars
  <2>2. \A g \in Gens : Unsent(g)' => Unsent(g)
    BY <2>1 DEF Unsent
  <2> QED BY <2>1, <2>2, VoiceKept
<1>2. CASE OnCreatedToSend
  <2>1. Silent /\ UNCHANGED sent
    BY <1>2 DEF OnCreatedToSend, Received, Silent, countVars
  <2>2. sent \in Nat /\ pendingText \in 0 .. MaxGens /\ pendingText <= sent
    BY VoiceTypes, TypesSplit DEF UiTypes, Answering, Asked1
  <2>3. CASE pendingText # 0
    <3>1. /\ DoSend(Head(signals).conv, pendingText, jobs, <<>>, <<NewJob("list", 0)>>)
          /\ pendingText' = 0 /\ pendingText \in Gens
      BY <1>2, <2>2, <2>3, Constants DEF OnCreatedToSend, Gens
    <3>2. Unsent(pendingText) /\ ~(pendingText > sent' \/ pendingText = pendingText')
      BY <2>1, <2>2, <2>3, <3>1, Constants DEF Unsent
    <3>3. \A g \in Gens : Unsent(g)' => Unsent(g)
      BY <2>1, <3>1, VoiceTypes DEF Unsent
    <3> QED BY <2>1, <3>1, <3>2, <3>3, VoiceSend DEF Unsent
  <2>4. CASE pendingText = 0
    <3>1. UNCHANGED <<streams, sent, pendingText, token, genText, cut>>
      BY <1>2, <2>1, <2>4 DEF OnCreatedToSend
    <3>2. \A g \in Gens : Unsent(g)' => Unsent(g)
      BY <3>1 DEF Unsent
    <3> QED BY <2>1, <3>1, <3>2, VoiceKept
  <2> QED BY <2>3, <2>4
<1> QED BY <1>1, <1>2, VoiceText DEF OnSignal

LEMMA VoiceBackground ==
  ASSUME Types, Voice, Background
  PROVE  Voice'
<1>1. UNCHANGED <<sent, pendingText, token, genText, cut>>
  BY DEF Background, uiVars, countVars, ghostVars
<1>2. \A g \in Gens : Unsent(g)' => Unsent(g)
  BY <1>1 DEF Unsent
<1>3. CASE JobStep
  <2>1. Silent /\ UNCHANGED streams
    BY <1>3 DEF JobStep, Create, Add, Load, List, Change, DuplicateBegins, DuplicateRow,
                DuplicateEnds, Continue, Complete, CompleteQuietly, NewSignal, Silent
  <2> QED BY <1>1, <1>2, <2>1, VoiceKept
<1>4. CASE StreamStep
  <2>1. PICK g \in Gens : EmitChunk(g) \/ StreamEnds(g) \/ CancelLands(g)
    BY <1>4 DEF StreamStep
  <2>2. CASE EmitChunk(g)
    BY <1>1, <2>2, VoiceEmit
  <2>3. CASE StreamEnds(g) \/ CancelLands(g)
    <3>1. Silent
      BY <2>3 DEF StreamEnds, CancelLands, NewSignal, Silent
    <3>2. \A o \in Gens : /\ streams'[o].sent = streams[o].sent
                          /\ streams[o].status = "none" => streams'[o].status = "none"
      BY <2>3, VoiceTypes DEF StreamEnds, CancelLands, Alive, StreamTypeOK, Stream
    <3> QED BY <1>1, <1>2, <3>1, <3>2, VoiceKept
  <2> QED BY <2>1, <2>2, <2>3
<1> QED BY <1>3, <1>4 DEF Background

LEMMA VoiceNothing ==
  ASSUME signals = <<>>, streams = NoStreams, token = 0
  PROVE  Voice
BY DEF NoStreams, TextsOf, Voice, Queued, Sequenced, Unsaid, Fresh, Growing

(* What is finished holds what was put together. *)
LEMMA OneVoiceNext ==
  ASSUME Types, Voice, OneVoice, [Next]_vars
  PROVE  OneVoice'
<1>1. CASE UNCHANGED answers /\ cut \subseteq cut'
  BY <1>1 DEF OneVoice
<1>2. CASE token # 0 /\ FinishGeneration(token) /\ UNCHANGED cut
  <2> DEFINE a == [stream |-> token, conv |-> active, text |-> genText]
             n == Len(answers)
  <2>1. /\ n \in Nat /\ DOMAIN answers = 1 .. n /\ DOMAIN answers' = 1 .. n + 1
        /\ answers'[n + 1] = a /\ \A i \in 1 .. n : answers'[i] = answers[i]
    BY <1>2, TypesSplit DEF FinishGeneration, GhostTypes
  <2>2. a.stream = token /\ a.text = genText
    OBVIOUS
  <2>3. \A k \in DOMAIN genText : /\ genText[k][1] = token
                                  /\ genText[k][2] = genText[1][2] + k - 1
                                  /\ token \notin cut => genText[1][2] = 1
    <3>1. DOMAIN genText # {} => genText # <<>>
      OBVIOUS
    <3> QED BY <1>2, <3>1 DEF Voice, Growing
  <2>4. \A i \in 1 .. n + 1 : i \in 1 .. n \/ i = n + 1
    BY <2>1
  <2> HIDE DEF a, n
  <2> QED BY <1>2, <2>1, <2>2, <2>3, <2>4 DEF OneVoice
<1>3. CASE OnStreamDone /\ Head(signals).gen = token
  <2>1. Head(signals) \in GoodSignal /\ Head(signals).kind = "done"
    BY <1>3, TypesSplit, ConsumedTypes DEF OnStreamDone
  <2>2. token # 0
    BY <1>3, <2>1 DEF GoodSignal, Gens
  <2> QED BY <1>2, <1>3, <2>2 DEF OnStreamDone
<1>4. CASE OnStreamDone /\ Head(signals).gen # token
  BY <1>1, <1>4 DEF OnStreamDone
<1>5. CASE Stop
  BY <1>2, <1>5 DEF Stop
<1>6. CASE Restart
  BY <1>6 DEF Restart, OneVoice
<1>7. CASE SendMessage \/ Resend \/ OnCreatedToSend
  <2>1. UNCHANGED answers /\ cut \subseteq cut'
    BY <1>7 DEF SendMessage, Resend, OnCreatedToSend, DoSend, ProviderUnavailable
  <2> QED BY <1>1, <2>1
<1>8. CASE \/ NewConversation
           \/ \E c \in Convs : \/ Select(c) \/ Duplicate(c)
                               \/ \E op \in {"archive", "delete"} : Change1(op, c)
           \/ OnText \/ OnCreated \/ OnLoaded \/ OnRefresh \/ OnListed
           \/ Background \/ UNCHANGED vars
  <2>1. UNCHANGED <<answers, cut>>
    BY <1>8 DEF NewConversation, Select, Duplicate, Change1, OnText, OnCreated, OnLoaded,
                OnRefresh, OnListed, Background, vars, ghostVars
  <2> QED BY <1>1, <2>1
<1> QED BY <1>3, <1>4, <1>5, <1>6, <1>7, <1>8 DEF Next, User, OnSignal

LEMMA VoiceInvariant == Spec => [](Voice /\ OneVoice)
<1>1. Init => Voice /\ OneVoice
  BY VoiceNothing DEF Init, RunnerInit, UiInit, OneVoice
<1>2. ASSUME Types, Answering, Voice, [Next]_vars PROVE Voice'
  <2>1. CASE Restart
    <3>1. signals' = <<>> /\ streams' = NoStreams /\ token' = 0
      BY <2>1 DEF Restart, RunnerRestart
    <3> QED BY <3>1 DEF NoStreams, TextsOf, Voice, Queued, Sequenced, Unsaid, Fresh, Growing
  <2>2. CASE UNCHANGED vars
    <3>1. Silent /\ UNCHANGED <<streams, sent, pendingText, token, genText, cut>>
      BY <2>2 DEF vars, runnerVars, uiVars, countVars, ghostVars, Silent
    <3>2. \A g \in Gens : Unsent(g)' => Unsent(g)
      BY <3>1 DEF Unsent
    <3> QED BY <1>2, <3>1, <3>2, VoiceKept
  <2> QED BY <1>2, <2>1, <2>2, VoiceUser, VoiceSignal, VoiceBackground DEF Next
<1> QED BY <1>1, <1>2, OneVoiceNext, TypesInvariant, AnsweringInvariant, PTL DEF Spec

(* Every answer holds one stream's chunks, in order and without a gap,      *)
(* whatever older streams still have in the event queue.                   *)
THEOREM OneStreamPerAnswer == Spec => []OneVoice
BY VoiceInvariant, PTL

-----------------------------------------------------------------------------
(* The conversations in use.  A conversation that is no more in the database *)
(* never comes back: every number in use has been drawn, and no number is    *)
(* drawn twice.                                                             *)
DrawnJob(n) == {j \in GoodJob : j.conv <= n /\ j.copy <= n /\ j.shown \subseteq 1 .. n}
DrawnSignal(n) == {s \in GoodSignal : s.conv <= n /\ s.shown \subseteq 1 .. n}

DrawnFile == db.convs \subseteq 1 .. ids /\ durable.convs \subseteq 1 .. ids
DrawnQueues == jobs \in Seq(DrawnJob(ids)) /\ signals \in Seq(DrawnSignal(ids))
DrawnUi == active <= ids /\ sidebar \subseteq 1 .. ids /\ \A g \in Gens : home[g] <= ids

Drawn == DrawnFile /\ DrawnQueues /\ DrawnUi

LEMMA SequencesWithin ==
  ASSUME NEW S, NEW T, S \subseteq T
  PROVE  Seq(S) \subseteq Seq(T)
OBVIOUS

LEMMA DrawnMore ==
  ASSUME NEW m \in Nat, NEW n \in Nat, m <= n
  PROVE  /\ DrawnJob(m) \subseteq DrawnJob(n) /\ DrawnSignal(m) \subseteq DrawnSignal(n)
         /\ Seq(DrawnJob(m)) \subseteq Seq(DrawnJob(n))
         /\ Seq(DrawnSignal(m)) \subseteq Seq(DrawnSignal(n))
         /\ 1 .. m \subseteq 1 .. n
<1>1. 1 .. m \subseteq 1 .. n
  OBVIOUS
<1>2. DrawnJob(m) \subseteq DrawnJob(n)
  BY <1>1, Constants DEF DrawnJob, GoodJob, Job
<1>3. DrawnSignal(m) \subseteq DrawnSignal(n)
  BY <1>1, Constants DEF DrawnSignal, GoodSignal, Signal
<1> QED BY <1>1, <1>2, <1>3, SequencesWithin

LEMMA DrawnHeads ==
  ASSUME Types, DrawnQueues
  PROVE  /\ ids \in Nat
         /\ jobs # <<>> => Head(jobs) \in DrawnJob(ids) /\ Tail(jobs) \in Seq(DrawnJob(ids))
         /\ signals # <<>> => Head(signals) \in DrawnSignal(ids) /\ Tail(signals) \in Seq(DrawnSignal(ids))
BY TypesSplit, Constants DEF DrawnQueues, DbTypeOK

(* Jobs and signals as they are made. *)
LEMMA DrawnNew ==
  ASSUME NEW n \in Nat, NEW c \in 0 .. MaxConvs, c <= n
  PROVE  /\ \A op \in Ops \ {"add"} : (op \in {"load", "archive", "delete", "duplicate"} => c \in Convs)
               => NewJob(op, c) \in DrawnJob(n)
         /\ \A m \in Message : AddJob(c, m) \in DrawnJob(n)
<1>1. ASSUME NEW op \in Ops \ {"add"}, op \in {"load", "archive", "delete", "duplicate"} => c \in Convs
      PROVE  NewJob(op, c) \in DrawnJob(n)
  BY <1>1, NewJobGood DEF DrawnJob, NewJob
<1>2. ASSUME NEW m \in Message PROVE AddJob(c, m) \in DrawnJob(n)
  BY <1>2, AddJobGood DEF DrawnJob, NewJob, AddJob
<1> QED BY <1>1, <1>2

LEMMA DrawnStep ==
  ASSUME Types, DrawnFile, DrawnQueues, JobStep
  PROVE  DrawnQueues' /\ ids \in Nat /\ ids <= ids' /\ ids' \in Nat
<1> DEFINE j == Head(jobs)
<1>1. /\ jobs # <<>> /\ ids \in Nat /\ j \in DrawnJob(ids) /\ j \in GoodJob /\ j \in Job
      /\ Tail(jobs) \in Seq(DrawnJob(ids))
  BY DrawnHeads DEF JobStep, Create, Add, Load, List, Change, DuplicateBegins, DuplicateRow,
                    DuplicateEnds, At, DrawnJob, GoodJob
<1>2. Queues' /\ (ids' = ids \/ ids' = ids + 1)
  BY JobTypes, TypesSplit DEF JobStep, Create, Add, Load, List, Change, DuplicateBegins,
                    DuplicateRow, DuplicateEnds, dbVars
<1>3. ids' \in Nat /\ ids <= ids'
  BY <1>1, <1>2
<1> DEFINE Kin(k) == /\ k.conv \in {j.conv, ids'} /\ k.copy \in {j.copy, ids'}
                     /\ k.shown \in {j.shown, Listed(db)}
<1>4. jobs' = Tail(jobs) \/ \E k : jobs' = Append(Tail(jobs), k) /\ Kin(k)
  <2>1. Kin(Next1(j))
    BY <1>1, NextFields
  <2>2. /\ \A n : n = ids' => Kin([Next1(j) EXCEPT !.conv = n]) /\ Kin([Next1(j) EXCEPT !.copy = n])
        /\ \A r : Kin([Next1(j) EXCEPT !.rows = r]) /\ Kin([j EXCEPT !.rows = r])
        /\ \A n : Kin([Next1(j) EXCEPT !.count = n])
        /\ Kin([Next1(j) EXCEPT !.shown = Listed(db)])
    <3> DEFINE l == Next1(j)
    <3>1. l \in Job /\ j \in Job /\ Kin(l)
      BY <1>1, <2>1, NextFields
    <3> HIDE DEF l, j
    <3>2. \A n : n = ids' => Kin([l EXCEPT !.conv = n]) /\ Kin([l EXCEPT !.copy = n])
      BY <3>1 DEF Job
    <3>3. \A r : Kin([l EXCEPT !.rows = r]) /\ Kin([j EXCEPT !.rows = r])
      BY <3>1 DEF Job
    <3>4. (\A n : Kin([l EXCEPT !.count = n])) /\ Kin([l EXCEPT !.shown = Listed(db)])
      BY <3>1 DEF Job
    <3> QED BY <3>2, <3>3, <3>4 DEF l
  <2> HIDE DEF Kin, j
  <2>3. CASE Load \/ List
    BY <2>2, <2>3 DEF Load, List, Continue, Complete, j
  <2>4. CASE Add
    BY <2>1, <2>4 DEF Add, Continue, CompleteQuietly, j
  <2>5. ASSUME NEW op, Create(op) PROVE jobs' = Tail(jobs) \/ \E k : jobs' = Append(Tail(jobs), k) /\ Kin(k)
    BY <2>2, <2>5 DEF Create, Continue, Complete, j
  <2>6. ASSUME NEW op, NEW d, Change(op, d)
        PROVE  jobs' = Tail(jobs) \/ \E k : jobs' = Append(Tail(jobs), k) /\ Kin(k)
    BY <2>1, <2>6 DEF Change, Continue, Complete, j
  <2>7. CASE DuplicateBegins
    BY <2>1, <2>2, <2>7 DEF DuplicateBegins, Continue, Complete, j
  <2>8. CASE DuplicateRow
    BY <2>2, <2>8 DEF DuplicateRow, Continue, CompleteQuietly, j
  <2>9. CASE DuplicateEnds
    BY <2>1, <2>2, <2>9 DEF DuplicateEnds, Continue, Complete, j
  <2> QED BY <2>3, <2>4, <2>5, <2>6, <2>7, <2>8, <2>9 DEF JobStep
<1>5. jobs' \in Seq(DrawnJob(ids'))
  <2>1. Tail(jobs) \in Seq(DrawnJob(ids')) /\ j \in DrawnJob(ids')
    BY <1>1, <1>3, DrawnMore
  <2>2. ASSUME NEW k, jobs' = Append(Tail(jobs), k), Kin(k)
        PROVE  jobs' \in Seq(DrawnJob(ids'))
    <3>1. k \in GoodJob
      <4>1. jobs' \in Seq(GoodJob) /\ Tail(jobs) \in Seq(GoodJob)
        BY <1>2, <2>1 DEF Queues, DrawnJob
      <4>2. jobs'[Len(jobs')] = k /\ Len(jobs') \in DOMAIN jobs'
        BY <2>1, <2>2
      <4> QED BY <4>1, <4>2
    <3>2. k.conv <= ids' /\ k.copy <= ids'
      BY <1>3, <2>1, <2>2 DEF DrawnJob
    <3>3. k.shown \subseteq 1 .. ids'
      BY <1>1, <1>3, <2>1, <2>2 DEF DrawnJob, DrawnFile, Listed
    <3>4. k \in DrawnJob(ids')
      BY <3>1, <3>2, <3>3 DEF DrawnJob
    <3> QED BY <2>1, <2>2, <3>4
  <2> QED BY <1>4, <2>1, <2>2
<1> DEFINE Fits(s) == s.conv \in {0, j.conv} /\ s.shown \in {{}, j.shown}
<1>6. signals' \in Seq(DrawnSignal(ids'))
  <2>1. signals \in Seq(DrawnSignal(ids'))
    BY <1>1, <1>3, DrawnMore DEF DrawnQueues
  <2>2. ASSUME NEW s, signals' = Append(signals, s), Fits(s)
        PROVE  signals' \in Seq(DrawnSignal(ids'))
    <3>1. s \in GoodSignal
      <4>1. signals' \in Seq(GoodSignal) /\ signals \in Seq(GoodSignal)
        BY <1>2, <2>1 DEF Queues, DrawnSignal
      <4>2. signals'[Len(signals')] = s /\ Len(signals') \in DOMAIN signals'
        BY <2>1, <2>2
      <4> QED BY <4>1, <4>2
    <3>2. s.conv <= ids'
      <4>1. j.conv \in Nat /\ j.conv <= ids
        BY <1>1 DEF DrawnJob, Job
      <4>2. s.conv = 0 \/ s.conv = j.conv
        BY <2>2
      <4> HIDE DEF j
      <4> QED BY <1>1, <1>3, <4>1, <4>2
    <3>3. s.shown \subseteq 1 .. ids'
      BY <1>1, <1>3, <2>2 DEF DrawnJob
    <3>4. s \in DrawnSignal(ids')
      BY <3>1, <3>2, <3>3 DEF DrawnSignal
    <3> QED BY <2>1, <2>2, <3>4
  <2>3. signals' = signals \/ \E s : signals' = Append(signals, s) /\ Fits(s)
    <3>1. \A k : /\ Fits(NewSignal(k)) /\ Fits([NewSignal(k) EXCEPT !.conv = j.conv])
                 /\ \A r : Fits([NewSignal(k) EXCEPT !.rows = r])
                 /\ Fits([NewSignal(k) EXCEPT !.shown = j.shown])
      BY DEF NewSignal
    <3> HIDE DEF Fits
    <3>2. CASE Load \/ List \/ Add
      BY <3>1, <3>2 DEF Load, List, Add, Continue, Complete, CompleteQuietly
    <3>3. ASSUME NEW op, Create(op)
          PROVE  signals' = signals \/ \E s : signals' = Append(signals, s) /\ Fits(s)
      BY <3>1, <3>3 DEF Create, Continue, Complete
    <3>4. CASE \E op, d : Change(op, d)
      BY <3>1, <3>4 DEF Change, Continue, Complete
    <3>5. CASE DuplicateBegins \/ DuplicateRow \/ DuplicateEnds
      BY <3>1, <3>5 DEF DuplicateBegins, DuplicateRow,
             DuplicateEnds, Continue, Complete, CompleteQuietly
    <3> QED BY <3>2, <3>3, <3>4, <3>5 DEF JobStep
  <2> QED BY <2>1, <2>2, <2>3
<1> QED BY <1>1, <1>3, <1>5, <1>6 DEF DrawnQueues

LEMMA DrawnBackground ==
  ASSUME Types, Drawn, Background
  PROVE  Drawn'
<1>1. UNCHANGED <<active, sidebar, home>>
  BY DEF Background, uiVars, ghostVars
<1>2. active \in Nat /\ \A g \in Gens : home[g] \in Nat
  BY TypesSplit, Constants DEF UiTypes, GhostTypes
<1>3. CASE JobStep
  <2>1. DrawnQueues' /\ ids \in Nat /\ ids <= ids' /\ ids' \in Nat
    BY <1>3, DrawnStep DEF Drawn
  <2>2. DrawnUi'
    BY <1>1, <1>2, <2>1, DrawnMore DEF Drawn, DrawnUi
  <2>3. 1 .. ids \subseteq 1 .. ids'
    BY <2>1, DrawnMore
  <2>4. durable'.convs \in {durable.convs, db.convs}
    BY <1>3 DEF JobStep, Create, Add, Load, List, Change, DuplicateBegins,
                DuplicateRow, DuplicateEnds, dbVars, Commit
  <2>5. db'.convs \subseteq 1 .. ids'
    <3>1. /\ \A c, m : InsertMessage(db, c, m).convs = db.convs
          /\ \A c, n : SetTotal(db, c, n).convs = db.convs
          /\ \A c : CountMessage(db, c).convs = db.convs /\ Archive(db, c).convs = db.convs
          /\ \A c : DeleteConversation(db, c).convs \subseteq db.convs
          /\ \A c : InsertConversation(db, c).convs = db.convs \cup {c}
      <4>1. db \in Database
        BY TypesSplit DEF DbTypeOK
      <4> QED BY <4>1 DEF Database, InsertMessage, SetTotal, CountMessage, Archive,
                      DeleteConversation, InsertConversation
    <3>2. \/ db'.convs \subseteq db.convs
          \/ db'.convs = db.convs \cup {ids + 1} /\ ids' = ids + 1
      BY <1>3, <3>1 DEF JobStep, Create, Add, Load, List, Change, DuplicateBegins,
                DuplicateRow, DuplicateEnds, dbVars
    <3> QED BY <2>1, <2>3, <3>2 DEF Drawn, DrawnFile
  <2> QED BY <2>1, <2>2, <2>3, <2>4, <2>5 DEF Drawn, DrawnFile
<1>4. CASE StreamStep
  <2>1. UNCHANGED <<db, durable, ids, jobs>>
    BY <1>4 DEF StreamStep, dbVars
  <2>2. \/ signals' = signals
        \/ \E s : signals' = Append(signals, s) /\ s.conv = 0 /\ s.shown = {}
    <3>1. \A g, i : LET s == [NewSignal("text") EXCEPT !.gen = g, !.index = i] IN
                      s.conv = 0 /\ s.shown = {}
      BY DEF NewSignal
    <3>2. \A g : LET s == [NewSignal("done") EXCEPT !.gen = g] IN s.conv = 0 /\ s.shown = {}
      BY DEF NewSignal
    <3>3. PICK g \in Gens : EmitChunk(g) \/ StreamEnds(g) \/ CancelLands(g)
      BY <1>4 DEF StreamStep
    <3>4. CASE EmitChunk(g)
      BY <3>1, <3>4 DEF EmitChunk
    <3>5. CASE StreamEnds(g) \/ CancelLands(g)
      BY <3>2, <3>5 DEF StreamEnds, CancelLands
    <3> QED BY <3>3, <3>4, <3>5
  <2>3. signals' \in Seq(DrawnSignal(ids))
    <3>1. ids \in Nat
      BY DrawnHeads DEF Drawn
    <3>2. ASSUME NEW s, signals' = Append(signals, s), s.conv = 0, s.shown = {}
          PROVE  signals' \in Seq(DrawnSignal(ids))
      <4>1. s \in GoodSignal
        <5>1. signals' \in Seq(GoodSignal) /\ signals \in Seq(GoodSignal)
          BY <1>4, StreamTypes, TypesSplit DEF Queues, StreamTypeOK
        <5>2. signals'[Len(signals')] = s /\ Len(signals') \in DOMAIN signals'
          BY <3>2, <5>1
        <5> QED BY <5>1, <5>2
      <4>2. s \in DrawnSignal(ids)
        BY <3>1, <3>2, <4>1 DEF DrawnSignal
      <4> QED BY <3>2, <4>2 DEF Drawn, DrawnQueues
    <3> QED BY <2>2, <3>2 DEF Drawn, DrawnQueues
  <2> QED BY <1>1, <2>1, <2>3 DEF Drawn, DrawnFile, DrawnUi, DrawnQueues
<1> QED BY <1>3, <1>4 DEF Background

(* The main thread puts at most two operations on drawn conversations in the *)
(* queue, and works on a drawn conversation.                                *)
LEMMA DrawnHandled ==
  ASSUME Types, Drawn, UNCHANGED dbVars, Types',
         jobs' \in Seq(DrawnJob(ids)),
         signals' = signals \/ (signals # <<>> /\ Consumed),
         active' <= ids, sidebar' \subseteq 1 .. ids,
         home' = home \/ \E c, g : c <= ids /\ home' = [home EXCEPT ![g] = c]
  PROVE  Drawn'
<1>1. DrawnFile' /\ ids' = ids
  BY DEF dbVars, Drawn, DrawnFile
<1>3. signals' \in Seq(DrawnSignal(ids))
  BY DrawnHeads DEF Drawn, DrawnQueues, Consumed
<1>4. \A g \in Gens : home'[g] <= ids
  <2>1. home \in [Gens -> 0 .. MaxConvs]
    BY TypesSplit DEF GhostTypes
  <2> QED BY <2>1 DEF Drawn, DrawnUi
<1> QED BY <1>1, <1>3, <1>4 DEF Drawn, DrawnQueues, DrawnUi

LEMMA DrawnSend ==
  ASSUME Types, Drawn, NEW c \in 0 .. MaxConvs, c <= ids, NEW g \in Gens, NEW now,
         NEW after \in Seq(DrawnJob(ids)), DoSend(c, g, jobs, now, after)
  PROVE  /\ jobs' \in Seq(DrawnJob(ids))
         /\ \E d, h : d <= ids /\ home' = [home EXCEPT ![h] = d]
<1>1. ids \in Nat /\ Question(g) \in Message
  BY Messages, DrawnHeads, <<>> \in Seq(Chunk) DEF Drawn
<1>2. <<AddJob(c, Question(g))>> \in Seq(DrawnJob(ids))
  BY <1>1, DrawnNew
<1>3. jobs \o <<AddJob(c, Question(g))>> \in Seq(DrawnJob(ids))
  BY <1>2, Concatenation DEF Drawn, DrawnQueues
<1>4. jobs' = (jobs \o <<AddJob(c, Question(g))>>) \o after
  BY DEF DoSend
<1>5. jobs' \in Seq(DrawnJob(ids))
  BY <1>3, <1>4, Concatenation
<1> QED BY <1>5 DEF DoSend

LEMMA DrawnFinish ==
  ASSUME Types, Drawn, NEW g \in Gens, FinishGeneration(g)
  PROVE  jobs' \in Seq(DrawnJob(ids))
<1> DEFINE new == <<AddJob(active, Reply(g, genText)), NewJob("list", 0)>>
<1>1. ids \in Nat /\ Reply(g, genText) \in Message /\ active \in 0 .. MaxConvs
  BY Messages, DrawnHeads, TypesSplit DEF Drawn, UiTypes
<1>2. AddJob(active, Reply(g, genText)) \in DrawnJob(ids)
  BY <1>1, DrawnNew DEF Drawn, DrawnUi
<1>3. NewJob("list", 0) \in DrawnJob(ids)
  BY <1>1, DrawnNew, Constants DEF Ops
<1>4. new \in Seq(DrawnJob(ids))
  BY <1>2, <1>3
<1>5. jobs' = jobs \/ jobs' = jobs \o new
  BY DEF FinishGeneration
<1> HIDE DEF new
<1> QED BY <1>4, <1>5, Concatenation DEF Drawn, DrawnQueues

LEMMA DrawnSubmits ==
  ASSUME Types, Drawn, NEW c \in 0 .. MaxConvs, c <= ids, NEW op \in Ops \ {"add"},
         op \in {"load", "archive", "delete", "duplicate"} => c \in Convs,
         Submitted(<<NewJob(op, c)>>)
  PROVE  jobs' \in Seq(DrawnJob(ids))
<1>1. <<NewJob(op, c)>> \in Seq(DrawnJob(ids))
  BY DrawnNew, DrawnHeads DEF Drawn
<1> QED BY <1>1, Concatenation DEF Submitted, Drawn, DrawnQueues

LEMMA DrawnUser ==
  ASSUME Types, Drawn, Types', User
  PROVE  Drawn'
<1>0. UNCHANGED <<dbVars, signals, sidebar>>
  BY DEF User, SendMessage, Resend, Stop, NewConversation, Select, Duplicate, Change1, uiVars
<1>1. /\ UNCHANGED <<dbVars, signals, sidebar>>
      /\ ids \in Nat /\ active \in 0 .. MaxConvs /\ active <= ids /\ sidebar \subseteq 1 .. ids
      /\ jobs \in Seq(DrawnJob(ids)) /\ 0 \in 0 .. MaxConvs /\ 0 <= ids /\ <<>> \in Seq(DrawnJob(ids))
  BY <1>0, DrawnHeads, TypesSplit, Constants DEF Drawn, DrawnUi, DrawnQueues, UiTypes
<1>2. {"create", "createSend", "load", "duplicate", "archive", "delete"} \subseteq Ops \ {"add"}
  BY DEF Ops
<1>3. sent < MaxGens => sent + 1 \in Gens
  BY TypesSplit, Constants DEF CountTypes, Gens
<1>4. CASE SendMessage \/ Resend
  <2>1. CASE active # 0
    <3>1. DoSend(active, sent + 1, jobs, history, <<>>) /\ sent < MaxGens /\ active' = active
      BY <1>4, <2>1 DEF SendMessage, Resend
    <3> QED BY <1>1, <1>3, <3>1, DrawnSend, DrawnHandled
  <2>2. CASE active = 0
    <3>1. Submitted(<<NewJob("createSend", 0)>>) /\ UNCHANGED <<active, home>>
      BY <1>4, <2>2 DEF SendMessage, Resend
    <3> QED BY <1>1, <1>2, <3>1, DrawnSubmits, DrawnHandled
  <2> QED BY <2>1, <2>2
<1>5. CASE Stop
  <2>1. token \in Gens /\ FinishGeneration(token) /\ UNCHANGED <<active, home>>
    BY <1>5, TypesSplit DEF Stop, UiTypes, Gens
  <2> QED BY <1>1, <2>1, DrawnFinish, DrawnHandled
<1>6. CASE NewConversation
  <2>1. Submitted(<<NewJob("create", 0)>>) /\ UNCHANGED <<active, home>>
    BY <1>6 DEF NewConversation, uiVars
  <2> QED BY <1>1, <1>2, <2>1, DrawnSubmits, DrawnHandled
<1>7. ASSUME NEW c \in Convs, \/ Select(c) \/ Duplicate(c)
                              \/ \E op \in {"archive", "delete"} : Change1(op, c)
      PROVE Drawn'
  <2>1. c \in sidebar /\ c <= ids /\ c \in 0 .. MaxConvs
    BY <1>1, <1>7, Constants DEF Select, Duplicate, Change1, Drawn, DrawnUi
  <2>2. /\ \E op \in {"load", "duplicate", "archive", "delete"} : Submitted(<<NewJob(op, c)>>)
        /\ active' \in {active, c} /\ UNCHANGED home
    BY <1>7 DEF Select, Duplicate, Change1, uiVars, ghostVars
  <2>3. jobs' \in Seq(DrawnJob(ids)) /\ active' <= ids
    BY <1>1, <1>2, <2>1, <2>2, DrawnSubmits
  <2> QED BY <1>1, <2>2, <2>3, DrawnHandled
<1> QED BY <1>4, <1>5, <1>6, <1>7 DEF User

LEMMA DrawnOnSignal ==
  ASSUME Types, Drawn, Types', OnSignal
  PROVE  Drawn'
<1>1. /\ UNCHANGED dbVars /\ signals # <<>> /\ Consumed
      /\ ids \in Nat /\ active \in 0 .. MaxConvs /\ active <= ids /\ sidebar \subseteq 1 .. ids
      /\ jobs \in Seq(DrawnJob(ids)) /\ 0 \in 0 .. MaxConvs /\ 0 <= ids /\ <<>> \in Seq(DrawnJob(ids))
  BY DrawnHeads, TypesSplit, Constants
     DEF Drawn, DrawnUi, DrawnQueues, UiTypes, OnSignal, OnText, OnStreamDone, OnCreated,
         OnCreatedToSend, OnLoaded, OnRefresh, OnListed, Received
<1>2. /\ Head(signals) \in DrawnSignal(ids) /\ Head(signals).conv <= ids
      /\ Head(signals).shown \subseteq 1 .. ids /\ Head(signals).conv \in 0 .. MaxConvs
  BY <1>1, DrawnHeads DEF Drawn, DrawnSignal, GoodSignal, Signal
<1>3. "list" \in Ops \ {"add"}
  BY DEF Ops
<1>4. CASE OnText \/ OnLoaded \/ OnListed
  BY <1>1, <1>2, <1>4, DrawnHandled DEF OnText, OnLoaded, OnListed, ghostVars
<1>5. CASE OnCreated \/ OnRefresh
  <2>1. Submitted(<<NewJob("list", 0)>>) /\ UNCHANGED <<sidebar, home>>
        /\ active' \in {active, Head(signals).conv}
    BY <1>5 DEF OnCreated, OnRefresh, uiVars, ghostVars
  <2>2. jobs' \in Seq(DrawnJob(ids)) /\ active' <= ids
    BY <1>1, <1>2, <1>3, <2>1, DrawnSubmits
  <2> QED BY <1>1, <2>1, <2>2, DrawnHandled
<1>6. CASE OnStreamDone
  <2>1. CASE Head(signals).gen = token
    <3>1. FinishGeneration(token) /\ UNCHANGED <<active, sidebar, home>> /\ token \in Gens
      BY <1>2, <1>6, <2>1 DEF OnStreamDone, Received, DrawnSignal, GoodSignal
    <3> QED BY <1>1, <3>1, DrawnFinish, DrawnHandled
  <2>2. CASE Head(signals).gen # token
    BY <1>1, <1>6, <2>2, DrawnHandled DEF OnStreamDone
  <2> QED BY <2>1, <2>2
<1>7. CASE OnCreatedToSend
  <2>1. active' = Head(signals).conv /\ UNCHANGED sidebar
    BY <1>7 DEF OnCreatedToSend
  <2>2. CASE pendingText # 0
    <3>1. pendingText \in Gens
      BY <2>2, TypesSplit DEF UiTypes, Gens
    <3>2. <<NewJob("list", 0)>> \in Seq(DrawnJob(ids))
      BY <1>1, <1>3, DrawnNew
    <3>3. DoSend(Head(signals).conv, pendingText, jobs, <<>>, <<NewJob("list", 0)>>)
      BY <1>7, <2>2 DEF OnCreatedToSend
    <3> QED BY <1>1, <1>2, <2>1, <3>1, <3>2, <3>3, DrawnSend, DrawnHandled
  <2>3. CASE pendingText = 0
    <3>1. Submitted(<<NewJob("list", 0)>>) /\ UNCHANGED home
      BY <1>7, <2>3 DEF OnCreatedToSend
    <3> QED BY <1>1, <1>2, <1>3, <2>1, <3>1, DrawnSubmits, DrawnHandled
  <2> QED BY <2>2, <2>3
<1> QED BY <1>4, <1>5, <1>6, <1>7 DEF OnSignal

LEMMA DrawnRestart ==
  ASSUME Types, Drawn, Restart
  PROVE  Drawn'
<1>1. ids' = ids /\ ids \in Nat /\ db' = durable /\ durable' = durable
  BY DrawnHeads DEF Restart, DbRestart, Drawn
<1>2. jobs' \in Seq(DrawnJob(ids')) /\ signals' \in Seq(DrawnSignal(ids'))
  <2>1. NewJob("list", 0) \in DrawnJob(ids)
    BY <1>1, DrawnNew, Constants DEF Ops
  <2> QED BY <1>1, <2>1 DEF Restart, RunnerRestart
<1>3. active' = 0 /\ sidebar' = {} /\ home' = [g \in Gens |-> 0]
  BY DEF Restart
<1> QED BY <1>1, <1>2, <1>3 DEF Drawn, DrawnFile, DrawnQueues, DrawnUi

LEMMA DrawnInvariant == Spec => []Drawn
<1>1. Init => Drawn
  BY DEF Init, DbInit, EmptyDatabase, RunnerInit, UiInit, Drawn, DrawnFile, DrawnQueues, DrawnUi
<1>2. Types /\ Types' /\ Drawn /\ [Next]_vars => Drawn'
  <2>1. CASE UNCHANGED vars
    BY <2>1 DEF vars, dbVars, runnerVars, uiVars, ghostVars, Drawn, DrawnFile, DrawnQueues, DrawnUi
  <2> QED BY <2>1, DrawnUser, DrawnOnSignal, DrawnBackground, DrawnRestart DEF Next
<1> QED BY <1>1, <1>2, TypesInvariant, PTL DEF Spec

-----------------------------------------------------------------------------
(* Questions and answers.  A question that has been asked is stored, comes    *)
(* with an operation in progress, or its conversation was deleted; an answer *)
(* in progress comes behind its question; the rows of a copy come in the    *)
(* order in which they were read.  d is a database, js a queue of operations *)
(* and mv the generations whose conversation was left.                      *)
Questioned(ms, g) == \E k \in DOMAIN ms : ms[k] = Question(g)
Settled(d, c, g) == c \notin d.convs \/ Questioned(d.msgs[c], g)

Inserts(j) == j.op = "add" /\ j.step = 1
Asks(j, c, g) == Inserts(j) /\ j.conv = c /\ Head(j.rows) = Question(g)
Tells(j, c, g) == Inserts(j) /\ j.conv = c /\ Head(j.rows).role = "assistant" /\ Head(j.rows).gen = g
Copies(j) == j.op = "duplicate" /\ j.step > 5

Coming(d, js, c, g, n) == Settled(d, c, g) \/ \E k \in 1 .. n : Asks(js[k], c, g)
RowsFollow(d, mv, rows, c) ==
    \A k \in DOMAIN rows : rows[k].role = "assistant" /\ rows[k].gen \notin mv =>
        Settled(d, c, rows[k].gen) \/ \E l \in 1 .. k - 1 : rows[l] = Question(rows[k].gen)

Replies(d, js, mv) ==
    \A i \in DOMAIN js : \A c \in 0 .. MaxConvs, g \in Gens :
        Tells(js[i], c, g) /\ g \notin mv => Coming(d, js, c, g, i - 1)
CopiesFollow(d, js, mv) ==
    \A i \in DOMAIN js : Copies(js[i]) => RowsFollow(d, mv, js[i].rows, js[i].copy)

TokenAsked == token # 0 => Coming(db, jobs, home[token], token, Len(jobs))
Ordered == QuestionFirst /\ TokenAsked /\ Replies(db, jobs, moved) /\ CopiesFollow(db, jobs, moved)

(* What is settled in d is settled in d2, of the conversations drawn so far. *)
Settles(d, d2, n) == \A c \in 0 .. n, g \in Gens : Settled(d, c, g) => Settled(d2, c, g)

(* The first operation goes one statement further, or is done. *)
Turned(js, js2, d2, mv) ==
    \/ js2 = Tail(js)
    \/ \E k : /\ js2 = Append(Tail(js), k) /\ ~Inserts(k)
              /\ Copies(k) => RowsFollow(d2, mv, k.rows, k.copy)

LEMMA TailOf ==
  ASSUME NEW S, NEW s \in Seq(S), s # <<>>
  PROVE  /\ Len(s) \in Nat \ {0} /\ DOMAIN s = 1 .. Len(s) /\ Head(s) = s[1]
         /\ Len(Tail(s)) = Len(s) - 1 /\ DOMAIN Tail(s) = 1 .. Len(s) - 1
         /\ \A i \in 1 .. Len(s) - 1 : Tail(s)[i] = s[i + 1] /\ i + 1 \in 1 .. Len(s)
OBVIOUS

LEMMA TurnOf ==
  ASSUME NEW S, NEW s \in Seq(S), s # <<>>, NEW e, NEW t, t = Append(Tail(s), e)
  PROVE  /\ DOMAIN t = 1 .. Len(s) /\ Len(t) = Len(s)
         /\ \A i \in 1 .. Len(s) - 1 : t[i] = s[i + 1]
         /\ t[Len(s)] = e
<1> DEFINE U == S \cup {e}
<1>1. s \in Seq(U) /\ e \in U
  OBVIOUS
<1>2. Tail(s) \in Seq(U)
  BY <1>1
<1> HIDE DEF U
<1>3. DOMAIN t = 1 .. Len(Tail(s)) + 1 /\ Len(t) = Len(Tail(s)) + 1
      /\ \A i \in 1 .. Len(Tail(s)) : t[i] = Tail(s)[i]
      /\ t[Len(Tail(s)) + 1] = e
  BY <1>1, <1>2
<1>4. Len(s) \in Nat \ {0} /\ Len(Tail(s)) = Len(s) - 1
      /\ \A i \in 1 .. Len(s) - 1 : Tail(s)[i] = s[i + 1]
  BY TailOf
<1> QED BY <1>3, <1>4

(* Where an operation was, and where it is after the turn. *)
LEMMA Places ==
  ASSUME NEW S, NEW js \in Seq(S), js # <<>>, NEW js2, NEW d2, NEW mv, Turned(js, js2, d2, mv),
         NEW i \in DOMAIN js2
  PROVE  \/ /\ i \in 1 .. Len(js) - 1 /\ i + 1 \in DOMAIN js /\ js2[i] = js[i + 1]
         \/ ~Inserts(js2[i]) /\ (Copies(js2[i]) => RowsFollow(d2, mv, js2[i].rows, js2[i].copy))
<1>1. Len(js) \in Nat \ {0} /\ DOMAIN js = 1 .. Len(js)
  BY TailOf
<1>2. CASE js2 = Tail(js)
  BY <1>1, <1>2, TailOf
<1>3. CASE \E k : /\ js2 = Append(Tail(js), k) /\ ~Inserts(k)
                  /\ Copies(k) => RowsFollow(d2, mv, k.rows, k.copy)
  <2>1. PICK k : /\ js2 = Append(Tail(js), k) /\ ~Inserts(k)
                 /\ Copies(k) => RowsFollow(d2, mv, k.rows, k.copy)
    BY <1>3
  <2>2. /\ DOMAIN js2 = 1 .. Len(js)
        /\ \A l \in 1 .. Len(js) - 1 : js2[l] = js[l + 1]
        /\ js2[Len(js)] = k
    BY <2>1, TurnOf
  <2>3. i \in 1 .. Len(js) /\ (i \in 1 .. Len(js) - 1 => i + 1 \in 1 .. Len(js))
    BY <1>1, <2>2
  <2>4. CASE i \in 1 .. Len(js) - 1
    BY <1>1, <2>2, <2>3, <2>4
  <2>5. CASE i \notin 1 .. Len(js) - 1
    <3>1. i = Len(js)
      BY <1>1, <2>3, <2>5
    <3> QED BY <2>1, <2>2, <3>1
  <2> QED BY <2>4, <2>5
<1> QED BY <1>2, <1>3 DEF Turned

(* What came with the first n + 1 operations comes with the first n. *)
LEMMA StillComing ==
  ASSUME NEW S, NEW js \in Seq(S), js # <<>>, NEW js2, NEW d, NEW d2, NEW mv,
         Turned(js, js2, d2, mv),
         NEW c, NEW g, NEW n \in 0 .. Len(js) - 1,
         Settled(d, c, g) => Settled(d2, c, g),
         Asks(Head(js), c, g) => Settled(d2, c, g),
         Coming(d, js, c, g, n + 1)
  PROVE  Coming(d2, js2, c, g, n)
<1>1. CASE Settled(d, c, g)
  BY <1>1 DEF Coming
<1>2. ASSUME NEW k \in 1 .. n + 1, Asks(js[k], c, g)
      PROVE  Coming(d2, js2, c, g, n)
  <2>0. Len(js) \in Nat \ {0} /\ Head(js) = js[1]
    BY TailOf
  <2>1. CASE k = 1
    BY <1>2, <2>0, <2>1 DEF Coming
  <2>2. CASE k # 1
    <3>0. Len(js) \in Nat /\ n \in Nat /\ n <= Len(js) - 1 /\ k \in Nat /\ k > 1 /\ k <= n + 1
      BY <2>0, <2>2
    <3>1. k - 1 \in 1 .. n /\ k - 1 \in 1 .. Len(js) - 1 /\ (k - 1) + 1 = k
      BY <3>0
    <3>2. js2[k - 1] = js[k]
      <4>1. CASE js2 = Tail(js)
        BY <3>1, <4>1, TailOf
      <4>2. ASSUME NEW e, js2 = Append(Tail(js), e) PROVE js2[k - 1] = js[k]
        BY <3>1, <4>2, TurnOf
      <4> QED BY <4>1, <4>2 DEF Turned
    <3> QED BY <1>2, <3>1, <3>2 DEF Coming
  <2> QED BY <2>1, <2>2
<1> QED BY <1>1, <1>2 DEF Coming

LEMMA TurnLength ==
  ASSUME NEW S, NEW js \in Seq(S), js # <<>>, NEW js2, NEW d2, NEW mv, Turned(js, js2, d2, mv)
  PROVE  Len(js2) \in Nat /\ Len(js) - 1 \in 0 .. Len(js2) /\ Len(js) \in Nat \ {0}
<1>1. Len(js) \in Nat \ {0} /\ Len(Tail(js)) = Len(js) - 1
  BY TailOf
<1>2. Len(js2) = Len(js) - 1 \/ Len(js2) = Len(js)
  BY <1>1, TurnOf DEF Turned
<1> DEFINE n == Len(js)
<1> DEFINE m == Len(js2)
<1>3. n \in Nat \ {0} /\ (m = n - 1 \/ m = n)
  BY <1>1, <1>2
<1> HIDE DEF n, m
<1>4. m \in Nat /\ n - 1 \in 0 .. m
  BY <1>3
<1> QED BY <1>3, <1>4 DEF n, m

LEMMA Rotation ==
  ASSUME NEW js \in Seq(GoodJob), js # <<>>, NEW js2, NEW d, NEW d2, NEW mv,
         NEW n \in 0 .. MaxConvs, js \in Seq(DrawnJob(n)),
         Turned(js, js2, d2, mv), Settles(d, d2, n),
         \A c \in 0 .. MaxConvs, g \in Gens : Asks(Head(js), c, g) => Settled(d2, c, g)
  PROVE  /\ \A c \in 0 .. n, g \in Gens :
               Coming(d, js, c, g, Len(js)) => Coming(d2, js2, c, g, Len(js2))
         /\ Replies(d, js, mv) => Replies(d2, js2, mv)
         /\ CopiesFollow(d, js, mv) => CopiesFollow(d2, js2, mv)
<1>1. Len(js2) \in Nat /\ Len(js) - 1 \in 0 .. Len(js2) /\ Len(js) \in Nat \ {0}
      /\ DOMAIN js = 1 .. Len(js)
  BY TurnLength, TailOf
<1>2. 0 .. n \subseteq 0 .. MaxConvs
  BY Constants
<1>3. \A i \in DOMAIN js : js[i] \in GoodJob /\ js[i].conv \in 0 .. n /\ js[i].copy \in 0 .. n
  <2>1. \A i \in DOMAIN js : js[i] \in DrawnJob(n)
    OBVIOUS
  <2> QED BY <2>1, Constants DEF DrawnJob, GoodJob, Job
<1>4. ASSUME NEW c \in 0 .. n, NEW g \in Gens, NEW m \in 0 .. Len(js) - 1, Coming(d, js, c, g, m + 1)
      PROVE  Coming(d2, js2, c, g, m)
  BY <1>2, <1>4, StillComing DEF Settles
<1>5. ASSUME NEW c \in 0 .. n, NEW g \in Gens, Coming(d, js, c, g, Len(js))
      PROVE  Coming(d2, js2, c, g, Len(js2))
  <2>1. Len(js) - 1 \in 0 .. Len(js) - 1 /\ (Len(js) - 1) + 1 = Len(js)
    BY <1>1
  <2>2. Coming(d2, js2, c, g, Len(js) - 1)
    BY <1>4, <1>5, <2>1
  <2>3. 1 .. Len(js) - 1 \subseteq 1 .. Len(js2)
    BY <1>1
  <2> QED BY <2>2, <2>3 DEF Coming
<1>6. ASSUME Replies(d, js, mv), NEW i \in DOMAIN js2, NEW c \in 0 .. MaxConvs, NEW g \in Gens,
             Tells(js2[i], c, g), g \notin mv
      PROVE  Coming(d2, js2, c, g, i - 1)
  <2>1. i \in 1 .. Len(js) - 1 /\ i + 1 \in DOMAIN js /\ js2[i] = js[i + 1]
    BY <1>6, Places DEF Tells
  <2>2. (i + 1) - 1 = (i - 1) + 1 /\ i - 1 \in 0 .. Len(js) - 1
    BY <1>1, <2>1
  <2>3. Coming(d, js, c, g, (i - 1) + 1)
    BY <1>6, <2>1, <2>2 DEF Replies
  <2>4. c \in 0 .. n
    BY <1>3, <1>6, <2>1 DEF Tells
  <2> QED BY <1>4, <2>2, <2>3, <2>4
<1>7. ASSUME CopiesFollow(d, js, mv), NEW i \in DOMAIN js2, Copies(js2[i])
      PROVE  RowsFollow(d2, mv, js2[i].rows, js2[i].copy)
  <2>1. CASE i + 1 \in DOMAIN js /\ js2[i] = js[i + 1]
    <3> DEFINE rows == js[i + 1].rows
    <3> DEFINE c == js[i + 1].copy
    <3>1. RowsFollow(d, mv, rows, c) /\ c \in 0 .. n
      BY <1>3, <1>7, <2>1 DEF CopiesFollow
    <3>2. \A k \in DOMAIN rows : rows[k].gen \in Gens
      <4>1. rows \in Seq(Message)
        BY <1>3, <2>1 DEF GoodJob, Job
      <4> HIDE DEF rows
      <4>2. \A k \in DOMAIN rows : rows[k] \in Message
        BY <4>1
      <4> QED BY <4>2 DEF Message
    <3> HIDE DEF rows, c
    <3>3. RowsFollow(d2, mv, rows, c)
      BY <3>1, <3>2 DEF RowsFollow, Settles
    <3> QED BY <2>1, <3>3 DEF rows, c
  <2> QED BY <1>7, <2>1, Places
<1> QED BY <1>5, <1>6, <1>7 DEF Replies, CopiesFollow

-----------------------------------------------------------------------------
(* What statements do to questions and answers.                             *)
AskedIn(mv, ms) ==
    \A i \in DOMAIN ms :
        ms[i].role = "assistant" /\ ms[i].gen \notin mv => \E j \in 1 .. i - 1 : ms[j] = Question(ms[i].gen)
Orderly(d, mv) == \A c \in Convs : AskedIn(mv, d.msgs[c])

LEMMA FirstIsOrderly == QuestionFirst <=> Orderly(db, moved) /\ Orderly(durable, moved)
BY DEF QuestionFirst, Orderly, AskedIn, Asked

(* From d to d2 nothing that was settled is undone, and answers stay behind  *)
(* their questions.                                                        *)
Keeps(d, d2, mv, n) == Settles(d, d2, n) /\ (Orderly(d, mv) => Orderly(d2, mv))

LEMMA SameMessages ==
  ASSUME NEW d, NEW d2, NEW mv, NEW n, d2.convs = d.convs, d2.msgs = d.msgs
  PROVE  Keeps(d, d2, mv, n)
BY DEF Keeps, Settles, Settled, Orderly

LEMMA QuietStatements ==
  ASSUME NEW d \in Database, NEW mv, NEW n \in Nat, NEW c
  PROVE  /\ Keeps(d, CountMessage(d, c), mv, n)
         /\ \A k : Keeps(d, SetTotal(d, c, k), mv, n)
         /\ Keeps(d, Archive(d, c), mv, n)
         /\ Keeps(d, InsertConversation(d, n + 1), mv, n)
<1>1. /\ CountMessage(d, c).convs = d.convs /\ CountMessage(d, c).msgs = d.msgs
      /\ Archive(d, c).convs = d.convs /\ Archive(d, c).msgs = d.msgs
      /\ \A k : SetTotal(d, c, k).convs = d.convs /\ SetTotal(d, c, k).msgs = d.msgs
  BY DEF Database, CountMessage, Archive, SetTotal
<1>2. /\ InsertConversation(d, n + 1).convs = d.convs \cup {n + 1}
      /\ InsertConversation(d, n + 1).msgs = d.msgs
  BY DEF Database, InsertConversation
<1>3. Keeps(d, InsertConversation(d, n + 1), mv, n)
  <2>1. \A k \in 0 .. n : k # n + 1
    OBVIOUS
  <2> QED BY <1>2, <2>1 DEF Keeps, Settles, Settled, Orderly
<1> QED BY <1>1, <1>3, SameMessages

LEMMA Deletion ==
  ASSUME NEW d \in Database, NEW mv, NEW n, NEW c \in Convs
  PROVE  Keeps(d, DeleteConversation(d, c), mv, n)
<1> DEFINE e == DeleteConversation(d, c)
<1>1. e.convs = d.convs \ {c} /\ e.msgs = [d.msgs EXCEPT ![c] = <<>>]
  BY DEF Database, DeleteConversation
<1>2. d.msgs \in [Convs -> Seq(Message)] /\ d.convs \subseteq Convs
  BY DEF Database
<1> HIDE DEF e
<1>3. e.msgs[c] = <<>> /\ \A k \in Convs \ {c} : e.msgs[k] = d.msgs[k]
  BY <1>1, <1>2
<1>4. AskedIn(mv, <<>>)
  BY DEF AskedIn
<1>5. Orderly(d, mv) => Orderly(e, mv)
  BY <1>3, <1>4 DEF Orderly
<1>6. Settles(d, e, n)
  BY <1>1, <1>2, <1>3 DEF Settles, Settled
<1> QED BY <1>5, <1>6 DEF Keeps, e

LEMMA MessageInserted ==
  ASSUME NEW d \in Database, NEW mv, NEW n, NEW c \in d.convs, NEW m \in Message,
         m.role = "assistant" /\ m.gen \notin mv => Settled(d, c, m.gen)
  PROVE  /\ Keeps(d, InsertMessage(d, c, m), mv, n)
         /\ \A g \in Gens : m = Question(g) => Settled(InsertMessage(d, c, m), c, g)
<1> DEFINE e == InsertMessage(d, c, m)
<1> DEFINE old == d.msgs[c]
<1> DEFINE new == Append(old, m)
<1>1. c \in Convs /\ d.msgs \in [Convs -> Seq(Message)] /\ d.convs \subseteq Convs
  BY DEF Database
<1>2. e.convs = d.convs /\ e.msgs = [d.msgs EXCEPT ![c] = new]
  BY DEF Database, InsertMessage
<1>3. old \in Seq(Message)
  BY <1>1
<1> HIDE DEF e, old
<1>4. /\ Len(old) \in Nat /\ DOMAIN old = 1 .. Len(old) /\ DOMAIN new = 1 .. Len(old) + 1
      /\ \A i \in DOMAIN old : new[i] = old[i]
      /\ new[Len(old) + 1] = m
  BY <1>3
<1>5. e.msgs[c] = new /\ \A k \in Convs \ {c} : e.msgs[k] = d.msgs[k]
  BY <1>1, <1>2
<1> HIDE DEF new
<1>6. Settles(d, e, n)
  <2> SUFFICES ASSUME NEW k \in 0 .. n, NEW g \in Gens, Settled(d, k, g) PROVE Settled(e, k, g)
    BY DEF Settles
  <2>1. CASE k \notin d.convs
    BY <1>2, <2>1 DEF Settled
  <2>2. CASE k \in d.convs /\ k # c
    BY <1>1, <1>5, <2>2 DEF Settled
  <2>3. CASE k = c
    <3>1. PICK i \in DOMAIN old : old[i] = Question(g)
      BY <2>3 DEF Settled, Questioned, old
    <3>2. i \in DOMAIN new /\ new[i] = Question(g)
      <4>1. i \in 1 .. Len(old) + 1
        BY <1>4, <3>1
      <4> QED BY <1>4, <3>1, <4>1
    <3> QED BY <1>5, <2>3, <3>2 DEF Settled, Questioned
  <2> QED BY <2>1, <2>2, <2>3
<1>7. ASSUME Orderly(d, mv) PROVE Orderly(e, mv)
  <2>1. AskedIn(mv, old)
    BY <1>1, <1>7 DEF Orderly, old
  <2>2. AskedIn(mv, new)
    <3> SUFFICES ASSUME NEW i \in DOMAIN new, new[i].role = "assistant", new[i].gen \notin mv
                 PROVE  \E j \in 1 .. i - 1 : new[j] = Question(new[i].gen)
      BY DEF AskedIn
    <3>1. CASE i \in DOMAIN old
      <4>1. PICK j \in 1 .. i - 1 : old[j] = Question(old[i].gen)
        BY <1>4, <2>1, <3>1 DEF AskedIn
      <4>2. j \in DOMAIN old
        BY <1>4, <3>1, <4>1
      <4> QED BY <1>4, <3>1, <4>1, <4>2
    <3>2. CASE i \notin DOMAIN old
      <4>1. i = Len(old) + 1
        BY <1>4, <3>2
      <4>2. Settled(d, c, m.gen) /\ new[i] = m
        BY <1>4, <4>1
      <4>3. PICK j \in DOMAIN old : old[j] = Question(m.gen)
        BY <4>2 DEF Settled, Questioned, old
      <4>4. j \in 1 .. i - 1 /\ new[j] = old[j]
        BY <1>4, <4>1, <4>3
      <4> QED BY <4>2, <4>3, <4>4
    <3> QED BY <3>1, <3>2
  <2> QED BY <1>5, <1>7, <2>2 DEF Orderly
<1>8. ASSUME NEW g \in Gens, m = Question(g) PROVE Settled(e, c, g)
  <2>1. Len(old) + 1 \in DOMAIN new
    BY <1>4
  <2> QED BY <1>4, <1>5, <1>8, <2>1 DEF Settled, Questioned
<1> QED BY <1>6, <1>7, <1>8 DEF Keeps, e

(* The rows of a copy. *)
LEMMA FollowsKept ==
  ASSUME NEW d, NEW d2, NEW mv, NEW n, NEW c \in 0 .. n, NEW rows \in Seq(Message),
         RowsFollow(d, mv, rows, c), Settles(d, d2, n)
  PROVE  RowsFollow(d2, mv, rows, c)
<1>1. \A k \in DOMAIN rows : rows[k].gen \in Gens
  <2>1. \A k \in DOMAIN rows : rows[k] \in Message
    OBVIOUS
  <2> QED BY <2>1 DEF Message
<1> QED BY <1>1 DEF RowsFollow, Settles

LEMMA FollowsRest ==
  ASSUME NEW d, NEW d2, NEW mv, NEW n, NEW c \in 0 .. n, NEW rows \in Seq(Message), rows # <<>>,
         RowsFollow(d, mv, rows, c), Settles(d, d2, n),
         \A g \in Gens : Head(rows) = Question(g) => Settled(d2, c, g)
  PROVE  RowsFollow(d2, mv, Tail(rows), c)
<1> DEFINE rest == Tail(rows)
<1>1. /\ Len(rows) \in Nat \ {0} /\ DOMAIN rows = 1 .. Len(rows) /\ Head(rows) = rows[1]
      /\ DOMAIN rest = 1 .. Len(rows) - 1
      /\ \A i \in 1 .. Len(rows) - 1 : rest[i] = rows[i + 1] /\ i + 1 \in 1 .. Len(rows)
  BY TailOf
<1> HIDE DEF rest
<1>2. \A k \in DOMAIN rows : rows[k].gen \in Gens
  <2>1. \A k \in DOMAIN rows : rows[k] \in Message
    OBVIOUS
  <2> QED BY <2>1 DEF Message
<1>3. RowsFollow(d2, mv, rows, c)
  BY FollowsKept
<1> SUFFICES ASSUME NEW k \in DOMAIN rest, rest[k].role = "assistant", rest[k].gen \notin mv
             PROVE  Settled(d2, c, rest[k].gen) \/ \E l \in 1 .. k - 1 : rest[l] = Question(rest[k].gen)
  BY DEF RowsFollow, rest
<1>4. rest[k] = rows[k + 1] /\ k + 1 \in DOMAIN rows
  BY <1>1
<1> DEFINE g == rows[k + 1].gen
<1>5. g \in Gens
  BY <1>2, <1>4
<1>6. Settled(d2, c, g) \/ \E l \in 1 .. (k + 1) - 1 : rows[l] = Question(g)
  BY <1>3, <1>4 DEF RowsFollow
<1>7. ASSUME NEW l \in 1 .. (k + 1) - 1, rows[l] = Question(g)
      PROVE  Settled(d2, c, g) \/ \E i \in 1 .. k - 1 : rest[i] = Question(g)
  <2>1. CASE l = 1
    BY <1>1, <1>5, <1>7, <2>1
  <2>2. CASE l # 1
    <3>0. k \in Nat /\ k <= Len(rows) - 1 /\ l \in Nat /\ l > 1 /\ l <= k /\ Len(rows) \in Nat
      BY <1>1, <2>2
    <3>1. l - 1 \in 1 .. k - 1 /\ l - 1 \in 1 .. Len(rows) - 1 /\ (l - 1) + 1 = l
      BY <3>0
    <3>2. rest[l - 1] = rows[l]
      BY <1>1, <3>1
    <3> QED BY <1>7, <3>1, <3>2
  <2> QED BY <2>1, <2>2
<1> QED BY <1>4, <1>6, <1>7

LEMMA FollowsRead ==
  ASSUME NEW d \in Database, NEW mv, NEW c, NEW k \in Convs, Orderly(d, mv)
  PROVE  /\ RowsFollow(d, mv, d.msgs[k], c) /\ RowsFollow(d, mv, First(d.msgs[k]), c)
         /\ \A rows : RowsFollow(d, mv, rows, c) => RowsFollow(d, mv, Fetched(rows, d.msgs[k]), c)
<1> DEFINE ms == d.msgs[k]
<1>1. ms \in Seq(Message)
  BY DEF Database
<1>2. RowsFollow(d, mv, ms, c) /\ AskedIn(mv, ms)
  BY DEF Orderly, AskedIn, RowsFollow
<1> HIDE DEF ms
<1>3. RowsFollow(d, mv, First(ms), c)
  <2>1. CASE ms = <<>>
    BY <1>2, <2>1 DEF First
  <2>2. CASE ms # <<>>
    <3>1. /\ First(ms) = <<ms[1]>> /\ 1 \in DOMAIN ms /\ 1 .. 1 - 1 = {}
          /\ DOMAIN First(ms) = {1} /\ First(ms)[1] = ms[1]
      BY <1>1, <2>2 DEF First
    <3>2. ~(ms[1].role = "assistant" /\ ms[1].gen \notin mv)
      BY <1>2, <3>1 DEF AskedIn
    <3> QED BY <3>1, <3>2 DEF RowsFollow
  <2> QED BY <2>1, <2>2
<1> QED BY <1>2, <1>3 DEF Fetched, ms

(* What a statement of the first operation amounts to. *)
OrderedStep ==
    /\ Turned(jobs, jobs', db', moved)
    /\ Keeps(db, db', moved, ids)
    /\ \A c \in 0 .. MaxConvs, g \in Gens : Asks(Head(jobs), c, g) => Settled(db', c, g)
    /\ durable' \in {durable, db}

LEMMA Turning ==
  ASSUME NEW k, ~Inserts(k), Copies(k) => RowsFollow(db', moved, k.rows, k.copy), Continue(k)
  PROVE  Turned(jobs, jobs', db', moved)
BY DEF Turned, Continue

LEMMA Completing ==
  ASSUME CompleteQuietly \/ \E s : Complete(s)
  PROVE  Turned(jobs, jobs', db', moved)
BY DEF Turned, Complete, CompleteQuietly

LEMMA SameDatabase ==
  ASSUME db' = db
  PROVE  Keeps(db, db', moved, ids)
BY SameMessages

(* The operations other than add() and duplicate(). *)
LEMMA OthersOrdered ==
  ASSUME Types, jobs # <<>>,
         \/ \E op \in {"create", "createSend"} : Create(op)
         \/ Load \/ List
         \/ Change("archive", Archive(db, Head(jobs).conv))
         \/ Change("delete", DeleteConversation(db, Head(jobs).conv))
  PROVE  OrderedStep
<1> DEFINE j == Head(jobs)
<1>1. j \in GoodJob /\ j \in Job /\ Next1(j).op = j.op
  BY HeadJob, NextFields DEF Types, GoodJob
<1>2. db \in Database /\ ids \in Nat
  BY TypesSplit, Constants DEF DbTypeOK
<1>3. j.op \in {"create", "createSend", "load", "list", "archive", "delete"}
  BY DEF Create, Load, List, Change, At
<1>4. \A c, g : ~Asks(j, c, g)
  BY <1>3 DEF Asks, Inserts
<1>5. \A k : k.op = j.op => ~Inserts(k) /\ ~Copies(k)
  BY <1>3 DEF Inserts, Copies
<1>6. \A n : [Next1(j) EXCEPT !.conv = n].op = j.op
  BY <1>1, NextFields
<1>7. CASE Load \/ List
  <2>1. /\ UNCHANGED <<db, durable>>
        /\ \/ \E s : Complete(s)
           \/ \E x : Continue([Next1(j) EXCEPT !.rows = x]) \/ Continue([Next1(j) EXCEPT !.shown = x])
    BY <1>7 DEF Load, List, dbVars
  <2>2. \A x : [Next1(j) EXCEPT !.rows = x].op = j.op /\ [Next1(j) EXCEPT !.shown = x].op = j.op
    BY <1>1, NextFields
  <2>3. Turned(jobs, jobs', db', moved)
    BY <1>5, <2>1, <2>2, Turning, Completing
  <2> QED BY <1>4, <2>1, <2>3, SameDatabase DEF OrderedStep
<1>8. ASSUME NEW op \in {"create", "createSend"}, Create(op) PROVE OrderedStep
  <2>1. CASE At(op, 1)
    <3>1. /\ db' = InsertConversation(db, ids + 1) /\ UNCHANGED durable
          /\ Continue([Next1(j) EXCEPT !.conv = ids + 1])
      BY <1>8, <2>1 DEF Create, At
    <3>2. Turned(jobs, jobs', db', moved)
      BY <1>5, <1>6, <3>1, Turning
    <3>3. Keeps(db, db', moved, ids)
      BY <1>2, <3>1, QuietStatements
    <3> QED BY <1>4, <3>1, <3>2, <3>3 DEF OrderedStep
  <2>2. CASE At(op, 2)
    <3>1. Commit /\ UNCHANGED db /\ \E s : Complete(s)
      BY <1>8, <2>2 DEF Create, At
    <3> QED BY <1>4, <3>1, Completing, SameDatabase DEF OrderedStep, Commit
  <2> QED BY <1>8, <2>1, <2>2 DEF Create
<1>9. ASSUME NEW op \in {"archive", "delete"}, NEW d, Change(op, d), Keeps(db, d, moved, ids)
      PROVE  OrderedStep
  <2>1. CASE At(op, 1)
    <3>1. db' = d /\ UNCHANGED durable /\ Continue(Next1(j))
      BY <1>9, <2>1 DEF Change, At
    <3>2. Turned(jobs, jobs', db', moved)
      BY <1>1, <1>5, <3>1, Turning
    <3> QED BY <1>4, <1>9, <3>1, <3>2 DEF OrderedStep
  <2>2. CASE At(op, 2)
    <3>1. Commit /\ UNCHANGED db /\ \E s : Complete(s)
      BY <1>9, <2>2 DEF Change, At
    <3> QED BY <1>4, <3>1, Completing, SameDatabase DEF OrderedStep, Commit
  <2> QED BY <1>9, <2>1, <2>2 DEF Change
<1>10. CASE Change("archive", Archive(db, j.conv))
  BY <1>2, <1>9, <1>10, QuietStatements
<1>11. CASE Change("delete", DeleteConversation(db, j.conv))
  <2>1. j.conv \in Convs
    BY <1>1, <1>11 DEF Change, At, GoodJob
  <2> QED BY <1>2, <1>9, <1>11, <2>1, Deletion
<1> QED BY <1>7, <1>8, <1>10, <1>11

LEMMA AddOrdered ==
  ASSUME Types, Ordered, jobs # <<>>, Add
  PROVE  OrderedStep
<1> DEFINE j == Head(jobs)
<1>1. j \in GoodJob /\ j \in Job /\ j.op = "add" /\ j.rows # <<>>
  BY HeadJob DEF Types, GoodJob, Add, At
<1>2. Next1(j).op = "add" /\ Next1(j).step = j.step + 1
  BY <1>1, NextFields
<1>3. db \in Database /\ ids \in Nat
  BY TypesSplit, Constants DEF DbTypeOK
<1>4. 1 \in DOMAIN jobs /\ jobs[1] = j
  <2>1. jobs \in Seq(GoodJob)
    BY DEF Types, Queues
  <2> QED BY <2>1
<1>5. j.conv \in 0 .. MaxConvs /\ Head(j.rows) \in Message
  <2>1. j.rows \in Seq(Message) /\ j.conv \in 0 .. MaxConvs
    BY <1>1 DEF Job
  <2> QED BY <1>1, <2>1
<1>6. ~Copies(j) /\ ~Copies(Next1(j))
  BY <1>1, <1>2 DEF Copies
<1> HIDE DEF j
<1>7. CASE At("add", 1)
  <2>1. j.step = 1
    BY <1>7 DEF At, j
  <2>2. CASE ~MayInsertMessage(db, j.conv)
    <3>1. CompleteQuietly /\ UNCHANGED dbVars
      BY <1>7, <2>2 DEF Add, At, j
    <3>2. \A c, g : Asks(j, c, g) => Settled(db', c, g)
      BY <2>2, <3>1 DEF Asks, Settled, MayInsertMessage, dbVars
    <3> QED BY <3>1, <3>2, Completing, SameDatabase DEF OrderedStep, dbVars, j
  <2>3. CASE MayInsertMessage(db, j.conv)
    <3> DEFINE m == Head(j.rows)
    <3>1. db' = InsertMessage(db, j.conv, m) /\ Continue(Next1(j)) /\ UNCHANGED durable
      BY <1>7, <2>3 DEF Add, At, j
    <3>2. Turned(jobs, jobs', db', moved)
      <4>1. ~Inserts(Next1(j))
        BY <1>2, <2>1 DEF Inserts
      <4> QED BY <1>6, <3>1, <4>1, Turning
    <3>3. m.role = "assistant" /\ m.gen \notin moved => Settled(db, j.conv, m.gen)
      <4>1. m.gen \in Gens
        BY <1>5 DEF Message
      <4>2. m.role = "assistant" => Tells(jobs[1], j.conv, m.gen)
        BY <1>1, <1>4, <2>1 DEF Tells, Inserts
      <4>3. \A c, g : Coming(db, jobs, c, g, 1 - 1) => Settled(db, c, g)
        BY DEF Coming
      <4> QED BY <1>4, <1>5, <4>1, <4>2, <4>3 DEF Ordered, Replies
    <3>4. /\ Keeps(db, db', moved, ids)
          /\ \A g \in Gens : m = Question(g) => Settled(db', j.conv, g)
      BY <1>3, <1>5, <2>3, <3>1, <3>3, MessageInserted DEF MayInsertMessage
    <3> HIDE DEF m
    <3>5. \A c \in 0 .. MaxConvs, g \in Gens : Asks(j, c, g) => Settled(db', c, g)
      BY <3>4 DEF Asks, m
    <3> QED BY <3>1, <3>2, <3>4, <3>5 DEF OrderedStep, j
  <2> QED BY <2>2, <2>3
<1>8. CASE At("add", 2)
  <2>1. j.step = 2 /\ db' = CountMessage(db, j.conv) /\ Continue(Next1(j)) /\ UNCHANGED durable
    BY <1>8 DEF Add, At, j
  <2>2. ~Inserts(j) /\ ~Inserts(Next1(j))
    BY <1>2, <2>1 DEF Inserts
  <2>3. Turned(jobs, jobs', db', moved) /\ Keeps(db, db', moved, ids)
    BY <1>3, <1>6, <2>1, <2>2, Turning, QuietStatements
  <2> QED BY <2>1, <2>2, <2>3 DEF OrderedStep, Asks, j
<1>9. CASE At("add", 3)
  <2>1. j.step = 3 /\ Commit /\ CompleteQuietly /\ UNCHANGED db
    BY <1>9 DEF Add, At, j
  <2>2. ~Inserts(j)
    BY <2>1 DEF Inserts
  <2> QED BY <2>1, <2>2, Completing, SameDatabase DEF OrderedStep, Asks, Commit, j
<1> QED BY <1>7, <1>8, <1>9 DEF Add

LEMMA CopyOrdered ==
  ASSUME Types, Drawn, Ordered, jobs # <<>>, DuplicateBegins \/ DuplicateRow \/ DuplicateEnds
  PROVE  OrderedStep
<1> DEFINE j == Head(jobs)
<1>1. j \in GoodJob /\ j \in Job /\ j.op = "duplicate" /\ j.conv \in Convs
  BY HeadJob DEF Types, GoodJob, DuplicateBegins, DuplicateRow, DuplicateEnds, At
<1>2. /\ j.step \in Nat /\ j.rows \in Seq(Message) /\ j.copy \in 0 .. ids
      /\ (j.step > 3 => j.copy \in Convs)
  <2>1. j \in DrawnJob(ids)
    BY DrawnHeads DEF Drawn
  <2>2. j.copy \in Nat /\ j.copy <= ids
    BY <1>1, <2>1 DEF DrawnJob, Job
  <2> QED BY <1>1, <2>2, DrawnHeads DEF GoodJob, Job, Drawn
<1>3. Next1(j) = [op |-> j.op, conv |-> j.conv, copy |-> j.copy,
                  step |-> j.step + 1, rows |-> j.rows, count |-> j.count,
                  shown |-> j.shown]
  BY <1>1, NextFields
<1>4. db \in Database /\ ids \in Nat
  BY TypesSplit, Constants DEF DbTypeOK
<1>5. j.step > 5 => RowsFollow(db, moved, j.rows, j.copy)
  <2>1. jobs \in Seq(GoodJob)
    BY DEF Types, Queues
  <2>2. 1 \in DOMAIN jobs /\ jobs[1] = j
    BY <2>1
  <2> QED BY <1>1, <2>2 DEF Ordered, CopiesFollow, Copies
<1>6. \A c, g : ~Asks(j, c, g)
  BY <1>1 DEF Asks, Inserts
<1>7. \A k : k.op = "duplicate" => ~Inserts(k)
  BY DEF Inserts
<1> HIDE DEF j
<1>8. CASE \/ At("duplicate", 1) \/ At("duplicate", 2) \/ At("duplicate", 4)
  <2>1. /\ j.step \in {1, 2, 4} /\ UNCHANGED db /\ durable' \in {durable, db}
        /\ \/ Continue(Next1(j)) \/ \E s : Complete(s)
           \/ \E n : Continue([Next1(j) EXCEPT !.count = n])
    <3>1. DuplicateBegins
      BY <1>8 DEF DuplicateRow, DuplicateEnds, At
    <3>2. CASE At("duplicate", 1)
      <4>1. j.step = 1 /\ UNCHANGED dbVars
        BY <3>1, <3>2 DEF DuplicateBegins, At, j
      <4> DEFINE n == IF j.conv \in db.convs THEN 1 ELSE 0
      <4>2. Continue([Next1(j) EXCEPT !.count = n])
        BY <3>1, <3>2 DEF DuplicateBegins, At, j
      <4> QED BY <4>1, <4>2 DEF dbVars
    <3>3. CASE At("duplicate", 2)
      BY <3>1, <3>3 DEF DuplicateBegins, At, dbVars, j
    <3>4. CASE At("duplicate", 4)
      BY <3>1, <3>4 DEF DuplicateBegins, At, Commit, j
    <3> QED BY <1>8, <3>2, <3>3, <3>4
  <2>2. ~Copies(Next1(j)) /\ ~Inserts(Next1(j))
    BY <1>1, <1>3, <1>7, <2>1 DEF Copies
  <2>3. \A n : /\ ~Copies([Next1(j) EXCEPT !.count = n])
               /\ ~Inserts([Next1(j) EXCEPT !.count = n])
    BY <1>3, <2>2 DEF Copies, Inserts
  <2>4. Turned(jobs, jobs', db', moved)
    BY <2>1, <2>2, <2>3, Turning, Completing
  <2> QED BY <1>6, <2>1, <2>4, SameDatabase DEF OrderedStep, j
<1>9. CASE At("duplicate", 3)
  <2>1. /\ j.step = 3 /\ db' = InsertConversation(db, ids + 1) /\ UNCHANGED durable
        /\ Continue([Next1(j) EXCEPT !.copy = ids + 1])
    <3>1. DuplicateBegins
      BY <1>9 DEF DuplicateRow, DuplicateEnds, At
    <3> QED BY <1>9, <3>1 DEF DuplicateBegins, At, j
  <2> DEFINE k == [Next1(j) EXCEPT !.copy = ids + 1]
  <2>2. k.op = "duplicate" /\ k.step = 4
    BY <1>1, <1>3, <2>1
  <2> HIDE DEF k
  <2>3. ~Copies(k) /\ ~Inserts(k)
    BY <1>7, <2>2 DEF Copies
  <2>4. Turned(jobs, jobs', db', moved)
    BY <2>1, <2>3, Turning DEF k
  <2> QED BY <1>4, <1>6, <2>1, <2>4, QuietStatements DEF OrderedStep, j
<1>10. CASE At("duplicate", 5) \/ At("duplicate", 6)
  <2> DEFINE rows == IF j.step = 5 THEN First(db.msgs[j.conv])
                     ELSE Fetched(j.rows, db.msgs[j.conv])
             k == [Next1(j) EXCEPT !.rows = rows]
  <2>1. Continue(k) /\ UNCHANGED <<db, durable>> /\ j.step \in {5, 6}
    <3>1. DuplicateBegins
      BY <1>10 DEF DuplicateRow, DuplicateEnds, At
    <3>2. CASE At("duplicate", 5)
      BY <3>1, <3>2 DEF DuplicateBegins, At, dbVars, j
    <3>3. CASE At("duplicate", 6)
      BY <3>1, <3>3 DEF DuplicateBegins, At, dbVars, j
    <3> QED BY <1>10, <3>2, <3>3
  <2>2. k.op = "duplicate" /\ k.rows = rows /\ k.copy = j.copy
    BY <1>1, <1>3
  <2>3. RowsFollow(db', moved, rows, j.copy)
    <3>1. Orderly(db, moved)
      BY FirstIsOrderly DEF Ordered
    <3>2. CASE j.step = 5
      BY <1>1, <1>4, <2>1, <3>1, <3>2, FollowsRead
    <3>3. CASE j.step = 6
      <4>1. RowsFollow(db, moved, j.rows, j.copy)
        BY <1>5, <3>3
      <4> QED BY <1>1, <1>4, <2>1, <3>1, <3>3, <4>1, FollowsRead
    <3> QED BY <2>1, <3>2, <3>3
  <2> HIDE DEF k, rows
  <2>4. Turned(jobs, jobs', db', moved)
    BY <1>7, <2>1, <2>2, <2>3, Turning
  <2> QED BY <1>6, <2>1, <2>4, SameDatabase DEF OrderedStep, j
<1>11. CASE DuplicateRow
  <2> DEFINE m == Head(j.rows)
  <2> DEFINE k == [j EXCEPT !.rows = Tail(j.rows)]
  <2>1. j.rows # <<>> /\ j.step = 7 /\ UNCHANGED durable
    BY <1>11 DEF DuplicateRow, At, j
  <2>2. CASE ~MayInsertMessage(db, j.copy)
    BY <1>6, <1>11, <2>1, <2>2, Completing, SameDatabase DEF DuplicateRow, OrderedStep, j
  <2>3. CASE MayInsertMessage(db, j.copy)
    <3>1. db' = InsertMessage(db, j.copy, m) /\ Continue(k)
      BY <1>11, <2>3 DEF DuplicateRow, j
    <3>2. m \in Message /\ m = j.rows[1] /\ 1 \in DOMAIN j.rows
      BY <1>2, <2>1
    <3>3. k.op = "duplicate" /\ k.rows = Tail(j.rows) /\ k.copy = j.copy
      BY <1>1 DEF Job
    <3> HIDE DEF m, k
    <3>4. m.role = "assistant" /\ m.gen \notin moved => Settled(db, j.copy, m.gen)
      <4>1. RowsFollow(db, moved, j.rows, j.copy)
        BY <1>5, <2>1
      <4>2. 1 .. 1 - 1 = {}
        OBVIOUS
      <4> QED BY <3>2, <4>1, <4>2 DEF RowsFollow
    <3>5. /\ Keeps(db, db', moved, ids)
          /\ \A g \in Gens : m = Question(g) => Settled(db', j.copy, g)
      BY <1>4, <2>3, <3>1, <3>2, <3>4, MessageInserted DEF MayInsertMessage
    <3>6. RowsFollow(db', moved, Tail(j.rows), j.copy)
      BY <1>2, <1>5, <2>1, <3>5, FollowsRest DEF Keeps, m
    <3>7. Turned(jobs, jobs', db', moved)
      BY <1>7, <3>1, <3>3, <3>6, Turning
    <3> QED BY <1>6, <2>1, <3>5, <3>7 DEF OrderedStep, j
  <2> QED BY <2>2, <2>3
<1>12. CASE DuplicateEnds /\ At("duplicate", 7)
  <2> DEFINE k == [Next1(j) EXCEPT !.count = Len(db.msgs[j.copy])]
  <2>1. Continue(k) /\ UNCHANGED <<db, durable>> /\ j.step = 7
    BY <1>12 DEF DuplicateEnds, At, dbVars, j
  <2>2. k.op = "duplicate" /\ k.rows = j.rows /\ k.copy = j.copy
    BY <1>1, <1>3
  <2> HIDE DEF k
  <2>3. Turned(jobs, jobs', db', moved)
    BY <1>5, <1>7, <2>1, <2>2, Turning
  <2> QED BY <1>6, <2>1, <2>3, SameDatabase DEF OrderedStep, j
<1>13. CASE At("duplicate", 9)
  <2>1. /\ db' = SetTotal(db, j.copy, j.count) /\ Continue(Next1(j))
        /\ UNCHANGED durable /\ j.step = 9
    BY <1>13 DEF DuplicateBegins, DuplicateRow, DuplicateEnds, At, j
  <2>2. Keeps(db, db', moved, ids)
    BY <1>4, <2>1, QuietStatements
  <2>3. RowsFollow(db', moved, j.rows, j.copy)
    BY <1>2, <1>5, <2>1, <2>2, FollowsKept DEF Keeps
  <2>4. Turned(jobs, jobs', db', moved)
    BY <1>1, <1>3, <1>7, <2>1, <2>3, Turning
  <2> QED BY <1>6, <2>1, <2>2, <2>4 DEF OrderedStep, j
<1>14. CASE \/ At("duplicate", 8) \/ At("duplicate", 10)
            \/ At("duplicate", 11) \/ At("duplicate", 12)
  <2>1. /\ UNCHANGED db /\ durable' \in {durable, db} /\ j.step > 5
        /\ Continue(Next1(j)) \/ \E s : Complete(s)
    BY <1>14 DEF DuplicateBegins, DuplicateRow, DuplicateEnds, At, Commit, dbVars, j
  <2>2. Turned(jobs, jobs', db', moved)
    BY <1>1, <1>3, <1>5, <1>7, <2>1, Turning, Completing
  <2> QED BY <1>6, <2>1, <2>2, SameDatabase DEF OrderedStep, j
<1> QED BY <1>8, <1>9, <1>10, <1>11, <1>12, <1>13, <1>14 DEF DuplicateBegins, DuplicateEnds

LEMMA JobOrdered ==
  ASSUME Types, Drawn, Ordered, JobStep
  PROVE  OrderedStep
<1>1. jobs # <<>>
  BY DEF JobStep, Create, Add, Load, List, Change, DuplicateBegins, DuplicateRow, DuplicateEnds, At
<1> QED BY <1>1, OthersOrdered, AddOrdered, CopyOrdered DEF JobStep

LEMMA FirstIsOrderlyNext ==
  QuestionFirst' <=> Orderly(db', moved') /\ Orderly(durable', moved')
BY DEF QuestionFirst, Orderly, AskedIn, Asked

LEMMA OrderedBackground ==
  ASSUME Types, Drawn, Ordered, Background
  PROVE  Ordered'
<1>1. UNCHANGED <<token, home, moved>>
  BY DEF Background, uiVars, ghostVars
<1>2. CASE JobStep
  <2>1. OrderedStep
    BY <1>2, JobOrdered
  <2>2. /\ jobs \in Seq(GoodJob) /\ jobs \in Seq(DrawnJob(ids)) /\ jobs # <<>> /\ ids \in 0 .. MaxConvs
    BY <1>2, TypesSplit DEF Types, Queues, Drawn, DrawnQueues, DbTypeOK, JobStep, Create, Add, Load,
             List, Change, DuplicateBegins, DuplicateRow, DuplicateEnds, At
  <2>3. /\ \A c \in 0 .. ids, g \in Gens :
               Coming(db, jobs, c, g, Len(jobs)) => Coming(db', jobs', c, g, Len(jobs'))
        /\ Replies(db', jobs', moved) /\ CopiesFollow(db', jobs', moved)
    BY <2>1, <2>2, Rotation DEF OrderedStep, Keeps, Ordered
  <2>4. QuestionFirst'
    BY <1>1, <2>1, FirstIsOrderly, FirstIsOrderlyNext DEF OrderedStep, Keeps, Ordered
  <2>5. token # 0 => token \in Gens /\ home[token] \in 0 .. ids
    BY <2>2, TypesSplit DEF UiTypes, GhostTypes, Gens, Drawn, DrawnUi
  <2>6. TokenAsked'
    BY <1>1, <2>3, <2>5 DEF TokenAsked, Ordered
  <2> QED BY <1>1, <2>3, <2>4, <2>6 DEF Ordered
<1>3. CASE StreamStep
  <2>1. UNCHANGED <<db, durable, jobs>>
    BY <1>3 DEF StreamStep, dbVars
  <2> QED BY <1>1, <2>1 DEF Ordered, QuestionFirst, Asked, TokenAsked
<1> QED BY <1>2, <1>3 DEF Background

-----------------------------------------------------------------------------
(* The main thread adds operations at the end of the queue.                 *)
LEMMA Behind ==
  ASSUME NEW js \in Seq(GoodJob), NEW new \in Seq(GoodJob), NEW d, NEW mv, NEW mv2, mv \subseteq mv2
  PROVE  /\ \A c, g : Coming(d, js, c, g, Len(js)) => Coming(d, js \o new, c, g, Len(js \o new))
         /\ \A c, g : \A i \in DOMAIN new : Asks(new[i], c, g) => Coming(d, js \o new, c, g, Len(js \o new))
         /\ /\ Replies(d, js, mv)
            /\ \A i \in DOMAIN new, c \in 0 .. MaxConvs, g \in Gens :
                  Tells(new[i], c, g) /\ g \notin mv2 => Coming(d, js, c, g, Len(js))
            => Replies(d, js \o new, mv2)
         /\ CopiesFollow(d, js, mv) /\ (\A i \in DOMAIN new : ~Copies(new[i]))
            => CopiesFollow(d, js \o new, mv2)
<1> DEFINE all == js \o new
<1> DEFINE n == Len(js)
<1> DEFINE m == Len(new)
<1>1. /\ n \in Nat /\ m \in Nat /\ DOMAIN js = 1 .. n /\ DOMAIN new = 1 .. m
      /\ Len(all) = n + m /\ DOMAIN all = 1 .. n + m
      /\ \A i \in 1 .. n : all[i] = js[i]
      /\ \A i \in 1 .. n + m : i > n => all[i] = new[i - n]
  OBVIOUS
<1>2. Len(js) = n
  OBVIOUS
<1> HIDE DEF all, n, m
<1>3. n \in Nat /\ m \in Nat
  BY <1>1
<1>4. ASSUME NEW k \in 0 .. n, NEW l \in 0 .. n + m, k <= l, NEW c, NEW g, Coming(d, js, c, g, k)
      PROVE  Coming(d, all, c, g, l)
  <2>1. \A i \in 1 .. k : i \in 1 .. n /\ i \in 1 .. l
    BY <1>3, <1>4
  <2>2. \A i \in 1 .. k : all[i] = js[i]
    BY <1>1, <2>1
  <2> QED BY <1>4, <2>1, <2>2 DEF Coming
<1>5. ASSUME NEW c, NEW g, Coming(d, js, c, g, n)
      PROVE  Coming(d, all, c, g, Len(all))
  <2>1. n \in 0 .. n /\ n + m \in 0 .. n + m /\ n <= n + m
    BY <1>3
  <2>2. Coming(d, all, c, g, n + m)
    BY <1>4, <1>5, <2>1
  <2> QED BY <1>1, <2>2
<1>6. ASSUME NEW c, NEW g, NEW i \in DOMAIN new, Asks(new[i], c, g)
      PROVE  Coming(d, all, c, g, Len(all))
  <2>0. i \in 1 .. m
    BY <1>1
  <2>1. n + i \in 1 .. n + m /\ n + i > n /\ (n + i) - n = i
    BY <1>3, <2>0
  <2>2. all[n + i] = new[i]
    BY <1>1, <2>1
  <2>3. \E k \in 1 .. n + m : Asks(all[k], c, g)
    BY <1>6, <2>1, <2>2
  <2> QED BY <1>1, <2>3 DEF Coming
<1>7. ASSUME Replies(d, js, mv),
             \A i \in DOMAIN new, c \in 0 .. MaxConvs, g \in Gens :
                  Tells(new[i], c, g) /\ g \notin mv2 => Coming(d, js, c, g, n),
             NEW i \in DOMAIN all, NEW c \in 0 .. MaxConvs, NEW g \in Gens,
             Tells(all[i], c, g), g \notin mv2
      PROVE  Coming(d, all, c, g, i - 1)
  <2>0. i \in 1 .. n + m
    BY <1>1
  <2>1. CASE i <= n
    <3>1. i \in 1 .. n /\ i - 1 \in 0 .. n /\ i - 1 \in 0 .. n + m /\ i - 1 <= i - 1
      BY <1>3, <2>0, <2>1
    <3>2. all[i] = js[i] /\ i \in DOMAIN js
      BY <1>1, <3>1
    <3>3. Coming(d, js, c, g, i - 1)
      BY <1>7, <3>2 DEF Replies
    <3> QED BY <1>4, <3>1, <3>3
  <2>2. CASE i > n
    <3>1. i - n \in 1 .. m /\ n \in 0 .. n /\ i - 1 \in 0 .. n + m /\ n <= i - 1
      BY <1>3, <2>0, <2>2
    <3>2. all[i] = new[i - n] /\ i - n \in DOMAIN new
      BY <1>1, <2>0, <2>2, <3>1
    <3>3. Coming(d, js, c, g, n)
      BY <1>7, <3>2
    <3> QED BY <1>4, <3>1, <3>3
  <2> QED BY <1>3, <2>0, <2>1, <2>2
<1>8. ASSUME CopiesFollow(d, js, mv), \A i \in DOMAIN new : ~Copies(new[i]),
             NEW i \in DOMAIN all, Copies(all[i])
      PROVE  RowsFollow(d, mv2, all[i].rows, all[i].copy)
  <2>0. i \in 1 .. n + m
    BY <1>1
  <2>1. CASE i <= n
    <3>1. i \in DOMAIN js /\ all[i] = js[i]
      BY <1>1, <2>0, <2>1
    <3>2. RowsFollow(d, mv, all[i].rows, all[i].copy)
      BY <1>8, <3>1 DEF CopiesFollow
    <3> QED BY <3>2 DEF RowsFollow
  <2>2. CASE i > n
    <3>1. i - n \in 1 .. m
      BY <1>3, <2>0, <2>2
    <3> QED BY <1>1, <1>8, <2>0, <2>2, <3>1
  <2> QED BY <1>3, <2>0, <2>1, <2>2
<1>9. Replies(d, js, mv)
      /\ (\A i \in DOMAIN new, c \in 0 .. MaxConvs, g \in Gens :
             Tells(new[i], c, g) /\ g \notin mv2 => Coming(d, js, c, g, n))
      => Replies(d, all, mv2)
  BY <1>7 DEF Replies
<1>10. CopiesFollow(d, js, mv) /\ (\A i \in DOMAIN new : ~Copies(new[i]))
       => CopiesFollow(d, all, mv2)
  BY <1>8 DEF CopiesFollow
<1> QED BY <1>2, <1>5, <1>6, <1>9, <1>10 DEF all

LEMMA Submission ==
  ASSUME Types, Ordered, NEW new \in Seq(GoodJob), jobs' = jobs \o new,
         UNCHANGED dbVars, moved \subseteq moved',
         \A i \in DOMAIN new : ~Copies(new[i]),
         \A i \in DOMAIN new, c \in 0 .. MaxConvs, g \in Gens :
            Tells(new[i], c, g) /\ g \notin moved' => Coming(db, jobs, c, g, Len(jobs)),
         \/ token' = 0
         \/ token' = token /\ home'[token] = home[token]
         \/ \E i \in DOMAIN new : Asks(new[i], home'[token'], token')
  PROVE  Ordered'
<1>1. jobs \in Seq(GoodJob) /\ db' = db /\ durable' = durable
  BY DEF Types, Queues, dbVars
<1>2. /\ \A c, g : Coming(db, jobs, c, g, Len(jobs)) => Coming(db, jobs', c, g, Len(jobs'))
      /\ \A c, g : \A i \in DOMAIN new : Asks(new[i], c, g) => Coming(db, jobs', c, g, Len(jobs'))
      /\ Replies(db, jobs', moved') /\ CopiesFollow(db, jobs', moved')
  BY <1>1, Behind DEF Ordered
<1>3. QuestionFirst'
  <2>1. \A ms : AskedIn(moved, ms) => AskedIn(moved', ms)
    BY DEF AskedIn
  <2> QED BY <1>1, <2>1, FirstIsOrderly, FirstIsOrderlyNext DEF Ordered, Orderly
<1>4. TokenAsked'
  BY <1>1, <1>2 DEF TokenAsked, Ordered
<1> QED BY <1>1, <1>2, <1>3, <1>4 DEF Ordered

LEMMA NewJobFields ==
  /\ \A op, c : op # "add" => ~Inserts(NewJob(op, c)) /\ ~Copies(NewJob(op, c))
  /\ \A c, m : /\ Inserts(AddJob(c, m)) /\ AddJob(c, m).conv = c /\ Head(AddJob(c, m).rows) = m
               /\ ~Copies(AddJob(c, m))
<1>1. \A c, m : LET j == AddJob(c, m) IN
                j.op = "add" /\ j.conv = c /\ j.step = 1 /\ j.rows = <<m>>
  BY DEF AddJob, NewJob
<1> QED BY <1>1 DEF NewJob, Inserts, Copies

(* No operation, or one that is neither an insertion nor a copy at work. *)
LEMMA OrderedSubmitted ==
  ASSUME Types, Types', Ordered, UNCHANGED dbVars, moved \subseteq moved',
         UNCHANGED <<token, home>>,
         jobs' = jobs \/ \E op, c : op # "add" /\ Submitted(<<NewJob(op, c)>>)
  PROVE  Ordered'
<1>1. jobs \in Seq(GoodJob) /\ jobs' \in Seq(GoodJob)
  BY DEF Types, Queues
<1>2. CASE jobs' = jobs
  <2> DEFINE none == <<>>
  <2>1. none \in Seq(GoodJob) /\ jobs' = jobs \o none /\ DOMAIN none = {}
    BY <1>1, <1>2
  <2> HIDE DEF none
  <2> QED BY <2>1, Submission
<1>3. ASSUME NEW op, NEW c, op # "add", Submitted(<<NewJob(op, c)>>) PROVE Ordered'
  <2> DEFINE j == NewJob(op, c)
  <2>1. ~Inserts(j) /\ ~Copies(j) /\ jobs' = jobs \o <<j>>
    BY <1>3, NewJobFields DEF Submitted
  <2> HIDE DEF j
  <2>2. <<j>> \in Seq(GoodJob)
    <3>1. jobs'[Len(jobs) + 1] = j /\ Len(jobs) + 1 \in DOMAIN jobs'
      BY <1>1, <2>1
    <3> QED BY <1>1, <3>1
  <2>3. \A i \in DOMAIN <<j>> : <<j>>[i] = j
    OBVIOUS
  <2> QED BY <2>1, <2>2, <2>3, Submission DEF Tells
<1> QED BY <1>2, <1>3

LEMMA OrderedSend ==
  ASSUME Types, Ordered, NEW c \in 0 .. MaxConvs, NEW g \in Gens, NEW now,
         NEW after, after = <<>> \/ after = <<NewJob("list", 0)>>,
         DoSend(c, g, jobs, now, after), UNCHANGED dbVars, moved \subseteq moved'
  PROVE  Ordered'
<1> DEFINE ask == AddJob(c, Question(g))
<1> DEFINE list == NewJob("list", 0)
<1>1. ask \in GoodJob /\ list \in GoodJob
  <2>1. Question(g) \in Message
    BY Messages, <<>> \in Seq(Chunk)
  <2> QED BY <2>1, AddJobGood, NewJobGood, Constants DEF Ops
<1>2. /\ ~Copies(ask) /\ ~Copies(list) /\ ~Inserts(list) /\ Asks(ask, c, g)
      /\ \A k, h : ~Tells(ask, k, h)
  <2>1. Question(g).role = "user"
    BY DEF Question
  <2> QED BY <2>1, NewJobFields DEF Asks, Tells
<1>3. /\ jobs' = (jobs \o <<ask>>) \o after /\ jobs \in Seq(GoodJob)
      /\ home' = [home EXCEPT ![g] = c] /\ token' \in {g, token} /\ home \in [Gens -> 0 .. MaxConvs]
      /\ token \in 0 .. MaxGens
  BY TypesSplit DEF DoSend, SubmitStreaming, ProviderUnavailable, Types, Queues, GhostTypes, UiTypes
<1>4. \/ token' = 0
      \/ token' = token /\ home'[token] = home[token]
      \/ token' = g /\ home'[g] = c
  BY <1>3, Constants DEF Gens
<1> HIDE DEF ask, list
<1>5. ASSUME NEW new \in Seq(GoodJob), jobs' = jobs \o new, 1 \in DOMAIN new, new[1] = ask,
             \A i \in DOMAIN new : new[i] \in {ask, list}
      PROVE  Ordered'
  <2>1. \A i \in DOMAIN new : ~Copies(new[i]) /\ \A k, h : ~Tells(new[i], k, h)
    BY <1>2, <1>5 DEF Tells
  <2>2. token' = g /\ home'[g] = c => \E i \in DOMAIN new : Asks(new[i], home'[token'], token')
    BY <1>2, <1>5
  <2> QED BY <1>4, <1>5, <2>1, <2>2, Submission
<1>6. CASE after = <<>>
  <2> DEFINE new == <<ask>>
  <2>1. /\ new \in Seq(GoodJob) /\ jobs' = jobs \o new /\ 1 \in DOMAIN new /\ new[1] = ask
        /\ \A i \in DOMAIN new : new[i] \in {ask, list}
    BY <1>1, <1>3, <1>6
  <2> HIDE DEF new
  <2> QED BY <1>5, <2>1
<1>7. CASE after = <<list>>
  <2> DEFINE new == <<ask, list>>
  <2>1. /\ new \in Seq(GoodJob) /\ 1 \in DOMAIN new /\ new[1] = ask
        /\ \A i \in DOMAIN new : new[i] \in {ask, list}
    BY <1>1
  <2>2. jobs' = jobs \o new
    BY <1>1, <1>3, <1>7
  <2> HIDE DEF new
  <2> QED BY <1>5, <2>1, <2>2
<1> QED BY <1>6, <1>7 DEF list

LEMMA OrderedFinish ==
  ASSUME Types, Answering, Ordered, token \in Gens, FinishGeneration(token),
         UNCHANGED <<dbVars, moved>>
  PROVE  Ordered'
<1> DEFINE tell == AddJob(active, Reply(token, genText))
<1> DEFINE list == NewJob("list", 0)
<1>1. tell \in GoodJob /\ list \in GoodJob
  <2>1. Reply(token, genText) \in Message /\ active \in 0 .. MaxConvs
    BY Messages, TypesSplit DEF UiTypes
  <2> QED BY <2>1, AddJobGood, NewJobGood, Constants DEF Ops
<1>2. /\ ~Copies(tell) /\ ~Copies(list) /\ ~Inserts(list)
      /\ \A k, h : Tells(tell, k, h) => k = active /\ h = token
  <2>1. Reply(token, genText).gen = token
    BY DEF Reply
  <2> QED BY <2>1, NewJobFields DEF Tells
<1>3. jobs \in Seq(GoodJob) /\ token' = 0 /\ jobs' \in {jobs, jobs \o <<tell, list>>} /\ token # 0
  BY DEF FinishGeneration, Types, Queues, Gens
<1>4. token \notin moved => Coming(db, jobs, active, token, Len(jobs))
  BY <1>3 DEF Answering, Asked1, Ordered, TokenAsked
<1> HIDE DEF tell, list
<1>5. ASSUME NEW new \in Seq(GoodJob), jobs' = jobs \o new,
             \A i \in DOMAIN new : new[i] \in {tell, list}
      PROVE  Ordered'
  <2>1. \A i \in DOMAIN new : ~Copies(new[i])
    BY <1>2, <1>5
  <2>2. \A i \in DOMAIN new, c \in 0 .. MaxConvs, g \in Gens :
            Tells(new[i], c, g) /\ g \notin moved' => Coming(db, jobs, c, g, Len(jobs))
    BY <1>2, <1>4, <1>5 DEF Tells
  <2> QED BY <1>3, <1>5, <2>1, <2>2, Submission
<1>6. CASE jobs' = jobs
  <2> DEFINE new == <<>>
  <2>1. new \in Seq(GoodJob) /\ jobs' = jobs \o new /\ DOMAIN new = {}
    BY <1>3, <1>6
  <2> HIDE DEF new
  <2> QED BY <1>5, <2>1
<1>7. CASE jobs' = jobs \o <<tell, list>>
  <2> DEFINE new == <<tell, list>>
  <2>1. new \in Seq(GoodJob) /\ \A i \in DOMAIN new : new[i] \in {tell, list}
    BY <1>1
  <2> HIDE DEF new
  <2> QED BY <1>5, <1>7, <2>1 DEF new
<1> QED BY <1>3, <1>6, <1>7

LEMMA OrderedUser ==
  ASSUME Types, Types', Answering, Ordered, User
  PROVE  Ordered'
<1>1. UNCHANGED dbVars /\ moved \subseteq moved'
  BY DEF User, SendMessage, Resend, Stop, NewConversation, Select, Duplicate, Change1, Moves, ghostVars
<1>2. active \in 0 .. MaxConvs /\ (sent < MaxGens => sent + 1 \in Gens)
  BY TypesSplit, Constants DEF UiTypes, CountTypes, Gens
<1>3. CASE SendMessage \/ Resend
  <2>1. CASE active # 0
    <3>1. DoSend(active, sent + 1, jobs, history, <<>>) /\ sent < MaxGens
      BY <1>3, <2>1 DEF SendMessage, Resend
    <3> QED BY <1>1, <1>2, <3>1, OrderedSend
  <2>2. CASE active = 0
    <3>1. Submitted(<<NewJob("createSend", 0)>>) /\ UNCHANGED <<token, home>>
      BY <1>3, <2>2 DEF SendMessage, Resend
    <3> QED BY <1>1, <3>1, OrderedSubmitted
  <2> QED BY <2>1, <2>2
<1>4. CASE Stop
  <2>1. token \in Gens /\ FinishGeneration(token) /\ UNCHANGED moved
    BY <1>4, TypesSplit DEF Stop, UiTypes, Gens
  <2> QED BY <1>1, <2>1, OrderedFinish
<1>5. CASE NewConversation
  <2>1. Submitted(<<NewJob("create", 0)>>) /\ UNCHANGED <<token, home>>
    BY <1>5 DEF NewConversation, uiVars
  <2> QED BY <1>1, <2>1, OrderedSubmitted
<1>6. ASSUME NEW c \in Convs, \/ Select(c) \/ Duplicate(c)
                              \/ \E op \in {"archive", "delete"} : Change1(op, c)
      PROVE  Ordered'
  <2>1. /\ \E op \in {"load", "duplicate", "archive", "delete"} : Submitted(<<NewJob(op, c)>>)
        /\ UNCHANGED <<token, home>>
    BY <1>6 DEF Select, Duplicate, Change1, uiVars, ghostVars
  <2>2. \E op : op # "add" /\ Submitted(<<NewJob(op, c)>>)
    BY <2>1
  <2> QED BY <1>1, <2>1, <2>2, OrderedSubmitted
<1> QED BY <1>3, <1>4, <1>5, <1>6 DEF User

LEMMA OrderedSignal ==
  ASSUME Types, Types', Answering, Ordered, OnSignal
  PROVE  Ordered'
<1>1. UNCHANGED dbVars /\ moved \subseteq moved'
  BY DEF OnSignal, OnText, OnStreamDone, OnCreated, OnCreatedToSend, OnLoaded, OnRefresh, OnListed,
         Moves, ghostVars
<1>2. CASE OnText \/ OnLoaded \/ OnListed
  BY <1>1, <1>2, OrderedSubmitted DEF OnText, OnLoaded, OnListed, ghostVars
<1>3. CASE OnCreated \/ OnRefresh
  <2>1. Submitted(<<NewJob("list", 0)>>) /\ UNCHANGED <<token, home>>
    BY <1>3 DEF OnCreated, OnRefresh, uiVars, ghostVars
  <2> QED BY <1>1, <2>1, OrderedSubmitted
<1>4. CASE OnStreamDone
  <2>1. CASE Head(signals).gen = token
    <3>1. token \in Gens
      BY <1>4, <2>1, ConsumedTypes DEF OnStreamDone, GoodSignal, Types, Received
    <3> QED BY <1>1, <1>4, <2>1, <3>1, OrderedFinish DEF OnStreamDone
  <2>2. CASE Head(signals).gen # token
    BY <1>1, <1>4, <2>2, OrderedSubmitted DEF OnStreamDone
  <2> QED BY <2>1, <2>2
<1>5. CASE OnCreatedToSend
  <2>1. CASE pendingText # 0
    <3>1. pendingText \in Gens /\ Head(signals).conv \in 0 .. MaxConvs
      BY <1>5, <2>1, ConsumedTypes, TypesSplit DEF OnCreatedToSend, Types, UiTypes, Gens
    <3>2. DoSend(Head(signals).conv, pendingText, jobs, <<>>, <<NewJob("list", 0)>>)
      BY <1>5, <2>1 DEF OnCreatedToSend
    <3> QED BY <1>1, <3>1, <3>2, OrderedSend
  <2>2. CASE pendingText = 0
    <3>1. Submitted(<<NewJob("list", 0)>>) /\ UNCHANGED <<token, home>>
      BY <1>5, <2>2 DEF OnCreatedToSend
    <3> QED BY <1>1, <3>1, OrderedSubmitted
  <2> QED BY <2>1, <2>2
<1> QED BY <1>2, <1>3, <1>4, <1>5 DEF OnSignal

LEMMA OrderedRestart ==
  ASSUME Types, Ordered, Restart
  PROVE  Ordered'
<1>1. db' = durable /\ durable' = durable /\ token' = 0 /\ jobs' = <<NewJob("list", 0)>> /\ moved' = moved
  BY DEF Restart, DbRestart, RunnerRestart
<1>2. QuestionFirst'
  BY <1>1, FirstIsOrderly, FirstIsOrderlyNext DEF Ordered
<1> DEFINE j == NewJob("list", 0)
<1>3. ~Inserts(j) /\ ~Copies(j)
  BY NewJobFields
<1> HIDE DEF j
<1>4. \A i \in DOMAIN <<j>> : <<j>>[i] = j
  OBVIOUS
<1>5. Replies(db', jobs', moved') /\ CopiesFollow(db', jobs', moved')
  BY <1>1, <1>3, <1>4 DEF Replies, CopiesFollow, Tells, j
<1> QED BY <1>1, <1>2, <1>5 DEF Ordered, TokenAsked

LEMMA OrderedInvariant == Spec => []Ordered
<1>1. Init => Ordered
  BY DEF Init, DbInit, EmptyDatabase, RunnerInit, UiInit, Ordered, QuestionFirst, Asked, TokenAsked,
         Replies, CopiesFollow
<1>2. Types /\ Types' /\ Drawn /\ Answering /\ Ordered /\ [Next]_vars => Ordered'
  <2>1. ASSUME UNCHANGED vars, Ordered PROVE Ordered'
    BY <2>1 DEF vars, dbVars, runnerVars, uiVars, ghostVars, Ordered, QuestionFirst, Asked, TokenAsked
  <2> QED BY <2>1, OrderedUser, OrderedSignal, OrderedBackground, OrderedRestart DEF Next
<1> QED BY <1>1, <1>2, TypesInvariant, DrawnInvariant, AnsweringInvariant, PTL DEF Spec

(* In every conversation, stored or about to be stored, an answer comes      *)
(* behind its question: also in copies made while messages are inserted, and*)
(* in what a shutdown or a crash leaves, for any number of conversations,   *)
(* messages and operations in progress.                                     *)
THEOREM QuestionsFirst == Spec => []QuestionFirst
<1>1. Ordered => QuestionFirst
  BY DEF Ordered
<1> QED BY <1>1, OrderedInvariant, PTL

-----------------------------------------------------------------------------
(* The sidebar.  An operation that has changed the list, or whose signal has  *)
(* not been handled, will have it loaded again; otherwise the newest list on *)
(* its way to the main thread, read but not yet fetched or in the event     *)
(* queue, or the sidebar, is that of the database.  d is a database, js a   *)
(* queue of operations, q a queue of signals and v a list.                  *)
Reads(j) == j.op = "list" /\ j.step # 1
Awaits(d, j) ==
    \/ j.op = "list" /\ j.step = 1
    \/ j.op \in {"create", "createSend", "archive", "delete"} /\ j.step > 1
    \/ j.op = "duplicate" /\ j.step > 3 /\ j.copy \in d.convs
Announces(s) == s.kind \in {"create", "createSend", "refresh"}

Awaited(d, js, q) ==
    \/ \E i \in DOMAIN js : Awaits(d, js[i])
    \/ \E i \in DOMAIN q : Announces(q[i])
Unlisted(q) == \A i \in DOMAIN q : q[i].kind # "list"
Newest(q, shown, v) ==
    \/ shown = v /\ Unlisted(q)
    \/ \E i \in DOMAIN q : /\ q[i].kind = "list" /\ q[i].shown = v
                           /\ \A k \in DOMAIN q : k > i => q[k].kind # "list"

Unread(js) == \A i \in DOMAIN js : ~Reads(js[i])
Latest(js, q, shown, v) ==
    \/ Unread(js) /\ Newest(q, shown, v)
    \/ \E i \in DOMAIN js : /\ Reads(js[i]) /\ js[i].shown = v
                            /\ \A k \in DOMAIN js : k > i => ~Reads(js[k])

Shows(d, js, q, shown) == Awaited(d, js, q) \/ Latest(js, q, shown, Listed(d))
Listing == Shows(db, jobs, signals, sidebar)

(* js2 is js after a statement of its first operation, which read no list. *)
Rotated(js, js2) == js2 = Tail(js) \/ \E k : js2 = Append(Tail(js), k) /\ ~Reads(k)

LEMMA StillWaiting ==
  ASSUME NEW js \in Seq(GoodJob), js # <<>>, NEW js2, Rotated(js, js2)
  PROVE  /\ Head(js) = js[1] /\ DOMAIN js \subseteq Nat
         /\ \A i \in DOMAIN js : i # 1 => i > 1 /\ i - 1 \in DOMAIN js2 /\ js2[i - 1] = js[i]
         /\ \A i \in DOMAIN js2 : i \in Nat /\ (~Reads(js2[i]) \/ (i + 1 \in DOMAIN js /\ js2[i] = js[i + 1]))
<1>1. /\ Len(js) \in Nat \ {0} /\ DOMAIN js = 1 .. Len(js) /\ Head(js) = js[1]
  BY TailOf
<1>2. /\ \A i \in 1 .. Len(js) - 1 : i \in DOMAIN js2 /\ js2[i] = js[i + 1]
      /\ \A i \in DOMAIN js2 : i \in 1 .. Len(js) - 1 \/ (i = Len(js) /\ ~Reads(js2[i]))
  <2>1. CASE js2 = Tail(js)
    <3>1. DOMAIN js2 = 1 .. Len(js) - 1 /\ \A i \in 1 .. Len(js) - 1 : js2[i] = js[i + 1]
      BY <2>1, TailOf
    <3> QED BY <3>1
  <2>2. ASSUME NEW k, js2 = Append(Tail(js), k), ~Reads(k)
        PROVE  /\ \A i \in 1 .. Len(js) - 1 : i \in DOMAIN js2 /\ js2[i] = js[i + 1]
               /\ \A i \in DOMAIN js2 : i \in 1 .. Len(js) - 1 \/ (i = Len(js) /\ ~Reads(js2[i]))
    <3>1. /\ DOMAIN js2 = 1 .. Len(js) /\ \A i \in 1 .. Len(js) - 1 : js2[i] = js[i + 1]
          /\ js2[Len(js)] = k
      BY <2>2, TurnOf
    <3> DEFINE n == Len(js)
    <3>2. n \in Nat \ {0}
      BY <1>1
    <3> HIDE DEF n
    <3>3. \A i \in 1 .. n : i \in 1 .. n - 1 \/ i = n
      BY <3>2
    <3>4. \A i \in 1 .. n - 1 : i \in 1 .. n
      BY <3>2
    <3> QED BY <2>2, <3>1, <3>3, <3>4 DEF n
  <2> QED BY <2>1, <2>2 DEF Rotated
<1>3. \A i \in 1 .. Len(js) : i # 1 => i > 1 /\ i - 1 \in 1 .. Len(js) - 1 /\ (i - 1) + 1 = i
  BY <1>1
<1>4. \A i \in 1 .. Len(js) - 1 : i \in Nat /\ i + 1 \in 1 .. Len(js)
  BY <1>1
<1>5. \A i \in DOMAIN js2 : i \in Nat /\ (~Reads(js2[i]) \/ (i + 1 \in DOMAIN js /\ js2[i] = js[i + 1]))
  BY <1>1, <1>2, <1>4
<1> QED BY <1>1, <1>2, <1>3, <1>5

(* What has been read stays so while other operations go on. *)
LEMMA LatestTurned ==
  ASSUME NEW js \in Seq(GoodJob), js # <<>>, NEW js2, Rotated(js, js2), ~Reads(Head(js)),
         NEW q, NEW q2, NEW shown, NEW v, Newest(q, shown, v) => Newest(q2, shown, v),
         Latest(js, q, shown, v)
  PROVE  Latest(js2, q2, shown, v)
<1>1. CASE Unread(js) /\ Newest(q, shown, v)
  <2>1. Unread(js2)
    BY <1>1, StillWaiting DEF Unread
  <2> QED BY <1>1, <2>1 DEF Latest
<1>2. ASSUME NEW i \in DOMAIN js, Reads(js[i]), js[i].shown = v,
             \A k \in DOMAIN js : k > i => ~Reads(js[k])
      PROVE  Latest(js2, q2, shown, v)
  <2>1. i # 1 /\ i \in Nat /\ i - 1 \in DOMAIN js2 /\ js2[i - 1] = js[i]
    BY <1>2, StillWaiting
  <2>2. ASSUME NEW k \in DOMAIN js2, k > i - 1 PROVE ~Reads(js2[k])
    <3>1. k \in Nat /\ (~Reads(js2[k]) \/ (k + 1 \in DOMAIN js /\ js2[k] = js[k + 1]))
      BY StillWaiting
    <3>2. k + 1 > i
      BY <2>1, <2>2, <3>1
    <3> QED BY <1>2, <3>1, <3>2
  <2> QED BY <1>2, <2>1, <2>2 DEF Latest
<1> QED BY <1>1, <1>2 DEF Latest

LEMMA NewestKept ==
  ASSUME NEW q \in Seq(GoodSignal), NEW q2, NEW shown, NEW v,
         q2 = q \/ \E s : q2 = Append(q, s) /\ s.kind # "list"
  PROVE  /\ Newest(q, shown, v) => Newest(q2, shown, v)
         /\ (\E i \in DOMAIN q : Announces(q[i])) => \E i \in DOMAIN q2 : Announces(q2[i])
<1>1. ASSUME NEW s, q2 = Append(q, s), s.kind # "list"
      PROVE  /\ Newest(q, shown, v) => Newest(q2, shown, v)
             /\ (\E i \in DOMAIN q : Announces(q[i])) => \E i \in DOMAIN q2 : Announces(q2[i])
  <2>1. /\ \A i \in DOMAIN q : i \in DOMAIN q2 /\ q2[i] = q[i]
        /\ \A i \in DOMAIN q2 : i \in DOMAIN q \/ q2[i] = s
    <3>1. More(q, q2, s)
      BY <1>1, Appends
    <3>2. DOMAIN q = 1 .. Len(q) /\ Len(q) \in Nat /\ DOMAIN q2 = 1 .. Len(q) + 1
      BY <3>1 DEF More
    <3>3. \A i \in 1 .. Len(q) + 1 : i \in 1 .. Len(q) \/ i = Len(q) + 1
      BY <3>2
    <3> QED BY <3>1, <3>2, <3>3 DEF More
  <2> QED BY <1>1, <2>1 DEF Newest, Unlisted
<1> QED BY <1>1

(* A statement that leaves the list alone, of an operation that nothing       *)
(* awaits.                                                                  *)
LEMMA Ignored ==
  ASSUME NEW d, NEW d2, d2.convs = d.convs, Listed(d2) = Listed(d),
         NEW js \in Seq(GoodJob), js # <<>>, NEW js2, Rotated(js, js2),
         ~Awaits(d, Head(js)), ~Reads(Head(js)),
         NEW q \in Seq(GoodSignal), NEW q2, q2 = q \/ \E s : q2 = Append(q, s) /\ s.kind # "list",
         NEW shown, Shows(d, js, q, shown)
  PROVE  Shows(d2, js2, q2, shown)
<1>1. CASE \E i \in DOMAIN q : Announces(q[i])
  BY <1>1, NewestKept DEF Shows, Awaited
<1>2. ASSUME NEW i \in DOMAIN js, Awaits(d, js[i]) PROVE Shows(d2, js2, q2, shown)
  <2>1. i - 1 \in DOMAIN js2 /\ js2[i - 1] = js[i]
    BY <1>2, StillWaiting
  <2>2. Awaits(d2, js[i])
    BY <1>2 DEF Awaits
  <2> QED BY <2>1, <2>2 DEF Shows, Awaited
<1>3. CASE Latest(js, q, shown, Listed(d))
  <2>1. Newest(q, shown, Listed(d)) => Newest(q2, shown, Listed(d))
    BY NewestKept
  <2>2. Latest(js2, q2, shown, Listed(d))
    BY <1>3, <2>1, LatestTurned
  <2> QED BY <2>2 DEF Shows
<1> QED BY <1>1, <1>2, <1>3 DEF Shows, Awaited

LEMMA Awaiting ==
  ASSUME NEW d, NEW js \in Seq(GoodJob), js # <<>>, NEW k, NEW js2, js2 = Append(Tail(js), k),
         Awaits(d, k), NEW q, NEW shown
  PROVE  Shows(d, js2, q, shown)
<1>1. js2[Len(js)] = k /\ Len(js) \in DOMAIN js2
  BY TurnOf, TailOf
<1> QED BY <1>1 DEF Shows, Awaited

LEMMA Announced ==
  ASSUME NEW d, NEW js, NEW q \in Seq(GoodSignal), NEW s, NEW q2, q2 = Append(q, s),
         Announces(s), NEW shown
  PROVE  Shows(d, js, q2, shown)
<1>1. More(q, q2, s)
  BY Appends
<1>2. Len(q) + 1 \in DOMAIN q2 /\ q2[Len(q) + 1] = s
  BY <1>1 DEF More
<1> QED BY <1>2 DEF Shows, Awaited

(* The list is read when the SELECT is executed, and signalled when its rows  *)
(* are fetched.                                                             *)
LEMMA ListRead ==
  ASSUME NEW d, NEW js \in Seq(GoodJob), js # <<>>, NEW k, NEW js2, js2 = Append(Tail(js), k),
         Reads(k), k.shown = Listed(d), NEW q, NEW shown
  PROVE  Shows(d, js2, q, shown)
<1>1. js2[Len(js)] = k /\ Len(js) \in DOMAIN js2 /\ \A i \in DOMAIN js2 : ~(i > Len(js))
  <2>1. js2[Len(js)] = k /\ DOMAIN js2 = 1 .. Len(js) /\ Len(js) \in Nat \ {0}
    BY TurnOf, TailOf
  <2> QED BY <2>1
<1>2. Latest(js2, q, shown, Listed(d))
  BY <1>1 DEF Latest
<1> QED BY <1>2 DEF Shows

LEMMA ListFetched ==
  ASSUME NEW d, NEW js \in Seq(GoodJob), js # <<>>, Reads(Head(js)),
         NEW q \in Seq(GoodSignal), NEW s, s.kind = "list", s.shown = Head(js).shown,
         NEW q2, q2 = Append(q, s), NEW shown, Shows(d, js, q, shown)
  PROVE  Shows(d, Tail(js), q2, shown)
<1> DEFINE js2 == Tail(js)
<1>1. Rotated(js, js2)
  BY DEF Rotated
<1> HIDE DEF js2
<1>2. More(q, q2, s)
  BY Appends
<1>3. /\ Len(q) + 1 \in DOMAIN q2 /\ q2[Len(q) + 1] = s /\ \A i \in DOMAIN q2 : ~(i > Len(q) + 1)
      /\ \A i \in DOMAIN q : i \in DOMAIN q2 /\ q2[i] = q[i]
  <2>1. DOMAIN q = 1 .. Len(q) /\ Len(q) \in Nat /\ DOMAIN q2 = 1 .. Len(q) + 1
    BY <1>2 DEF More
  <2> QED BY <1>2, <2>1 DEF More
<1>4. CASE \E i \in DOMAIN q : Announces(q[i])
  BY <1>3, <1>4 DEF Shows, Awaited
<1>5. ASSUME NEW i \in DOMAIN js, Awaits(d, js[i]) PROVE Shows(d, js2, q2, shown)
  <2>1. i # 1
    BY <1>1, <1>5, StillWaiting DEF Awaits, Reads
  <2> QED BY <1>1, <1>5, <2>1, StillWaiting DEF Shows, Awaited
<1>6. ASSUME NEW i \in DOMAIN js, Reads(js[i]), js[i].shown = Listed(d),
             \A k \in DOMAIN js : k > i => ~Reads(js[k])
      PROVE  Shows(d, js2, q2, shown)
  <2>1. \A k \in DOMAIN js2 : k + 1 > i => ~Reads(js2[k])
    BY <1>1, <1>6, StillWaiting
  <2>2. CASE i = 1
    <3>1. s.shown = Listed(d)
      BY <1>1, <1>6, <2>2, StillWaiting
    <3>2. Unread(js2)
      <4>1. js2 \in Seq(GoodJob)
        BY TailOf DEF js2
      <4>2. \A k \in DOMAIN js2 : k \in Nat /\ k > 0
        BY <4>1
      <4>3. \A k \in DOMAIN js2 : k + 1 > i
        BY <2>2, <4>2
      <4> QED BY <2>1, <4>3 DEF Unread
    <3>3. Newest(q2, shown, Listed(d))
      BY <1>3, <3>1 DEF Newest
    <3> QED BY <3>2, <3>3 DEF Shows, Latest
  <2>3. CASE i # 1
    <3>1. i \in Nat /\ i - 1 \in DOMAIN js2 /\ js2[i - 1] = js[i]
      BY <1>1, <2>3, StillWaiting
    <3>2. \A k \in DOMAIN js2 : k \in Nat /\ (k > i - 1 => k + 1 > i)
      BY <1>1, <3>1, StillWaiting
    <3>3. Latest(js2, q2, shown, Listed(d))
      BY <1>6, <2>1, <3>1, <3>2 DEF Latest
    <3> QED BY <3>3 DEF Shows
  <2> QED BY <2>2, <2>3
<1>7. ~Unread(js)
  BY <1>1, StillWaiting, TailOf DEF Unread
<1> QED BY <1>4, <1>5, <1>6, <1>7 DEF Shows, Awaited, Latest, js2

(* Statements and the list. *)
LEMMA SameList ==
  ASSUME NEW d \in Database, NEW c, NEW m, NEW n
  PROVE  /\ InsertMessage(d, c, m).convs = d.convs /\ Listed(InsertMessage(d, c, m)) = Listed(d)
         /\ CountMessage(d, c).convs = d.convs /\ Listed(CountMessage(d, c)) = Listed(d)
         /\ SetTotal(d, c, n).convs = d.convs /\ Listed(SetTotal(d, c, n)) = Listed(d)
         /\ c \in InsertConversation(d, c).convs
BY DEF Database, Listed, InsertMessage, CountMessage, SetTotal, InsertConversation

LEMMA SameListInserting ==
  ASSUME NEW d \in Database
  PROVE  \A c, m : InsertMessage(d, c, m).convs = d.convs /\ Listed(InsertMessage(d, c, m)) = Listed(d)
BY DEF Database, Listed, InsertMessage

LEMMA ListingOthers ==
  ASSUME Types, Listing, jobs # <<>>, UNCHANGED sidebar,
         \/ \E op \in {"create", "createSend"} : Create(op)
         \/ Add \/ Load \/ List
         \/ \E op \in {"archive", "delete"} : \E d : Change(op, d)
  PROVE  Listing'
<1> DEFINE j == Head(jobs)
<1>1. /\ jobs \in Seq(GoodJob) /\ signals \in Seq(GoodSignal) /\ db \in Database
      /\ j \in Job /\ j.step \in Nat
  BY HeadJob, TypesSplit DEF Types, Queues, DbTypeOK, GoodJob, Job
<1>2. Next1(j).op = j.op /\ Next1(j).step = j.step + 1
  BY <1>1, NextFields
<1>3. \A n : LET k == [Next1(j) EXCEPT !.conv = n] IN k.op = j.op /\ k.step = j.step + 1
  BY <1>1, NextFields
<1>4. ASSUME ~Awaits(db, j), ~Reads(j), db'.convs = db.convs, Listed(db') = Listed(db),
             Rotated(jobs, jobs'), signals' = signals \/ \E s : signals' = Append(signals, s) /\ s.kind # "list"
      PROVE  Listing'
  <2>1. Shows(db', jobs', signals', sidebar)
    BY <1>1, <1>4, Ignored DEF Listing
  <2> QED BY <2>1 DEF Listing
<1>5. ASSUME NEW k, Continue(k), Awaits(db', k) PROVE Listing'
  <2>1. Shows(db', jobs', signals', sidebar')
    BY <1>1, <1>5, Awaiting DEF Continue
  <2> QED BY <2>1 DEF Listing
<1>6. ASSUME NEW s, Complete(s), Announces(s)
      PROVE  Listing'
  <2>1. Shows(db', jobs', signals', sidebar')
    BY <1>1, <1>6, Announced DEF Complete
  <2> QED BY <2>1 DEF Listing
<1> HIDE DEF j
<1>7. CASE Load
  <2>1. j.op = "load" /\ UNCHANGED db
    BY <1>7 DEF Load, At, dbVars, j
  <2>2. ~Awaits(db, j) /\ ~Reads(j)
    BY <2>1 DEF Awaits, Reads
  <2>3. CASE At("load", 1)
    <3> DEFINE k == [Next1(j) EXCEPT !.rows = First(db.msgs[j.conv])]
    <3>1. Continue(k)
      BY <1>7, <2>3 DEF Load, At, j
    <3>2. k.op = "load"
      BY <1>1, <2>1, NextFields
    <3> HIDE DEF k
    <3> QED BY <1>4, <2>1, <2>2, <3>1, <3>2 DEF Continue, Rotated, Reads
  <2>4. CASE At("load", 2)
    <3> DEFINE s == [NewSignal("load") EXCEPT !.rows = Fetched(j.rows, db.msgs[j.conv])]
    <3>1. Complete(s)
      BY <1>7, <2>4 DEF Load, At, j
    <3>2. s.kind # "list"
      BY DEF NewSignal
    <3> HIDE DEF s
    <3> QED BY <1>4, <2>1, <2>2, <3>1, <3>2 DEF Complete, Rotated
  <2> QED BY <1>7, <2>3, <2>4 DEF Load
<1>8. CASE List
  <2>1. j.op = "list" /\ UNCHANGED db
    BY <1>8 DEF List, At, dbVars, j
  <2>2. CASE At("list", 1)
    <3> DEFINE k == [Next1(j) EXCEPT !.shown = Listed(db)]
    <3>1. Continue(k) /\ j.step = 1
      BY <1>8, <2>2 DEF List, At, j
    <3>2. Reads(k) /\ k.shown = Listed(db)
      BY <1>1, <2>1, <3>1, NextFields DEF Reads
    <3> HIDE DEF k
    <3>3. Shows(db', jobs', signals', sidebar')
      BY <1>1, <2>1, <3>1, <3>2, ListRead DEF Continue
    <3> QED BY <3>3 DEF Listing
  <2>3. CASE At("list", 2)
    <3> DEFINE s == [NewSignal("list") EXCEPT !.shown = j.shown]
    <3>1. Complete(s) /\ j.step = 2
      BY <1>8, <2>3 DEF List, At, j
    <3>2. s.kind = "list" /\ s.shown = j.shown
      BY DEF NewSignal
    <3>3. Reads(j)
      BY <2>1, <3>1 DEF Reads
    <3> HIDE DEF s
    <3>4. Shows(db, jobs', signals', sidebar)
      BY <1>1, <3>1, <3>2, <3>3, ListFetched DEF Complete, Listing, j
    <3> QED BY <2>1, <3>4 DEF Listing
  <2> QED BY <1>8, <2>2, <2>3 DEF List
<1>9. CASE Add
  <2>1. j.op = "add" /\ Rotated(jobs, jobs') /\ signals' = signals
    <3>1. j.op = "add" /\ (Continue(Next1(j)) \/ CompleteQuietly)
      BY <1>9 DEF Add, At, j
    <3>2. ~Reads(Next1(j))
      BY <1>2, <3>1 DEF Reads
    <3> QED BY <3>1, <3>2 DEF Continue, CompleteQuietly, Rotated
  <2>2. ~Awaits(db, j) /\ ~Reads(j)
    BY <2>1 DEF Awaits, Reads
  <2>3. \/ db' = db
        \/ \E c, m : db' = InsertMessage(db, c, m)
        \/ \E c : db' = CountMessage(db, c)
    BY <1>9 DEF Add, dbVars
  <2>4. db'.convs = db.convs /\ Listed(db') = Listed(db)
    <3>1. CASE db' = db
      BY <3>1
    <3>2. CASE \E c, m : db' = InsertMessage(db, c, m)
      BY <1>1, <3>2, SameListInserting
    <3>3. CASE \E c : db' = CountMessage(db, c)
      BY ZenonT(30), <1>1, <3>3, SameList
    <3> QED BY <2>3, <3>1, <3>2, <3>3
  <2> QED BY <1>4, <2>1, <2>2, <2>4
<1>10. ASSUME NEW op \in {"create", "createSend"}, Create(op) PROVE Listing'
  <2>1. CASE At(op, 1)
    <3>1. Continue([Next1(j) EXCEPT !.conv = ids + 1]) /\ j.op = op /\ j.step = 1
      BY <1>10, <2>1 DEF Create, At, j
    <3>2. Awaits(db', [Next1(j) EXCEPT !.conv = ids + 1])
      BY <1>3, <3>1 DEF Awaits
    <3> QED BY <1>5, <3>1, <3>2
  <2>2. CASE At(op, 2)
    <3> DEFINE s == [NewSignal(op) EXCEPT !.conv = j.conv]
    <3>1. Complete(s)
      BY <1>10, <2>2 DEF Create, At, j
    <3>2. Announces(s)
      BY DEF NewSignal, Announces
    <3> HIDE DEF s
    <3> QED BY <1>6, <3>1, <3>2
  <2> QED BY <1>10, <2>1, <2>2 DEF Create
<1>11. ASSUME NEW op \in {"archive", "delete"}, NEW d, Change(op, d) PROVE Listing'
  <2>1. CASE At(op, 1)
    <3>1. Continue(Next1(j)) /\ j.op = op /\ j.step = 1
      BY <1>11, <2>1 DEF Change, At, j
    <3>2. Awaits(db', Next1(j))
      BY <1>2, <3>1 DEF Awaits
    <3> QED BY <1>5, <3>1, <3>2
  <2>2. CASE At(op, 2)
    <3>1. Complete(NewSignal("refresh"))
      BY <1>11, <2>2 DEF Change, At
    <3>2. Announces(NewSignal("refresh"))
      BY DEF NewSignal, Announces
    <3> QED BY <1>6, <3>1, <3>2
  <2> QED BY <1>11, <2>1, <2>2 DEF Change
<1> QED BY <1>7, <1>8, <1>9, <1>10, <1>11

LEMMA ListingCopies ==
  ASSUME Types, Listing, jobs # <<>>, UNCHANGED sidebar,
         DuplicateBegins \/ DuplicateRow \/ DuplicateEnds
  PROVE  Listing'
<1> DEFINE j == Head(jobs)
<1>1. /\ jobs \in Seq(GoodJob) /\ signals \in Seq(GoodSignal) /\ db \in Database
      /\ j \in Job /\ j.step \in Nat /\ j.op = "duplicate"
  BY HeadJob, TypesSplit DEF Types, Queues, DbTypeOK, GoodJob, Job, DuplicateBegins,
     DuplicateRow, DuplicateEnds, At
<1> DEFINE Copy(k) == k.op = "duplicate" /\ k.copy = j.copy
<1> DEFINE l == Next1(j)
<1>2. /\ l.op = "duplicate" /\ l.copy = j.copy /\ l.step = j.step + 1 /\ l \in Job
  BY <1>1, NextFields
<1>3. ASSUME NEW r
      PROVE  /\ LET k == [l EXCEPT !.rows = r] IN Copy(k) /\ k.step = l.step
             /\ LET k == [l EXCEPT !.count = r] IN Copy(k) /\ k.step = l.step
             /\ LET k == [j EXCEPT !.rows = r] IN Copy(k) /\ k.step = j.step
             /\ LET k == [l EXCEPT !.copy = r] IN k.op = "duplicate" /\ k.step = l.step /\ k.copy = r
  <2> HIDE DEF l, j
  <2> QED BY <1>1, <1>2 DEF Job
<1>4. ASSUME ~Awaits(db, j), db'.convs = db.convs, Listed(db') = Listed(db),
             Rotated(jobs, jobs'), signals' = signals
      PROVE  Listing'
  <2>1. ~Reads(j)
    BY <1>1 DEF Reads
  <2>2. Shows(db', jobs', signals', sidebar)
    BY <1>1, <1>4, <2>1, Ignored DEF Listing
  <2> QED BY <2>2 DEF Listing
<1>5. ASSUME NEW k, Continue(k), Awaits(db', k) PROVE Listing'
  <2>1. Shows(db', jobs', signals', sidebar')
    BY <1>1, <1>5, Awaiting DEF Continue
  <2> QED BY <2>1 DEF Listing
<1>6. ASSUME Complete(NewSignal("refresh")) PROVE Listing'
  <2>1. Announces(NewSignal("refresh"))
    BY DEF NewSignal, Announces
  <2>2. Shows(db', jobs', signals', sidebar')
    BY <1>1, <1>6, <2>1, Announced DEF Complete
  <2> QED BY <2>2 DEF Listing
(* While the copy is there, it is awaited before and after. *)
<1>7. ASSUME NEW k, Continue(k), Copy(k), k.step > 3, db'.convs = db.convs,
             Listed(db') = Listed(db)
      PROVE  Listing'
  <2>1. CASE j.copy \in db.convs
    <3>1. Awaits(db', k)
      BY <1>7, <2>1 DEF Awaits
    <3> QED BY <1>5, <1>7, <3>1
  <2>2. CASE j.copy \notin db.convs
    <3>1. ~Awaits(db, j)
      BY <1>1, <2>2 DEF Awaits
    <3>2. ~Reads(k)
      BY <1>7 DEF Reads
    <3> QED BY <1>4, <1>7, <3>1, <3>2 DEF Continue, Rotated
  <2> QED BY <2>1, <2>2
<1> HIDE DEF j, l, Copy
<1>8. CASE DuplicateBegins
  <2>1. CASE At("duplicate", 1)
    <3> DEFINE n == IF j.conv \in db.convs THEN 1 ELSE 0
               k == [l EXCEPT !.count = n]
    <3>1. Continue(k) /\ UNCHANGED db /\ j.step = 1
      BY <1>8, <2>1 DEF DuplicateBegins, At, dbVars, l, j
    <3>2. k.op = "duplicate"
      BY <1>2
    <3> HIDE DEF k
    <3>3. ~Awaits(db, j) /\ ~Reads(k)
      BY <1>1, <3>1, <3>2 DEF Awaits, Reads
    <3> QED BY <1>4, <3>1, <3>3 DEF Continue, Rotated
  <2>2. CASE At("duplicate", 2)
    <3>1. /\ Continue(l) \/ Complete(NewSignal("refresh"))
          /\ UNCHANGED db /\ j.step = 2
      BY <1>8, <2>2 DEF DuplicateBegins, At, dbVars, l, j
    <3>2. ~Awaits(db, j) /\ ~Reads(l)
      BY <1>1, <1>2, <3>1 DEF Awaits, Reads
    <3> QED BY <1>4, <1>6, <3>1, <3>2 DEF Continue, Rotated
  <2>3. CASE At("duplicate", 3)
    <3>1. Continue([l EXCEPT !.copy = ids + 1]) /\ db' = InsertConversation(db, ids + 1) /\ j.step = 3
      BY <1>8, <2>3 DEF DuplicateBegins, At, l, j
    <3>2. Awaits(db', [l EXCEPT !.copy = ids + 1])
      BY SMTT(30), <1>1, <1>2, <1>3, <3>1, SameList DEF Awaits
    <3> QED BY <1>5, <3>1, <3>2
  <2>4. CASE At("duplicate", 4)
    <3>1. Continue(l) /\ UNCHANGED db /\ j.step = 4
      BY <1>8, <2>4 DEF DuplicateBegins, At, l, j
    <3>2. Copy(l) /\ l.step > 3
      BY <1>2, <3>1 DEF Copy
    <3> QED BY <1>7, <3>1, <3>2
  <2>5. CASE At("duplicate", 5) \/ At("duplicate", 6)
    <3>1. UNCHANGED db /\ j.step \in {5, 6}
      BY <1>8, <2>5 DEF DuplicateBegins, At, dbVars, j
    <3>2. \/ Continue([l EXCEPT !.rows = First(db.msgs[j.conv])])
          \/ Continue([l EXCEPT !.rows = Fetched(j.rows, db.msgs[j.conv])])
      BY <1>8, <2>5 DEF DuplicateBegins, At, l, j
    <3>3. l.step > 3
      BY <1>2, <3>1
    <3> QED BY <1>3, <1>7, <3>1, <3>2, <3>3
  <2> QED BY <1>8, <2>1, <2>2, <2>3, <2>4, <2>5 DEF DuplicateBegins
<1>9. CASE DuplicateRow
  <2>1. j.step = 7
    BY <1>9 DEF DuplicateRow, At, j
  <2>2. CASE MayInsertMessage(db, j.copy)
    <3>1. /\ db' = InsertMessage(db, j.copy, Head(j.rows))
          /\ Continue([j EXCEPT !.rows = Tail(j.rows)])
      BY <1>9, <2>2 DEF DuplicateRow, j
    <3> DEFINE k == [j EXCEPT !.rows = Tail(j.rows)]
    <3>2. Copy(k) /\ k.step > 3
      BY <1>1, <2>1 DEF Job, Copy
    <3>3. db'.convs = db.convs /\ Listed(db') = Listed(db) /\ Continue(k)
      BY <1>1, <3>1, SameListInserting
    <3> HIDE DEF k
    <3> QED BY <1>7, <3>2, <3>3
  <2>3. CASE ~MayInsertMessage(db, j.copy)
    <3>1. CompleteQuietly /\ UNCHANGED db
      BY <1>9, <2>3 DEF DuplicateRow, j
    <3>2. ~Awaits(db, j)
      BY <1>1, <2>3 DEF Awaits, MayInsertMessage
    <3> QED BY <1>4, <3>1, <3>2 DEF CompleteQuietly, Rotated
  <2> QED BY <2>2, <2>3
<1>10. CASE DuplicateEnds
  <2>1. CASE At("duplicate", 7)
    <3> DEFINE k == [l EXCEPT !.count = Len(db.msgs[j.copy])]
    <3>1. Continue(k) /\ UNCHANGED db /\ j.step = 7
      BY <1>10, <2>1 DEF DuplicateEnds, At, dbVars, l, j
    <3>2. Copy(k) /\ k.step > 3
      BY <1>2, <3>1 DEF Job, Copy
    <3> HIDE DEF k
    <3> QED BY <1>7, <3>1, <3>2
  <2>2. CASE At("duplicate", 9)
    <3>1. Continue(l) /\ db' = SetTotal(db, j.copy, j.count) /\ j.step = 9
      BY <1>10, <2>2 DEF DuplicateEnds, At, l, j
    <3>2. Copy(l) /\ l.step > 3
      BY <1>2, <3>1 DEF Copy
    <3> QED BY ZenonT(30), <1>1, <1>7, <3>1, <3>2, SameList
  <2>3. CASE At("duplicate", 8) \/ At("duplicate", 10) \/ At("duplicate", 11)
    <3>1. Continue(l) /\ UNCHANGED db /\ j.step > 3
      BY <1>10, <2>3 DEF DuplicateEnds, At, dbVars, l, j
    <3>2. Copy(l) /\ l.step > 3
      BY <1>1, <1>2, <3>1 DEF Copy
    <3> QED BY <1>7, <3>1, <3>2
  <2>4. CASE At("duplicate", 12)
    BY <1>6, <1>10, <2>4 DEF DuplicateEnds, At
  <2> QED BY <1>10, <2>1, <2>2, <2>3, <2>4 DEF DuplicateEnds
<1> QED BY <1>8, <1>9, <1>10

LEMMA ListingBackground ==
  ASSUME Types, Listing, Background
  PROVE  Listing'
<1>1. UNCHANGED sidebar
  BY DEF Background, uiVars
<1>2. CASE JobStep
  <2>1. jobs # <<>>
    BY <1>2 DEF JobStep, Create, Add, Load, List, Change, DuplicateBegins, DuplicateRow, DuplicateEnds, At
  <2>2. \/ \E op \in {"create", "createSend"} : Create(op)
        \/ Add \/ Load \/ List
        \/ \E op \in {"archive", "delete"} : \E d : Change(op, d)
        \/ DuplicateBegins \/ DuplicateRow \/ DuplicateEnds
    BY <1>2 DEF JobStep
  <2> QED BY <1>1, <2>1, <2>2, ListingOthers, ListingCopies
<1>3. CASE StreamStep
  <2>1. UNCHANGED <<db, jobs>>
    BY <1>3 DEF StreamStep, dbVars
  <2>2. signals' = signals \/ \E s : signals' = Append(signals, s) /\ s.kind # "list"
    <3>1. \A g, i : [NewSignal("text") EXCEPT !.gen = g, !.index = i].kind # "list"
      BY DEF NewSignal
    <3>2. \A g : [NewSignal("done") EXCEPT !.gen = g].kind # "list"
      BY DEF NewSignal
    <3>3. PICK g \in Gens : EmitChunk(g) \/ StreamEnds(g) \/ CancelLands(g)
      BY <1>3 DEF StreamStep
    <3>4. CASE EmitChunk(g)
      BY <3>1, <3>4 DEF EmitChunk
    <3>5. CASE StreamEnds(g) \/ CancelLands(g)
      BY <3>2, <3>5 DEF StreamEnds, CancelLands
    <3> QED BY <3>3, <3>4, <3>5
  <2>3. signals \in Seq(GoodSignal)
    BY DEF Types, Queues
  <2> QED BY <1>1, <2>1, <2>2, <2>3, NewestKept DEF Listing, Shows, Awaited, Latest
<1> QED BY <1>2, <1>3 DEF Background

(* The main thread submits operations behind the others. *)
LEMMA Submits ==
  ASSUME NEW d, NEW js \in Seq(GoodJob), NEW new \in Seq(GoodJob), NEW js2, js2 = js \o new
  PROVE  /\ (\E i \in DOMAIN js : Awaits(d, js[i])) => \E i \in DOMAIN js2 : Awaits(d, js2[i])
         /\ (\E i \in DOMAIN new : Awaits(d, new[i])) => \E i \in DOMAIN js2 : Awaits(d, js2[i])
<1>1. \A i \in DOMAIN js : i \in DOMAIN js2 /\ js2[i] = js[i]
  OBVIOUS
<1>2. \A i \in DOMAIN new : Len(js) + i \in DOMAIN js2 /\ js2[Len(js) + i] = new[i]
  OBVIOUS
<1> QED BY <1>1, <1>2

(* The first signal has been handled: it was no list and announced none, or  *)
(* it was a list, which is shown now.                                       *)
LEMMA Handled ==
  ASSUME NEW q \in Seq(GoodSignal), q # <<>>, ~Announces(Head(q)), NEW shown, NEW shown2, NEW v,
         IF Head(q).kind = "list" THEN shown2 = Head(q).shown ELSE shown2 = shown
  PROVE  /\ Newest(q, shown, v) => Newest(Tail(q), shown2, v)
         /\ (\E i \in DOMAIN q : Announces(q[i])) => \E i \in DOMAIN Tail(q) : Announces(Tail(q)[i])
<1> DEFINE t == Tail(q)
<1>1. /\ Len(q) \in Nat \ {0} /\ DOMAIN q = 1 .. Len(q) /\ Head(q) = q[1]
      /\ DOMAIN t = 1 .. Len(q) - 1
      /\ \A i \in 1 .. Len(q) - 1 : t[i] = q[i + 1] /\ i + 1 \in 1 .. Len(q)
  BY TailOf
<1> HIDE DEF t
<1>2. /\ \A i \in DOMAIN q : i \in Nat /\ (i # 1 => i > 1 /\ i - 1 \in DOMAIN t /\ t[i - 1] = q[i])
      /\ \A i \in DOMAIN t : i \in Nat /\ i > 0 /\ i + 1 \in DOMAIN q /\ t[i] = q[i + 1]
  <2>1. \A i \in 1 .. Len(q) : i # 1 => i > 1 /\ i - 1 \in 1 .. Len(q) - 1 /\ (i - 1) + 1 = i
    BY <1>1
  <2>2. \A i \in 1 .. Len(q) - 1 : i \in Nat /\ i > 0
    BY <1>1
  <2> QED BY <1>1, <2>1, <2>2
<1>3. ASSUME NEW i \in DOMAIN q, Announces(q[i]) PROVE \E k \in DOMAIN t : Announces(t[k])
  BY <1>1, <1>2, <1>3
<1>4. ASSUME shown = v, Unlisted(q) PROVE Newest(t, shown2, v)
  <2>1. Head(q).kind # "list"
    BY <1>1, <1>4 DEF Unlisted
  <2> QED BY <1>2, <1>4, <2>1 DEF Newest, Unlisted
<1>5. ASSUME NEW i \in DOMAIN q, q[i].kind = "list", q[i].shown = v,
             \A k \in DOMAIN q : k > i => q[k].kind # "list"
      PROVE  Newest(t, shown2, v)
  <2>1. CASE i = 1
    <3>1. \A k \in DOMAIN t : k + 1 > i
      BY <1>2, <2>1
    <3>2. Unlisted(t)
      BY <1>2, <1>5, <3>1 DEF Unlisted
    <3> QED BY <1>1, <1>5, <2>1, <3>2 DEF Newest
  <2>2. CASE i # 1
    <3>1. i - 1 \in DOMAIN t /\ t[i - 1] = q[i] /\ i \in Nat
      BY <1>2, <2>2
    <3>2. \A k \in DOMAIN t : k > i - 1 => k + 1 > i
      BY <1>2, <3>1
    <3>3. \A k \in DOMAIN t : k > i - 1 => t[k].kind # "list"
      BY <1>2, <1>5, <3>2
    <3> QED BY <1>5, <3>1, <3>3 DEF Newest
  <2> QED BY <2>1, <2>2
<1> QED BY <1>3, <1>4, <1>5 DEF Newest, t

(* What the main thread submits: operations that have yet to begin. *)
Extended(js, js2) ==
    \E new \in Seq(GoodJob) : js2 = js \o new /\ \A i \in DOMAIN new : new[i].step = 1

LEMMA LatestExtended ==
  ASSUME NEW js \in Seq(GoodJob), NEW js2, Extended(js, js2), NEW q, NEW q2, NEW shown, NEW shown2,
         NEW v, Newest(q, shown, v) => Newest(q2, shown2, v), Latest(js, q, shown, v)
  PROVE  Latest(js2, q2, shown2, v)
<1>1. PICK new \in Seq(GoodJob) : js2 = js \o new /\ \A i \in DOMAIN new : new[i].step = 1
  BY DEF Extended
<1>2. \A i \in DOMAIN js : i \in DOMAIN js2 /\ js2[i] = js[i]
  BY <1>1
<1>3. \A i \in DOMAIN js2 : i \in DOMAIN js \/ (i - Len(js) \in DOMAIN new /\ js2[i] = new[i - Len(js)])
  BY <1>1
<1>4. \A i \in DOMAIN js2 : i \in DOMAIN js \/ ~Reads(js2[i])
  BY <1>1, <1>3 DEF Reads
<1>5. Unread(js) => Unread(js2)
  BY <1>2, <1>4 DEF Unread
<1> QED BY <1>2, <1>4, <1>5 DEF Latest

LEMMA FirstSteps ==
  /\ \A op, c : NewJob(op, c).step = 1
  /\ \A c, m : AddJob(c, m).step = 1
BY DEF AddJob, NewJob

LEMMA NothingSubmitted == jobs \in Seq(GoodJob) => Extended(jobs, jobs)
<1> DEFINE none == <<>>
<1>1. none \in Seq(GoodJob) /\ DOMAIN none = {} /\ (jobs \in Seq(GoodJob) => jobs = jobs \o none)
  OBVIOUS
<1> HIDE DEF none
<1> QED BY <1>1 DEF Extended

LEMMA NewSubmitted ==
  ASSUME NEW op \in Ops \ {"add"}, NEW c \in 0 .. MaxConvs,
         op \in {"load", "archive", "delete", "duplicate"} => c \in Convs,
         Submitted(<<NewJob(op, c)>>)
  PROVE  Extended(jobs, jobs')
<1> DEFINE new == <<NewJob(op, c)>>
<1>1. new \in Seq(GoodJob) /\ \A i \in DOMAIN new : new[i].step = 1
  BY NewJobGood, FirstSteps
<1> HIDE DEF new
<1> QED BY <1>1 DEF Submitted, Extended, new

LEMMA FinishSubmitted ==
  ASSUME Types, NEW g \in Gens, FinishGeneration(g)
  PROVE  Extended(jobs, jobs')
<1> DEFINE new == <<AddJob(active, Reply(g, genText)), NewJob("list", 0)>>
<1>1. AddJob(active, Reply(g, genText)) \in GoodJob /\ NewJob("list", 0) \in GoodJob
  <2>1. Reply(g, genText) \in Message /\ active \in 0 .. MaxConvs
    BY Messages, TypesSplit DEF UiTypes
  <2> QED BY <2>1, AddJobGood, NewJobGood, Constants DEF Ops
<1>2. new \in Seq(GoodJob) /\ \A i \in DOMAIN new : new[i].step = 1
  BY <1>1, FirstSteps
<1>3. jobs' = jobs \/ jobs' = jobs \o new
  BY DEF FinishGeneration
<1> HIDE DEF new
<1> QED BY <1>2, <1>3, NothingSubmitted DEF Extended, Types, Queues

LEMMA SendSubmitted ==
  ASSUME Types, NEW c \in 0 .. MaxConvs, NEW g \in Gens, NEW now,
         NEW after, after = <<>> \/ after = <<NewJob("list", 0)>>, DoSend(c, g, jobs, now, after)
  PROVE  Extended(jobs, jobs')
<1> DEFINE ask == AddJob(c, Question(g))
           list == NewJob("list", 0)
<1>1. ask \in GoodJob /\ list \in GoodJob /\ ask.step = 1 /\ list.step = 1
  <2>1. Question(g) \in Message
    BY Messages, <<>> \in Seq(Chunk)
  <2> QED BY <2>1, AddJobGood, NewJobGood, FirstSteps, Constants DEF Ops
<1>2. jobs' = (jobs \o <<ask>>) \o after /\ jobs \in Seq(GoodJob)
  BY DEF DoSend, Types, Queues
<1>3. after = <<>> \/ after = <<list>>
  OBVIOUS
<1> HIDE DEF ask, list
<1>4. CASE after = <<>>
  <2> DEFINE new == <<ask>>
  <2>1. new \in Seq(GoodJob) /\ jobs' = jobs \o new /\ \A i \in DOMAIN new : new[i].step = 1
    BY <1>1, <1>2, <1>4
  <2> HIDE DEF new
  <2> QED BY <2>1 DEF Extended
<1>5. CASE after = <<list>>
  <2> DEFINE new == <<ask, list>>
  <2>1. new \in Seq(GoodJob) /\ \A i \in DOMAIN new : new[i].step = 1
    BY <1>1
  <2>2. jobs' = jobs \o new
    BY <1>1, <1>2, <1>5
  <2> HIDE DEF new
  <2> QED BY <2>1, <2>2 DEF Extended
<1> QED BY <1>3, <1>4, <1>5

LEMMA UserSubmits ==
  ASSUME Types, User
  PROVE  Extended(jobs, jobs')
<1>1. jobs \in Seq(GoodJob) /\ active \in 0 .. MaxConvs /\ (sent < MaxGens => sent + 1 \in Gens)
  BY SMTT(30), TypesSplit, Constants DEF Types, Queues, UiTypes, CountTypes, Gens
<1>2. CASE SendMessage \/ Resend
  <2>1. CASE active # 0
    <3>1. DoSend(active, sent + 1, jobs, history, <<>>) /\ sent < MaxGens
      BY <1>2, <2>1 DEF SendMessage, Resend
    <3> QED BY <1>1, <3>1, SendSubmitted
  <2>2. CASE active = 0
    <3>1. Submitted(<<NewJob("createSend", 0)>>)
      BY <1>2, <2>2 DEF SendMessage, Resend
    <3> QED BY <3>1, NewSubmitted, Constants DEF Ops
  <2> QED BY <2>1, <2>2
<1>3. CASE Stop
  <2>1. token \in Gens /\ FinishGeneration(token)
    BY <1>3, TypesSplit DEF Stop, UiTypes, Gens
  <2> QED BY <2>1, FinishSubmitted
<1>4. CASE NewConversation
  <2>1. Submitted(<<NewJob("create", 0)>>)
    BY <1>4 DEF NewConversation
  <2> QED BY <2>1, NewSubmitted, Constants DEF Ops
<1>5. ASSUME NEW c \in Convs, \/ Select(c) \/ Duplicate(c)
                              \/ \E op \in {"archive", "delete"} : Change1(op, c)
      PROVE  Extended(jobs, jobs')
  <2>1. \E op \in {"load", "duplicate", "archive", "delete"} : Submitted(<<NewJob(op, c)>>)
    BY <1>5 DEF Select, Duplicate, Change1
  <2> QED BY <2>1, NewSubmitted, Constants DEF Ops
<1> QED BY <1>2, <1>3, <1>4, <1>5 DEF User

LEMMA ListingUser ==
  ASSUME Types, Listing, User
  PROVE  Listing'
<1>1. UNCHANGED <<db, signals, sidebar>>
  BY DEF User, SendMessage, Resend, Stop, NewConversation, Select, Duplicate, Change1, uiVars, dbVars
<1>2. jobs \in Seq(GoodJob) /\ Extended(jobs, jobs')
  BY UserSubmits DEF Types, Queues
<1>3. (\E i \in DOMAIN jobs : Awaits(db, jobs[i])) => \E i \in DOMAIN jobs' : Awaits(db, jobs'[i])
  BY <1>2, Submits DEF Extended
<1>4. \A v : Latest(jobs, signals, sidebar, v) => Latest(jobs', signals, sidebar, v)
  BY <1>2, LatestExtended
<1> QED BY <1>1, <1>3, <1>4 DEF Listing, Shows, Awaited

LEMMA ListingRequested ==
  ASSUME NEW before \in Seq(GoodJob), jobs' = before \o <<NewJob("list", 0)>>
  PROVE  Listing'
<1> DEFINE list == NewJob("list", 0)
<1>1. Awaits(db', list)
  BY DEF NewJob, Awaits
<1>2. list \in GoodJob
  BY NewJobGood, Constants DEF Ops
<1> HIDE DEF list
<1>3. jobs'[Len(before) + 1] = list /\ Len(before) + 1 \in DOMAIN jobs'
  BY <1>2 DEF list
<1> QED BY <1>1, <1>3 DEF Listing, Shows, Awaited

LEMMA ListingSignal ==
  ASSUME Types, Listing, OnSignal
  PROVE  Listing'
<1>1. /\ UNCHANGED db /\ signals # <<>> /\ signals' = Tail(signals)
      /\ jobs \in Seq(GoodJob) /\ signals \in Seq(GoodSignal) /\ Head(signals) \in GoodSignal
  BY HeadSignal DEF OnSignal, OnText, OnStreamDone, OnCreated, OnCreatedToSend, OnLoaded, OnRefresh,
         OnListed, Received, Consumed, dbVars, Types, Queues
<1>2. CASE OnText \/ OnLoaded \/ OnListed \/ OnStreamDone
  <2>1. /\ Head(signals).kind \in {"text", "load", "list", "done"}
        /\ IF Head(signals).kind = "list" THEN sidebar' = Head(signals).shown ELSE sidebar' = sidebar
    BY <1>2 DEF OnText, OnLoaded, OnListed, OnStreamDone, Received
  <2>2. ~Announces(Head(signals))
    BY <2>1 DEF Announces
  <2>3. Extended(jobs, jobs')
    <3>1. CASE OnStreamDone /\ Head(signals).gen = token
      <4>1. token \in Gens /\ FinishGeneration(token)
        BY <1>1, <3>1 DEF OnStreamDone, GoodSignal, Received
      <4> QED BY <4>1, FinishSubmitted
    <3>2. CASE jobs' = jobs
      BY <1>1, <3>2, NothingSubmitted
    <3> QED BY <1>2, <3>1, <3>2 DEF OnText, OnLoaded, OnListed, OnStreamDone
  <2>4. (\E i \in DOMAIN jobs : Awaits(db, jobs[i])) => \E i \in DOMAIN jobs' : Awaits(db, jobs'[i])
    BY <1>1, <2>3, Submits DEF Extended
  <2>5. /\ \A v : Newest(signals, sidebar, v) => Newest(signals', sidebar', v)
        /\ (\E i \in DOMAIN signals : Announces(signals[i]))
             => \E i \in DOMAIN signals' : Announces(signals'[i])
    BY <1>1, <2>1, <2>2, Handled
  <2>6. \A v : Latest(jobs, signals, sidebar, v) => Latest(jobs', signals', sidebar', v)
    BY <1>1, <2>3, <2>5, LatestExtended
  <2> QED BY <1>1, <2>4, <2>5, <2>6 DEF Listing, Shows, Awaited
<1>3. CASE OnCreated \/ OnRefresh
  BY <1>1, <1>3, ListingRequested DEF OnCreated, OnRefresh, Submitted
<1>4. CASE OnCreatedToSend
  <2>1. CASE pendingText # 0
    <3> DEFINE ask == AddJob(Head(signals).conv, Question(pendingText))
    <3>1. pendingText \in Gens /\ Head(signals).conv \in 0 .. MaxConvs
      <4>1. UiTypes
        BY TypesSplit
      <4>2. pendingText \in 0 .. MaxGens
        BY <4>1 DEF UiTypes
      <4>3. pendingText \in Gens
        BY <2>1, <4>2, Constants DEF Gens
      <4>4. Head(signals) \in Signal
        BY <1>1 DEF GoodSignal
      <4> QED BY <4>3, <4>4 DEF Signal
    <3>2. ask \in GoodJob
      <4>1. Question(pendingText) \in Message
        BY <3>1, Messages, <<>> \in Seq(Chunk)
      <4> QED BY <3>1, <4>1, AddJobGood
    <3>3. jobs' = (jobs \o <<ask>>) \o <<NewJob("list", 0)>>
      BY <1>4, <2>1 DEF OnCreatedToSend, DoSend
    <3>4. jobs \o <<ask>> \in Seq(GoodJob)
      BY <1>1, <3>2
    <3> QED BY <3>3, <3>4, ListingRequested
  <2>2. CASE pendingText = 0
    BY <1>1, <1>4, <2>2, ListingRequested DEF OnCreatedToSend, Submitted
  <2> QED BY <2>1, <2>2
<1> QED BY <1>2, <1>3, <1>4 DEF OnSignal

LEMMA ListingRestart ==
  ASSUME Restart
  PROVE  Listing'
<1>1. jobs' = <<NewJob("list", 0)>>
  BY DEF Restart, RunnerRestart
<1>2. Awaits(db', NewJob("list", 0))
  BY DEF NewJob, Awaits
<1>3. 1 \in DOMAIN jobs' /\ jobs'[1] = NewJob("list", 0)
  BY <1>1
<1> QED BY <1>2, <1>3 DEF Listing, Shows, Awaited

LEMMA ListingInvariant == Spec => []Listing
<1>1. Init => Listing
  BY DEF Init, DbInit, EmptyDatabase, RunnerInit, UiInit, Listing, Shows, Latest, Unread,
         Newest, Unlisted, Listed
<1>2. Types /\ Listing /\ [Next]_vars => Listing'
  <2>1. ASSUME UNCHANGED vars, Listing PROVE Listing'
    BY <2>1 DEF vars, dbVars, runnerVars, uiVars, Listing
  <2> QED BY <2>1, ListingUser, ListingSignal, ListingBackground, ListingRestart DEF Next
<1> QED BY <1>1, <1>2, TypesInvariant, PTL DEF Spec

(* When nothing is in progress any more, the sidebar lists what the database  *)
(* holds and has not archived: every change of the list, also one cut off by*)
(* a deletion or a restart, is followed by a list that includes it.         *)
THEOREM SidebarIsCurrent == Spec => []SidebarSettles
<1>1. Listing => SidebarSettles
  BY DEF Listing, Shows, Awaited, Latest, Newest, SidebarSettles, Quiet
<1> QED BY <1>1, ListingInvariant, PTL

-----------------------------------------------------------------------------
(* Totals.  An inserted message is counted by the next statement of its      *)
(* operation; what the last statements of a duplication read and set counts  *)
(* those inserted before.  Operations advance in turns, so that the messages *)
(* inserted, but not counted, when the total is set are those of operations  *)
(* behind it in the queue.  Nothing is inserted between the execution of the *)
(* SELECT that counts and its fetch: a copy of which this is not so is in   *)
(* missed.                                                                  *)
Counts(j, c) == j.op = "add" /\ j.step = 2 /\ j.conv = c
Copying(j, c) == j.op = "duplicate" /\ j.step \in 4 .. 9 /\ j.copy = c

Owing(js, c, n) == {i \in DOMAIN js : i > n /\ Counts(js[i], c)}
Owed(js, c, n) == Cardinality(Owing(js, c, n))

Read(d, js, c) ==
    \A i \in DOMAIN js : Copying(js[i], c) =>
        /\ js[i].step = 8 => js[i].count = Len(d.msgs[c])
        /\ js[i].step = 9 => js[i].count + Owed(js, c, i) = Len(d.msgs[c])
Sum(d, js, c) ==
    (\A i \in DOMAIN js : ~Copying(js[i], c)) => d.total[c] + Owed(js, c, 0) = Len(d.msgs[c])
Single(js, c) == \A i, k \in DOMAIN js : Copying(js[i], c) /\ Copying(js[k], c) => i = k

Tally(d, js, c) ==
    IF c \in d.convs THEN Read(d, js, c) /\ Sum(d, js, c) /\ Single(js, c)
                     ELSE d.total[c] = 0 /\ d.msgs[c] = <<>>
Tallied == restarts = 0 => \A c \in Convs \ missed : Tally(db, jobs, c)

One(j, c) == IF Counts(j, c) THEN 1 ELSE 0

LEMMA OwingFinite ==
  ASSUME NEW js \in Seq(GoodJob), NEW c, NEW n
  PROVE  IsFiniteSet(Owing(js, c, n)) /\ Owed(js, c, n) \in Nat
<1>1. Len(js) \in Nat /\ DOMAIN js = 1 .. Len(js)
  OBVIOUS
<1>2. IsFiniteSet(1 .. Len(js))
  BY <1>1, FS_Interval
<1>3. Owing(js, c, n) \in SUBSET (1 .. Len(js))
  BY <1>1 DEF Owing
<1>4. IsFiniteSet(Owing(js, c, n))
  BY <1>2, <1>3, FS_Subset
<1> QED BY <1>4, FS_CardinalityType DEF Owed

LEMMA OwedTail ==
  ASSUME NEW js \in Seq(GoodJob), js # <<>>, NEW c
  PROVE  /\ \A n \in 1 .. Len(js) : Owed(Tail(js), c, n - 1) = Owed(js, c, n)
         /\ Owed(js, c, 0) = Owed(Tail(js), c, 0) + One(Head(js), c)
<1> DEFINE t == Tail(js)
<1>1. /\ Len(js) \in Nat \ {0} /\ DOMAIN js = 1 .. Len(js) /\ Head(js) = js[1]
      /\ DOMAIN t = 1 .. Len(js) - 1 /\ \A i \in 1 .. Len(js) - 1 : t[i] = js[i + 1]
      /\ t \in Seq(GoodJob)
  BY TailOf
<1> HIDE DEF t
<1>2. ASSUME NEW n \in 1 .. Len(js) PROVE Owed(t, c, n - 1) = Owed(js, c, n)
  <2> DEFINE S == Owing(js, c, n)
             T == Owing(t, c, n - 1)
             f == [i \in S |-> i - 1]
  <2>1. S \subseteq 1 .. Len(js) /\ T \subseteq 1 .. Len(js) - 1
    BY <1>1 DEF Owing
  <2>2. ASSUME NEW i \in S PROVE i - 1 \in T
    <3>1. i \in 1 .. Len(js) /\ i > n /\ Counts(js[i], c)
      BY <1>1 DEF Owing
    <3>2. i - 1 \in 1 .. Len(js) - 1 /\ i - 1 > n - 1 /\ (i - 1) + 1 = i
      BY <1>1, <1>2, <3>1
    <3>3. t[i - 1] = js[i]
      BY <1>1, <3>2
    <3> QED BY <1>1, <3>1, <3>2, <3>3 DEF Owing
  <2>3. \A i \in T : i + 1 \in S /\ (i + 1) - 1 = i
    BY <1>1, <1>2 DEF Owing
  <2> HIDE DEF S, T
  <2>4. \A i, k \in S : i - 1 = k - 1 => i = k
    BY <1>1, <2>1
  <2>5. f \in Bijection(S, T)
    <3>1. f \in [S -> T] /\ \A i, k \in S : f[i] = f[k] => i = k
      BY <2>2, <2>4
    <3>2. \A k \in T : \E i \in S : f[i] = k
      BY <2>3
    <3> QED BY <3>1, <3>2 DEF Bijection, Injection, Surjection, IsInjective
  <2>6. IsFiniteSet(S)
    BY OwingFinite DEF S
  <2>7. Cardinality(T) = Cardinality(S)
    BY <2>5, <2>6, FS_Bijection DEF ExistsBijection
  <2> QED BY <2>7 DEF S, T, Owed
<1>3. Owed(t, c, 0) = Owed(js, c, 1)
  BY <1>1, <1>2, 1 - 1 = 0
<1>4. Owed(js, c, 0) = Owed(js, c, 1) + One(Head(js), c)
  <2> DEFINE S == Owing(js, c, 1)
  <2>1. IsFiniteSet(S) /\ 1 \notin S
    <3>1. IsFiniteSet(S)
      BY OwingFinite
    <3> QED BY <3>1 DEF Owing
  <2>2. CASE Counts(Head(js), c)
    <3>1. Owing(js, c, 0) = S \cup {1}
      BY <1>1, <2>2 DEF Owing
    <3> HIDE DEF S
    <3>2. Cardinality(S \cup {1}) = Cardinality(S) + 1
      BY <2>1, FS_AddElement
    <3> QED BY <2>2, <3>1, <3>2 DEF Owed, One, S
  <2>3. CASE ~Counts(Head(js), c)
    <3>1. Owing(js, c, 0) = S
      BY <1>1, <2>3 DEF Owing
    <3> QED BY <2>3, <3>1, OwingFinite DEF Owed, One
  <2> QED BY <2>2, <2>3
<1> QED BY <1>2, <1>3, <1>4 DEF t

LEMMA OwedAppend ==
  ASSUME NEW t \in Seq(GoodJob), NEW k \in GoodJob, NEW c
  PROVE  /\ \A n \in 0 .. Len(t) : Owed(Append(t, k), c, n) = Owed(t, c, n) + One(k, c)
         /\ Owed(Append(t, k), c, Len(t) + 1) = 0
<1> DEFINE s == Append(t, k)
           l == Len(t)
<1>1. /\ l \in Nat /\ DOMAIN t = 1 .. l /\ DOMAIN s = 1 .. l + 1 /\ s[l + 1] = k
      /\ \A i \in 1 .. l : s[i] = t[i]
  OBVIOUS
<1> HIDE DEF s, l
<1>2. ASSUME NEW n \in 0 .. l PROVE Owed(s, c, n) = Owed(t, c, n) + One(k, c)
  <2> DEFINE S == Owing(t, c, n)
  <2>1. IsFiniteSet(S) /\ l + 1 \notin S
    <3>1. IsFiniteSet(S)
      BY OwingFinite
    <3> QED BY <1>1, <3>1 DEF Owing
  <2>2. CASE Counts(k, c)
    <3>1. Owing(s, c, n) = S \cup {l + 1}
      BY <1>1, <1>2, <2>2 DEF Owing
    <3> HIDE DEF S
    <3>2. Cardinality(S \cup {l + 1}) = Cardinality(S) + 1
      BY <2>1, FS_AddElement
    <3> QED BY <2>2, <3>1, <3>2 DEF Owed, One, S
  <2>3. CASE ~Counts(k, c)
    <3>1. Owing(s, c, n) = S
      BY <1>1, <2>3 DEF Owing
    <3> QED BY <2>3, <3>1, OwingFinite DEF Owed, One
  <2> QED BY <2>2, <2>3
<1>3. Owing(s, c, l + 1) = {}
  BY <1>1 DEF Owing
<1> QED BY <1>2, <1>3, FS_EmptySet DEF Owed, s, l

LEMMA OwedFirst ==
  ASSUME NEW js \in Seq(GoodJob), NEW c, ~Counts(Head(js), c)
  PROVE  Owed(js, c, 0) = Owed(js, c, 1)
<1>1. DOMAIN js = 1 .. Len(js) /\ Len(js) \in Nat /\ Head(js) = js[1]
  OBVIOUS
<1>2. Owing(js, c, 0) = Owing(js, c, 1)
  BY <1>1 DEF Owing
<1> QED BY <1>2 DEF Owed

(* What the main thread submits has inserted nothing yet. *)
LEMMA OwedSubmitted ==
  ASSUME NEW js \in Seq(GoodJob), NEW new \in Seq(GoodJob), NEW c, NEW n \in Nat,
         \A i \in DOMAIN new : new[i].step = 1
  PROVE  Owed(js \o new, c, n) = Owed(js, c, n)
<1>1. /\ DOMAIN js = 1 .. Len(js) /\ Len(js) \in Nat /\ DOMAIN new = 1 .. Len(new) /\ Len(new) \in Nat
      /\ DOMAIN (js \o new) = 1 .. Len(js) + Len(new)
      /\ \A i \in 1 .. Len(js) : (js \o new)[i] = js[i]
      /\ \A i \in Len(js) + 1 .. Len(js) + Len(new) :
            i - Len(js) \in DOMAIN new /\ (js \o new)[i] = new[i - Len(js)]
  OBVIOUS
<1>2. \A i \in Len(js) + 1 .. Len(js) + Len(new) : ~Counts((js \o new)[i], c)
  BY <1>1 DEF Counts
<1>3. Owing(js \o new, c, n) = Owing(js, c, n)
  BY <1>1, <1>2 DEF Owing
<1> QED BY <1>3 DEF Owed

(* One statement: the first operation is done, or goes behind the others.   *)
Turns(js, js2, c, n, o) ==
    /\ n \in Nat \ {0} /\ DOMAIN js = 1 .. n /\ Head(js) = js[1]
    /\ \A i \in 1 .. n - 1 : i \in DOMAIN js2 /\ js2[i] = js[i + 1]
                             /\ Owed(js2, c, i) = Owed(js, c, i + 1) + o
    /\ Owed(js2, c, 0) + One(Head(js), c) = Owed(js, c, 0) + o
    /\ \A i : Owed(js, c, i) \in Nat /\ Owed(js2, c, i) \in Nat

LEMMA TurnDone ==
  ASSUME NEW js \in Seq(GoodJob), js # <<>>, NEW c
  PROVE  Turns(js, Tail(js), c, Len(js), 0) /\ DOMAIN Tail(js) = 1 .. Len(js) - 1
<1> DEFINE t == Tail(js)
<1>1. /\ Len(js) \in Nat \ {0} /\ DOMAIN js = 1 .. Len(js) /\ Head(js) = js[1]
      /\ DOMAIN t = 1 .. Len(js) - 1 /\ \A i \in 1 .. Len(js) - 1 : t[i] = js[i + 1]
      /\ t \in Seq(GoodJob)
  BY TailOf
<1>2. \A i : Owed(js, c, i) \in Nat /\ Owed(t, c, i) \in Nat
  BY <1>1, OwingFinite
<1>3. /\ \A i \in 1 .. Len(js) - 1 : Owed(t, c, i) = Owed(js, c, i + 1)
      /\ Owed(js, c, 0) = Owed(t, c, 0) + One(Head(js), c)
  <2>1. /\ \A i \in 1 .. Len(js) : Owed(t, c, i - 1) = Owed(js, c, i)
        /\ Owed(js, c, 0) = Owed(t, c, 0) + One(Head(js), c)
    BY OwedTail
  <2>2. ASSUME NEW i \in 1 .. Len(js) - 1 PROVE Owed(t, c, i) = Owed(js, c, i + 1)
    <3>1. i + 1 \in 1 .. Len(js) /\ (i + 1) - 1 = i
      BY <1>1
    <3>2. Owed(t, c, (i + 1) - 1) = Owed(js, c, i + 1)
      BY <2>1, <3>1
    <3> QED BY <3>1, <3>2
  <2> QED BY <2>1, <2>2
<1>4. One(Head(js), c) \in Nat
  BY DEF One
<1> HIDE DEF t
<1> QED BY <1>1, <1>2, <1>3, <1>4 DEF Turns, t

LEMMA TurnBehind ==
  ASSUME NEW js \in Seq(GoodJob), js # <<>>, NEW c, NEW k \in GoodJob, NEW js2,
         js2 = Append(Tail(js), k)
  PROVE  /\ Turns(js, js2, c, Len(js), One(k, c))
         /\ DOMAIN js2 = 1 .. Len(js) /\ js2[Len(js)] = k /\ Owed(js2, c, Len(js)) = 0
<1> DEFINE t == Tail(js)
           n == Len(js)
<1>1. /\ Turns(js, t, c, n, 0) /\ n \in Nat \ {0} /\ t \in Seq(GoodJob) /\ Len(t) = n - 1
      /\ js2 = Append(t, k)
  BY TurnDone, TailOf
<1>2. /\ DOMAIN js2 = 1 .. n /\ js2[n] = k /\ \A i \in 1 .. n - 1 : js2[i] = js[i + 1]
      /\ js2 \in Seq(GoodJob)
  <2>1. js2 \in Seq(GoodJob)
    BY <1>1
  <2> QED BY <2>1, TurnOf
<1>3. One(k, c) \in Nat /\ One(Head(js), c) \in Nat
  BY DEF One
<1>4. \A i : Owed(js2, c, i) \in Nat
  BY <1>2, OwingFinite
<1> HIDE DEF t, n
<1>5. /\ \A i \in 0 .. n - 1 : Owed(js2, c, i) = Owed(t, c, i) + One(k, c)
      /\ Owed(js2, c, n) = 0
  <2>1. /\ \A i \in 0 .. Len(t) : Owed(Append(t, k), c, i) = Owed(t, c, i) + One(k, c)
        /\ Owed(Append(t, k), c, Len(t) + 1) = 0
    BY <1>1, OwedAppend
  <2>2. Len(t) + 1 = n
    BY <1>1
  <2> QED BY <1>1, <2>1, <2>2
<1>6. \A i \in 1 .. n - 1 : Owed(js2, c, i) = Owed(js, c, i + 1) + One(k, c)
  <2>1. \A i \in 1 .. n - 1 : i \in 0 .. n - 1 /\ Owed(t, c, i) = Owed(js, c, i + 1)
    BY <1>1 DEF Turns
  <2> QED BY <1>5, <2>1
<1>7. Owed(js2, c, 0) + One(Head(js), c) = Owed(js, c, 0) + One(k, c)
  <2>1. 0 \in 0 .. n - 1 /\ Owed(t, c, 0) + One(Head(js), c) = Owed(js, c, 0)
    BY <1>1 DEF Turns
  <2>2. Owed(js2, c, 0) = Owed(t, c, 0) + One(k, c) /\ Owed(t, c, 0) \in Nat
    BY <1>1, <1>5, <2>1 DEF Turns
  <2> QED BY <1>3, <2>1, <2>2
<1>8. n \in Nat \ {0} /\ DOMAIN js = 1 .. n /\ Head(js) = js[1] /\ \A i : Owed(js, c, i) \in Nat
  BY <1>1 DEF Turns
<1>9. \A i \in 1 .. n - 1 : i \in DOMAIN js2
  BY <1>2, <1>8
<1>10. Turns(js, js2, c, n, One(k, c))
  BY <1>2, <1>4, <1>6, <1>7, <1>8, <1>9 DEF Turns
<1> QED BY <1>2, <1>5, <1>10 DEF n

(* Its conversation's total stays owed the same. *)
TurnedTo(js, js2, k) == js2 = Append(Tail(js), k) /\ k \in GoodJob

LEMMA TallyTypes ==
  ASSUME NEW d \in Database, NEW c \in Convs, NEW j \in GoodJob
  PROVE  d.total[c] \in Nat /\ Len(d.msgs[c]) \in Nat /\ j.count \in Nat /\ j.step \in Nat
BY DEF Database, GoodJob, Job

Neither(j, c) == ~Counts(j, c) /\ ~Copying(j, c)

LEMMA TallyPlain ==
  ASSUME NEW d \in Database, NEW d2 \in Database, NEW js \in Seq(GoodJob), js # <<>>, NEW js2,
         NEW c \in Convs, c \in d.convs, c \in d2.convs, d2.total[c] = d.total[c], d2.msgs[c] = d.msgs[c],
         Neither(Head(js), c), Tally(d, js, c),
         js2 = Tail(js) \/ \E k : TurnedTo(js, js2, k) /\ Neither(k, c)
  PROVE  Tally(d2, js2, c)
<1> DEFINE n == Len(js)
<1>1. /\ Turns(js, js2, c, n, 0)
      /\ \A i \in DOMAIN js2 : i \in 1 .. n - 1 \/ Neither(js2[i], c)
  <2>1. CASE js2 = Tail(js)
    BY <2>1, TurnDone
  <2>2. ASSUME NEW k, TurnedTo(js, js2, k), Neither(k, c)
        PROVE  /\ Turns(js, js2, c, n, 0)
               /\ \A i \in DOMAIN js2 : i \in 1 .. n - 1 \/ Neither(js2[i], c)
    <3>1. One(k, c) = 0
      BY <2>2 DEF One, Neither
    <3>2. Turns(js, js2, c, n, 0) /\ DOMAIN js2 = 1 .. n /\ js2[n] = k
      BY <2>2, <3>1, TurnBehind DEF TurnedTo
    <3>3. \A i \in 1 .. n : i \in 1 .. n - 1 \/ i = n
      BY TailOf
    <3> HIDE DEF n
    <3> QED BY <2>2, <3>2, <3>3
  <2> QED BY <2>1, <2>2
<1> HIDE DEF n
<1>2. /\ n \in Nat \ {0} /\ DOMAIN js = 1 .. n /\ Head(js) = js[1]
      /\ \A i \in 1 .. n - 1 : i + 1 \in DOMAIN js /\ i \in DOMAIN js2 /\ js2[i] = js[i + 1]
                               /\ Owed(js2, c, i) = Owed(js, c, i + 1)
      /\ Owed(js2, c, 0) = Owed(js, c, 0)
  <2>1. One(Head(js), c) = 0
    BY DEF One, Neither
  <2> QED BY <1>1, <2>1 DEF Turns
<1>3. \A i \in DOMAIN js2 : Copying(js2[i], c) => i \in 1 .. n - 1
  BY <1>1 DEF Neither
<1>4. Read(d2, js2, c) /\ Sum(d2, js2, c) /\ Single(js2, c)
  <2>1. Read(d, js, c) /\ Sum(d, js, c) /\ Single(js, c)
    BY DEF Tally
  <2>2. Read(d2, js2, c)
    BY <1>2, <1>3, <2>1 DEF Read
  <2>3. (\A i \in DOMAIN js2 : ~Copying(js2[i], c)) => \A i \in DOMAIN js : ~Copying(js[i], c)
    <3>1. \A i \in DOMAIN js : i # 1 => i - 1 \in 1 .. n - 1 /\ (i - 1) + 1 = i
      BY <1>2
    <3> QED BY <1>2, <3>1 DEF Neither
  <2>4. Single(js2, c)
    <3>1. \A i, k \in 1 .. n - 1 : i + 1 = k + 1 => i = k
      BY <1>2
    <3> SUFFICES ASSUME NEW i \in DOMAIN js2, NEW k \in DOMAIN js2,
                        Copying(js2[i], c), Copying(js2[k], c)
                 PROVE  i = k
      BY DEF Single
    <3>2. i \in 1 .. n - 1 /\ k \in 1 .. n - 1
      BY <1>3
    <3>3. i + 1 \in DOMAIN js /\ k + 1 \in DOMAIN js /\ js2[i] = js[i + 1] /\ js2[k] = js[k + 1]
      BY <1>2, <3>2
    <3>4. i + 1 = k + 1
      BY <2>1, <3>3 DEF Single
    <3> QED BY <3>1, <3>2, <3>4
  <2> QED BY <1>2, <2>1, <2>2, <2>3, <2>4 DEF Sum
<1> QED BY <1>4 DEF Tally

(* The operation goes behind the others as k. *)
Follow(js, js2, c, k, n) ==
    /\ n \in DOMAIN js2 /\ js2[n] = k /\ Owed(js2, c, n) = 0
    /\ 1 \in DOMAIN js /\ Head(js) = js[1]
    /\ \A i \in DOMAIN js2 : i # n =>
           /\ i + 1 \in DOMAIN js /\ i + 1 # 1 /\ js2[i] = js[i + 1]
           /\ Owed(js2, c, i) = Owed(js, c, i + 1) + One(k, c)
    /\ \A i \in DOMAIN js : i # 1 => i - 1 \in DOMAIN js2 /\ i - 1 # n /\ js2[i - 1] = js[i]
    /\ \A i, j \in DOMAIN js2 : i + 1 = j + 1 => i = j
    /\ Owed(js2, c, 0) + One(Head(js), c) = Owed(js, c, 0) + One(k, c)
    /\ \A i : Owed(js, c, i) \in Nat /\ Owed(js2, c, i) \in Nat

LEMMA TurnFacts ==
  ASSUME NEW js \in Seq(GoodJob), js # <<>>, NEW c, NEW k, NEW js2, TurnedTo(js, js2, k)
  PROVE  Follow(js, js2, c, k, Len(js))
<1> DEFINE n == Len(js)
<1>1. /\ Turns(js, js2, c, n, One(k, c))
      /\ DOMAIN js2 = 1 .. n /\ js2[n] = k /\ Owed(js2, c, n) = 0
  BY TurnBehind DEF TurnedTo
<1> HIDE DEF n
<1>2. n \in Nat \ {0} /\ DOMAIN js = 1 .. n
  BY <1>1 DEF Turns
<1>3. \A i \in 1 .. n : i = n \/ (i \in 1 .. n - 1 /\ i + 1 \in 1 .. n /\ i + 1 # 1)
  BY <1>2
<1>4. \A i \in 1 .. n : i = 1 \/ (i - 1 \in 1 .. n - 1 /\ i - 1 # n /\ (i - 1) + 1 = i)
  BY <1>2
<1>5. \A i, j \in 1 .. n : i + 1 = j + 1 => i = j
  BY <1>2
<1>6. 1 \in 1 .. n /\ n \in 1 .. n
  BY <1>2
<1>7. \A i \in 1 .. n - 1 : /\ i \in DOMAIN js2 /\ js2[i] = js[i + 1]
                            /\ Owed(js2, c, i) = Owed(js, c, i + 1) + One(k, c)
  BY <1>1 DEF Turns
<1>8. \A i \in 1 .. n : i = 1 \/ (i - 1 \in 1 .. n /\ i - 1 # n /\ js2[i - 1] = js[i])
  <2> SUFFICES ASSUME NEW i \in 1 .. n, i # 1
               PROVE  i - 1 \in 1 .. n /\ i - 1 # n /\ js2[i - 1] = js[i]
    OBVIOUS
  <2>1. i - 1 \in 1 .. n - 1 /\ i - 1 # n /\ (i - 1) + 1 = i
    BY <1>4
  <2>2. js2[i - 1] = js[(i - 1) + 1]
    BY <1>7, <2>1
  <2> QED BY <1>1, <1>7, <2>1, <2>2
<1>9. /\ Owed(js2, c, 0) + One(Head(js), c) = Owed(js, c, 0) + One(k, c) /\ Head(js) = js[1]
      /\ \A i : Owed(js, c, i) \in Nat /\ Owed(js2, c, i) \in Nat
  BY <1>1 DEF Turns
<1>10. ASSUME NEW i \in 1 .. n, i # n
       PROVE  /\ i + 1 \in 1 .. n /\ i + 1 # 1 /\ js2[i] = js[i + 1]
              /\ Owed(js2, c, i) = Owed(js, c, i + 1) + One(k, c)
  BY <1>3, <1>7, <1>10
<1>11. DOMAIN js2 = 1 .. n /\ js2[n] = k /\ Owed(js2, c, n) = 0
  BY <1>1
<1>12. /\ \A i \in DOMAIN js2 : i # n =>
             /\ i + 1 \in DOMAIN js /\ i + 1 # 1 /\ js2[i] = js[i + 1]
             /\ Owed(js2, c, i) = Owed(js, c, i + 1) + One(k, c)
       /\ \A i \in DOMAIN js : i # 1 => i - 1 \in DOMAIN js2 /\ i - 1 # n /\ js2[i - 1] = js[i]
       /\ \A i, j \in DOMAIN js2 : i + 1 = j + 1 => i = j
       /\ n \in DOMAIN js2 /\ 1 \in DOMAIN js
  BY <1>2, <1>5, <1>6, <1>8, <1>10, <1>11
<1>13. Follow(js, js2, c, k, n)
  BY <1>9, <1>11, <1>12 DEF Follow
<1> QED BY <1>13 DEF n

(* A message of c is inserted, then counted. *)
LEMMA TallyAdded ==
  ASSUME NEW d \in Database, NEW d2 \in Database, NEW js \in Seq(GoodJob), js # <<>>, NEW js2,
         NEW c \in Convs, c \in d.convs, c \in d2.convs, NEW k, TurnedTo(js, js2, k),
         ~Copying(Head(js), c), ~Copying(k, c), Tally(d, js, c),
         \A i \in DOMAIN js : Copying(js[i], c) /\ js[i].step = 8 => ~Counts(k, c),
         \/ /\ ~Counts(Head(js), c) /\ Counts(k, c)
            /\ d2.total[c] = d.total[c] /\ Len(d2.msgs[c]) = Len(d.msgs[c]) + 1
         \/ /\ Counts(Head(js), c) /\ ~Counts(k, c)
            /\ d2.total[c] = d.total[c] + 1 /\ d2.msgs[c] = d.msgs[c]
  PROVE  Tally(d2, js2, c)
<1> DEFINE n == Len(js)
           o == One(k, c)
           h == One(Head(js), c)
<1>1. Follow(js, js2, c, k, n)
  BY TurnFacts
<1>2. /\ d.total[c] \in Nat /\ Len(d.msgs[c]) \in Nat
      /\ \A i \in DOMAIN js : js[i].count \in Nat
  BY TallyTypes
<1>3. /\ o \in Nat /\ h \in Nat
      /\ Len(d2.msgs[c]) = Len(d.msgs[c]) + o /\ d2.total[c] = d.total[c] + h
  <2>1. CASE ~Counts(Head(js), c)
    <3>1. o = 1 /\ h = 0
      BY <2>1 DEF One
    <3> HIDE DEF o, h
    <3> QED BY <1>2, <2>1, <3>1
  <2>2. CASE Counts(Head(js), c)
    <3>1. o = 0 /\ h = 1
      BY <2>2 DEF One
    <3> HIDE DEF o, h
    <3> QED BY <1>2, <2>2, <3>1
  <2> QED BY <2>1, <2>2
<1> HIDE DEF n
<1>4. Read(d, js, c) /\ Sum(d, js, c) /\ Single(js, c)
  BY DEF Tally
<1>5. \A i \in DOMAIN js2 : Copying(js2[i], c) => i # n
  BY <1>1 DEF Follow
<1>6. Read(d2, js2, c)
  <2>6. ASSUME NEW i \in DOMAIN js2, Copying(js2[i], c), js2[i].step = 8
        PROVE  js2[i].count = Len(d2.msgs[c])
    <3>1. i + 1 \in DOMAIN js /\ js2[i] = js[i + 1]
      BY <1>1, <1>5, <2>6 DEF Follow
    <3>2. js2[i].count = Len(d.msgs[c]) /\ ~Counts(k, c)
      BY <1>4, <2>6, <3>1 DEF Read
    <3> QED BY <3>2
  <2> SUFFICES ASSUME NEW i \in DOMAIN js2, Copying(js2[i], c), js2[i].step = 9
               PROVE  js2[i].count + Owed(js2, c, i) = Len(d2.msgs[c])
    BY <2>6 DEF Read
  <2>1. /\ i + 1 \in DOMAIN js /\ js2[i] = js[i + 1]
        /\ Owed(js2, c, i) = Owed(js, c, i + 1) + o
    BY <1>1, <1>5 DEF Follow
  <2>2. Owed(js, c, i + 1) \in Nat
    BY <1>1 DEF Follow
  <2>3. js[i + 1].count + Owed(js, c, i + 1) = Len(d.msgs[c])
    <3>1. Copying(js[i + 1], c) /\ js[i + 1].step = 9
      BY <2>1
    <3> QED BY <1>4, <2>1, <3>1 DEF Read
  <2> HIDE DEF o, h
  <2>4. js[i + 1].count \in Nat
    BY <1>2, <2>1
  <2>5. js[i + 1].count + (Owed(js, c, i + 1) + o) = Len(d.msgs[c]) + o
    <3>1. o \in Nat
      BY <1>3
    <3>2. Len(d.msgs[c]) \in Nat
      BY <1>2
    <3> DEFINE a == js[i + 1].count
               w == Owed(js, c, i + 1)
               l == Len(d.msgs[c])
    <3>3. a \in Nat /\ w \in Nat /\ l \in Nat /\ a + w = l
      BY <2>2, <2>3, <2>4, <3>2
    <3> HIDE DEF a, w, l
    <3>4. a + (w + o) = l + o
      BY <3>1, <3>3
    <3> QED BY <3>4 DEF a, w, l
  <2> QED BY <1>3, <2>1, <2>5
<1>7. Sum(d2, js2, c)
  <2> SUFFICES ASSUME \A i \in DOMAIN js2 : ~Copying(js2[i], c)
               PROVE  d2.total[c] + Owed(js2, c, 0) = Len(d2.msgs[c])
    BY DEF Sum
  <2>1. \A i \in DOMAIN js : ~Copying(js[i], c)
    BY <1>1 DEF Follow
  <2>2. d.total[c] + Owed(js, c, 0) = Len(d.msgs[c])
    BY <1>4, <2>1 DEF Sum
  <2>3. /\ Owed(js2, c, 0) + h = Owed(js, c, 0) + o
        /\ Owed(js, c, 0) \in Nat /\ Owed(js2, c, 0) \in Nat
    BY <1>1 DEF Follow
  <2> HIDE DEF o, h
  <2>4. (d.total[c] + h) + Owed(js2, c, 0) = Len(d.msgs[c]) + o
    <3>1. o \in Nat /\ h \in Nat
      BY <1>3
    <3>2. Len(d.msgs[c]) \in Nat /\ d.total[c] \in Nat
      BY <1>2
    <3> DEFINE a == d.total[c]
               w == Owed(js, c, 0)
               v == Owed(js2, c, 0)
               l == Len(d.msgs[c])
    <3>3. a \in Nat /\ w \in Nat /\ v \in Nat /\ l \in Nat /\ a + w = l /\ v + h = w + o
      BY <2>2, <2>3, <3>2
    <3> HIDE DEF a, w, v, l
    <3>4. (a + h) + v = l + o
      BY <3>1, <3>3
    <3> QED BY <3>4 DEF a, w, v, l
  <2> QED BY <1>3, <2>4
<1>8. Single(js2, c)
  BY <1>1, <1>4, <1>5 DEF Single, Follow
<1> QED BY <1>6, <1>7, <1>8 DEF Tally

(* The copy c gets its messages, and the number read of them.                *)
LEMMA TallyCopied ==
  ASSUME NEW d, NEW d2, NEW js \in Seq(GoodJob), js # <<>>, NEW js2,
         NEW c \in Convs, c \in d.convs, c \in d2.convs, NEW k, TurnedTo(js, js2, k),
         Copying(Head(js), c), Copying(k, c), Tally(d, js, c),
         k.step \in {8, 9} => k.count \in Nat /\ k.count = Len(d2.msgs[c])
  PROVE  Tally(d2, js2, c)
<1> DEFINE n == Len(js)
<1>1. Follow(js, js2, c, k, n)
  BY TurnFacts
<1> HIDE DEF n
<1>2. \A i \in DOMAIN js2 : Copying(js2[i], c) => i = n
  BY <1>1 DEF Follow, Tally, Single
<1>3. Read(d2, js2, c)
  BY <1>1, <1>2 DEF Follow, Read
<1>4. Sum(d2, js2, c)
  BY <1>1 DEF Follow, Sum
<1> QED BY <1>2, <1>3, <1>4 DEF Tally, Single

(* Its total is set. *)
LEMMA TallySet ==
  ASSUME NEW d, NEW d2, NEW js \in Seq(GoodJob), js # <<>>, NEW js2,
         NEW c \in Convs, c \in d.convs, c \in d2.convs, NEW k, TurnedTo(js, js2, k),
         Copying(Head(js), c), Head(js).step = 9, Neither(k, c), Tally(d, js, c),
         d2.total[c] = Head(js).count, d2.msgs[c] = d.msgs[c]
  PROVE  Tally(d2, js2, c)
<1> DEFINE n == Len(js)
<1>1. Follow(js, js2, c, k, n)
  BY TurnFacts
<1> HIDE DEF n
<1>2. One(Head(js), c) = 0 /\ One(k, c) = 0 /\ ~Counts(Head(js), c)
  BY DEF One, Copying, Counts, Neither
<1>3. Owed(js2, c, 0) = Owed(js, c, 1)
  <2>1. Owed(js, c, 0) = Owed(js, c, 1)
    BY <1>2, OwedFirst
  <2> QED BY <1>1, <1>2, <2>1 DEF Follow
<1>4. \A i \in DOMAIN js2 : ~Copying(js2[i], c)
  BY <1>1 DEF Follow, Tally, Single, Neither
<1>5. Head(js).count + Owed(js, c, 1) = Len(d.msgs[c])
  BY <1>1 DEF Follow, Tally, Read
<1> QED BY <1>3, <1>4, <1>5 DEF Tally, Read, Sum, Single

(* The conversation c is created, by a duplication or not. *)
LEMMA TallyNew ==
  ASSUME NEW d, NEW d2, NEW js \in Seq(GoodJob), js # <<>>, NEW js2,
         NEW c \in Convs, c \notin d.convs, c \in d2.convs, NEW k, TurnedTo(js, js2, k),
         \A i \in DOMAIN js : Neither(js[i], c), ~Counts(k, c), Copying(k, c) => k.step \notin {8, 9},
         d2.total[c] = d.total[c], d2.msgs[c] = d.msgs[c], Tally(d, js, c)
  PROVE  Tally(d2, js2, c)
<1> DEFINE n == Len(js)
<1>1. Follow(js, js2, c, k, n)
  BY TurnFacts
<1> HIDE DEF n
<1>2. d2.total[c] = 0 /\ Len(d2.msgs[c]) = 0
  BY DEF Tally
<1>3. Owed(js2, c, 0) = 0
  <2>1. Owing(js, c, 0) = {}
    BY DEF Owing, Neither
  <2>2. Owed(js, c, 0) = 0
    BY <2>1, FS_EmptySet DEF Owed
  <2>3. One(k, c) = 0 /\ One(Head(js), c) = 0
    BY <1>1 DEF One, Follow, Neither
  <2> QED BY <1>1, <2>2, <2>3 DEF Follow
<1>4. \A i \in DOMAIN js2 : Copying(js2[i], c) => i = n
  BY <1>1 DEF Follow, Neither
<1>5. Read(d2, js2, c)
  BY <1>1, <1>4 DEF Read, Follow
<1>6. Sum(d2, js2, c)
  BY <1>2, <1>3 DEF Sum
<1> QED BY <1>4, <1>5, <1>6 DEF Tally, Single

LEMMA CopyingStep == ASSUME NEW j, NEW c, Copying(j, c) PROVE j.step # 1
BY DEF Copying

LEMMA TallySubmitted ==
  ASSUME NEW d, NEW js \in Seq(GoodJob), NEW new \in Seq(GoodJob), NEW js2, js2 = js \o new,
         \A i \in DOMAIN new : new[i].step = 1, NEW c, Tally(d, js, c)
  PROVE  Tally(d, js2, c)
<1>1. /\ DOMAIN js = 1 .. Len(js) /\ Len(js) \in Nat /\ DOMAIN new = 1 .. Len(new) /\ Len(new) \in Nat
      /\ DOMAIN js2 = 1 .. Len(js) + Len(new)
      /\ \A i \in 1 .. Len(js) : js2[i] = js[i]
      /\ \A i \in Len(js) + 1 .. Len(js) + Len(new) :
            i - Len(js) \in DOMAIN new /\ js2[i] = new[i - Len(js)]
  OBVIOUS
<1>2. \A i \in DOMAIN js2 : Copying(js2[i], c) => i \in DOMAIN js /\ js2[i] = js[i]
  <2> SUFFICES ASSUME NEW i \in DOMAIN js2, Copying(js2[i], c)
               PROVE  i \in DOMAIN js /\ js2[i] = js[i]
    OBVIOUS
  <2>1. js2[i].step # 1
    BY CopyingStep
  <2>2. i \in 1 .. Len(js) \/ i \in Len(js) + 1 .. Len(js) + Len(new)
    BY <1>1
  <2> QED BY <1>1, <2>1, <2>2
<1>3. \A i \in DOMAIN js : i \in Nat /\ i \in DOMAIN js2 /\ js2[i] = js[i]
  BY <1>1
<1>4. \A i \in Nat : Owed(js2, c, i) = Owed(js, c, i)
  BY OwedSubmitted
<1>5. Read(d, js, c) => Read(d, js2, c)
  BY <1>2, <1>3, <1>4 DEF Read
<1>6. Sum(d, js, c) => Sum(d, js2, c)
  BY <1>3, <1>4 DEF Sum
<1>7. Single(js, c) => Single(js2, c)
  BY <1>2 DEF Single
<1> QED BY <1>5, <1>6, <1>7 DEF Tally

(* What statements do to c's total and messages. *)
SameAt(d, d2, c) ==
    (c \in d2.convs <=> c \in d.convs) /\ d2.total[c] = d.total[c] /\ d2.msgs[c] = d.msgs[c]

LEMMA TotalStatements ==
  ASSUME NEW d \in Database, NEW c \in Convs, NEW x
  PROVE  /\ SameAt(d, Archive(d, x), c)
         /\ c # x => /\ SameAt(d, InsertConversation(d, x), c)
                     /\ SameAt(d, CountMessage(d, x), c)
                     /\ SameAt(d, DeleteConversation(d, x), c)
                     /\ \A n : SameAt(d, SetTotal(d, x, n), c)
                     /\ \A m : SameAt(d, InsertMessage(d, x, m), c)
         /\ c \notin d.convs => /\ SameAt(d, CountMessage(d, c), c)
                                /\ \A n : SameAt(d, SetTotal(d, c, n), c)
<1>1. d.total \in [Convs -> Nat] /\ d.msgs \in [Convs -> Seq(Message)]
  BY DEF Database
<1> QED BY <1>1 DEF SameAt, Database, Archive, InsertConversation, CountMessage, DeleteConversation,
           SetTotal, InsertMessage

LEMMA TotalChanges ==
  ASSUME NEW d \in Database, NEW c \in Convs
  PROVE  /\ LET e == InsertConversation(d, c) IN
               c \in e.convs /\ e.total[c] = d.total[c] /\ e.msgs[c] = d.msgs[c]
         /\ LET e == DeleteConversation(d, c) IN
               c \notin e.convs /\ e.total[c] = 0 /\ e.msgs[c] = <<>>
         /\ c \in d.convs =>
               /\ LET e == CountMessage(d, c) IN
                     c \in e.convs /\ e.total[c] = d.total[c] + 1 /\ e.msgs[c] = d.msgs[c]
               /\ \A n : LET e == SetTotal(d, c, n) IN
                     c \in e.convs /\ e.total[c] = n /\ e.msgs[c] = d.msgs[c]
               /\ \A m : LET e == InsertMessage(d, c, m) IN
                     /\ c \in e.convs /\ e.total[c] = d.total[c]
                     /\ Len(e.msgs[c]) = Len(d.msgs[c]) + 1
<1>1. d.total \in [Convs -> Nat] /\ d.msgs \in [Convs -> Seq(Message)]
  BY DEF Database
<1>2. \A m : Len(Append(d.msgs[c], m)) = Len(d.msgs[c]) + 1
  BY <1>1
<1>3. /\ InsertConversation(d, c).convs = d.convs \cup {c}
      /\ InsertConversation(d, c).total = d.total /\ InsertConversation(d, c).msgs = d.msgs
  BY DEF Database, InsertConversation
<1>4. /\ DeleteConversation(d, c).convs = d.convs \ {c}
      /\ DeleteConversation(d, c).total = [d.total EXCEPT ![c] = 0]
      /\ DeleteConversation(d, c).msgs = [d.msgs EXCEPT ![c] = <<>>]
  BY DEF Database, DeleteConversation
<1>5. ASSUME c \in d.convs
      PROVE  /\ CountMessage(d, c).convs = d.convs /\ CountMessage(d, c).msgs = d.msgs
             /\ CountMessage(d, c).total = [d.total EXCEPT ![c] = d.total[c] + 1]
  BY <1>5 DEF Database, CountMessage
<1>6. ASSUME c \in d.convs, NEW n
      PROVE  /\ SetTotal(d, c, n).convs = d.convs /\ SetTotal(d, c, n).msgs = d.msgs
             /\ SetTotal(d, c, n).total = [d.total EXCEPT ![c] = n]
  BY <1>6 DEF Database, SetTotal
<1>7. ASSUME NEW m
      PROVE  /\ InsertMessage(d, c, m).convs = d.convs /\ InsertMessage(d, c, m).total = d.total
             /\ InsertMessage(d, c, m).msgs = [d.msgs EXCEPT ![c] = Append(d.msgs[c], m)]
  BY DEF Database, InsertMessage
<1>8. LET e == InsertConversation(d, c) IN
         c \in e.convs /\ e.total[c] = d.total[c] /\ e.msgs[c] = d.msgs[c]
  BY <1>3
<1>9. LET e == DeleteConversation(d, c) IN c \notin e.convs /\ e.total[c] = 0 /\ e.msgs[c] = <<>>
  BY <1>1, <1>4
<1>10. ASSUME c \in d.convs
       PROVE  LET e == CountMessage(d, c) IN
                 c \in e.convs /\ e.total[c] = d.total[c] + 1 /\ e.msgs[c] = d.msgs[c]
  BY <1>1, <1>5, <1>10
<1>11. ASSUME c \in d.convs, NEW n
       PROVE  LET e == SetTotal(d, c, n) IN
                 c \in e.convs /\ e.total[c] = n /\ e.msgs[c] = d.msgs[c]
  BY <1>1, <1>6, <1>11
<1>12. ASSUME c \in d.convs, NEW m
       PROVE  LET e == InsertMessage(d, c, m) IN
                 /\ c \in e.convs /\ e.total[c] = d.total[c]
                 /\ Len(e.msgs[c]) = Len(d.msgs[c]) + 1
  <2>1. InsertMessage(d, c, m).msgs[c] = Append(d.msgs[c], m)
    BY <1>1, <1>7
  <2> QED BY <1>2, <1>7, <1>12, <2>1
<1> QED BY <1>8, <1>9, <1>10, <1>11, <1>12

(* Conversations and copies are those drawn so far. *)
LEMMA TallyStart ==
  ASSUME Types, Types', Drawn, jobs # <<>>
  PROVE  /\ jobs \in Seq(GoodJob) /\ db \in Database /\ db' \in Database /\ ids \in Nat
         /\ Head(jobs) \in Job /\ Head(jobs).step \in Nat
         /\ db.convs \subseteq 1 .. ids
         /\ \A i \in DOMAIN jobs : jobs[i].conv # ids + 1 /\ jobs[i].copy # ids + 1
         /\ \A k : Continue(k) => TurnedTo(jobs, jobs', k)
         /\ CompleteQuietly \/ (\E s : Complete(s)) => jobs' = Tail(jobs)
<1>1. jobs \in Seq(GoodJob) /\ jobs' \in Seq(GoodJob)
  BY DEF Types, Queues
<1>2. Head(jobs) \in Job /\ Head(jobs).step \in Nat
  BY <1>1 DEF GoodJob, Job
<1>3. db \in Database /\ db' \in Database /\ ids \in Nat
  BY TypesSplit, TypesSplitNext, Constants DEF DbTypeOK
<1>4. ASSUME NEW i \in DOMAIN jobs PROVE jobs[i].conv # ids + 1 /\ jobs[i].copy # ids + 1
  <2>1. jobs[i] \in DrawnJob(ids) /\ jobs[i] \in Job
    BY DEF Drawn, DrawnQueues, DrawnJob, GoodJob
  <2>2. jobs[i].conv \in Nat /\ jobs[i].copy \in Nat /\ jobs[i].conv <= ids /\ jobs[i].copy <= ids
    BY <2>1, Constants DEF DrawnJob, Job
  <2> QED BY <1>3, <2>2
<1>5. ASSUME NEW k, Continue(k) PROVE TurnedTo(jobs, jobs', k)
  <2>1. jobs' = Append(Tail(jobs), k) /\ Tail(jobs) \in Seq(GoodJob)
    BY <1>1, <1>5 DEF Continue
  <2>2. Len(jobs') \in DOMAIN jobs' /\ jobs'[Len(jobs')] = k
    BY <1>1, <2>1, TurnOf
  <2>3. k \in GoodJob
    BY <1>1, <2>2
  <2> QED BY <2>1, <2>3 DEF TurnedTo
<1> QED BY <1>1, <1>2, <1>3, <1>4, <1>5 DEF Drawn, DrawnFile, CompleteQuietly, Complete

(* A statement that has nothing to do with c. *)
LEMMA TallyOther ==
  ASSUME Types, Types', Drawn, jobs # <<>>, NEW c \in Convs, Tally(db, jobs, c), SameAt(db, db', c),
         \/ c \notin db.convs
         \/ /\ Neither(Head(jobs), c)
            /\ \/ CompleteQuietly \/ \E s : Complete(s)
               \/ \E k : Continue(k) /\ Neither(k, c)
  PROVE  Tally(db', jobs', c)
<1>1. CASE c \notin db.convs
  BY <1>1 DEF SameAt, Tally
<1>2. CASE c \in db.convs
  <2>1. jobs' = Tail(jobs) \/ \E k : TurnedTo(jobs, jobs', k) /\ Neither(k, c)
    BY <1>2, TallyStart
  <2>2. /\ jobs \in Seq(GoodJob) /\ db \in Database /\ db' \in Database
        /\ c \in db'.convs /\ db'.total[c] = db.total[c] /\ db'.msgs[c] = db.msgs[c]
    BY <1>2, TallyStart DEF SameAt
  <2> QED BY <1>2, <2>1, <2>2, TallyPlain
<1> QED BY <1>1, <1>2

LEMMA TalliedNew ==
  ASSUME Types, Types', Drawn, jobs # <<>>, NEW c \in Convs, Tally(db, jobs, c), NEW k, Continue(k),
         c # ids + 1 => Neither(Head(jobs), c) /\ Neither(k, c),
         ~Counts(k, c), k.op = "duplicate" => k.step \notin {8, 9},
         db' = InsertConversation(db, ids + 1)
  PROVE  Tally(db', jobs', c)
<1>1. db \in Database
  BY TallyStart
<1>2. CASE c # ids + 1
  <2>1. SameAt(db, db', c)
    BY <1>1, <1>2, TotalStatements
  <2> QED BY <1>2, <2>1, TallyOther
<1>3. CASE c = ids + 1
  <2>1. /\ jobs \in Seq(GoodJob) /\ TurnedTo(jobs, jobs', k) /\ c \notin db.convs
        /\ \A i \in DOMAIN jobs : Neither(jobs[i], c)
    <3>1. ids + 1 \notin 1 .. ids
      BY TallyStart
    <3> QED BY <1>3, <3>1, TallyStart DEF Neither, Counts, Copying
  <2>2. c \in db'.convs /\ db'.total[c] = db.total[c] /\ db'.msgs[c] = db.msgs[c]
    BY <1>1, <1>3, TotalChanges
  <2>3. ~Counts(k, c) /\ (Copying(k, c) => k.step \notin {8, 9})
    BY DEF Copying
  <2> QED BY <2>1, <2>2, <2>3, TallyNew
<1> QED BY <1>2, <1>3

LEMMA TalliedOthers ==
  ASSUME Types, Types', Drawn, jobs # <<>>, NEW c \in Convs, Tally(db, jobs, c),
         \/ \E op \in {"create", "createSend"} : Create(op)
         \/ Load \/ List
         \/ Change("archive", Archive(db, Head(jobs).conv))
         \/ Change("delete", DeleteConversation(db, Head(jobs).conv))
  PROVE  Tally(db', jobs', c)
<1> DEFINE j == Head(jobs)
<1>1. db \in Database /\ j \in Job /\ j.step \in Nat
  BY TallyStart
<1>2. j.op \notin {"add", "duplicate"}
  BY DEF Create, Load, List, Change, At
<1>3. Neither(j, c)
  BY <1>2 DEF Neither, Counts, Copying
<1>4. ASSUME NEW k, k.op = j.op PROVE Neither(k, c)
  BY <1>2, <1>4 DEF Neither, Counts, Copying
<1>5. /\ Next1(j).op = j.op /\ \A n : [Next1(j) EXCEPT !.conv = n].op = j.op
      /\ \A r : [Next1(j) EXCEPT !.rows = r].op = j.op
      /\ \A s : [Next1(j) EXCEPT !.shown = s].op = j.op
  BY <1>1 DEF Next1, Job
<1> HIDE DEF j
<1>6. ASSUME SameAt(db, db', c),
             \/ \E s : Complete(s)
             \/ \E k : Continue(k) /\ k.op = j.op
      PROVE  Tally(db', jobs', c)
  <2>1. Neither(Head(jobs), c)
    BY <1>3 DEF j
  <2>2. (\E s : Complete(s)) \/ \E k : Continue(k) /\ Neither(k, c)
    BY <1>4, <1>6
  <2> QED BY <1>6, <2>1, <2>2, TallyOther
<1>7. ASSUME db' = db, (\E s : Complete(s)) \/ \E k : Continue(k) /\ k.op = j.op
      PROVE  Tally(db', jobs', c)
  BY <1>6, <1>7 DEF SameAt
<1>8. ASSUME NEW op \in {"create", "createSend"}, Create(op) PROVE Tally(db', jobs', c)
  <2>1. CASE At(op, 1)
    <3> DEFINE k == [Next1(j) EXCEPT !.conv = ids + 1]
    <3>1. Continue(k) /\ db' = InsertConversation(db, ids + 1)
      BY <1>8, <2>1 DEF Create, At, j
    <3>2. k.op = j.op
      BY <1>5
    <3> HIDE DEF k
    <3>3. Neither(k, c) /\ ~Counts(k, c) /\ k.op # "duplicate"
      BY <1>2, <1>4, <3>2 DEF Neither
    <3> QED BY <1>3, <3>1, <3>3, TalliedNew DEF j
  <2>2. CASE At(op, 2)
    <3>1. db' = db /\ \E s : Complete(s)
      BY <1>8, <2>2 DEF Create, At
    <3> QED BY <1>7, <3>1
  <2> QED BY <1>8, <2>1, <2>2 DEF Create
<1>9. CASE Load \/ List
  <2>1. /\ db' = db
        /\ \/ \E s : Complete(s)
           \/ \E r : Continue([Next1(j) EXCEPT !.rows = r])
           \/ \E s : Continue([Next1(j) EXCEPT !.shown = s])
    BY <1>9 DEF Load, List, dbVars, j
  <2>2. CASE \E s : Complete(s)
    BY <1>7, <2>1, <2>2
  <2>3. ASSUME NEW r, Continue([Next1(j) EXCEPT !.rows = r]) PROVE Tally(db', jobs', c)
    <3> DEFINE k == [Next1(j) EXCEPT !.rows = r]
    <3>1. Continue(k) /\ k.op = j.op
      BY <1>5, <2>3
    <3> HIDE DEF k
    <3> QED BY <1>7, <2>1, <3>1
  <2>4. ASSUME NEW s, Continue([Next1(j) EXCEPT !.shown = s]) PROVE Tally(db', jobs', c)
    <3> DEFINE k == [Next1(j) EXCEPT !.shown = s]
    <3>1. Continue(k) /\ k.op = j.op
      BY <1>5, <2>4
    <3> HIDE DEF k
    <3> QED BY <1>7, <2>1, <3>1
  <2> QED BY <2>1, <2>2, <2>3, <2>4
<1>10. ASSUME NEW op, NEW d, Change(op, d),
              SameAt(db, d, c) \/ (c \notin d.convs /\ d.total[c] = 0 /\ d.msgs[c] = <<>>)
       PROVE  Tally(db', jobs', c)
  <2>1. CASE At(op, 1)
    <3>1. Continue(Next1(j)) /\ db' = d
      BY <1>10, <2>1 DEF Change, At, j
    <3>2. CASE SameAt(db, d, c)
      BY <1>5, <1>6, <3>1, <3>2
    <3>3. CASE c \notin d.convs /\ d.total[c] = 0 /\ d.msgs[c] = <<>>
      BY <3>1, <3>3 DEF Tally
    <3> QED BY <1>10, <3>2, <3>3
  <2>2. CASE At(op, 2)
    <3>1. db' = db /\ \E s : Complete(s)
      BY <1>10, <2>2 DEF Change, At
    <3> QED BY <1>7, <3>1
  <2> QED BY <1>10, <2>1, <2>2 DEF Change
<1>11. CASE Change("archive", Archive(db, j.conv))
  BY <1>1, <1>10, <1>11, TotalStatements
<1>12. CASE Change("delete", DeleteConversation(db, j.conv))
  <2>1. LET d == DeleteConversation(db, j.conv) IN
           SameAt(db, d, c) \/ (c \notin d.convs /\ d.total[c] = 0 /\ d.msgs[c] = <<>>)
    <3>1. CASE c # j.conv
      BY <1>1, <3>1, TotalStatements
    <3>2. CASE c = j.conv
      BY <1>1, <3>2, TotalChanges
    <3> QED BY <3>1, <3>2
  <2> QED BY <1>10, <1>12, <2>1
<1> QED BY <1>8, <1>9, <1>11, <1>12 DEF j

LEMMA TalliedAdd ==
  ASSUME Types, Types', Drawn, jobs # <<>>, NEW c \in Convs, Tally(db, jobs, c), Add,
         ~(Misses /\ Head(jobs).conv = c)
  PROVE  Tally(db', jobs', c)
<1> DEFINE j == Head(jobs)
           x == j.conv
           k == Next1(j)
<1>1. /\ jobs \in Seq(GoodJob) /\ db \in Database /\ db' \in Database
      /\ j \in Job /\ j.step \in Nat /\ j.op = "add"
  BY TallyStart DEF Add, At
<1>2. k.op = "add" /\ k.conv = x /\ k.step = j.step + 1
  BY <1>1, NextFields
<1> HIDE DEF j, k
<1>3. ~Copying(j, c) /\ ~Copying(k, c)
  BY <1>1, <1>2 DEF Copying
<1>5. ASSUME SameAt(db, db', c), (~Counts(j, c) /\ ~Counts(k, c)) \/ c \notin db.convs,
             CompleteQuietly \/ Continue(k)
      PROVE  Tally(db', jobs', c)
  BY <1>3, <1>5, TallyOther DEF Neither, j
<1>6. CASE At("add", 1)
  <2>1. /\ j.step = 1
        /\ \/ /\ MayInsertMessage(db, x) /\ Continue(k)
              /\ db' = InsertMessage(db, x, Head(j.rows))
           \/ CompleteQuietly /\ db' = db
    BY <1>6 DEF Add, At, dbVars, j, k
  <2>2. ~Counts(j, c)
    BY <2>1 DEF Counts
  <2>3. CASE CompleteQuietly /\ db' = db
    <3>1. Neither(j, c) /\ SameAt(db, db', c)
      BY <1>3, <2>2, <2>3 DEF Neither, SameAt
    <3> QED BY <2>3, <3>1, TallyOther DEF j
  <2>4. CASE MayInsertMessage(db, x) /\ Continue(k) /\ db' = InsertMessage(db, x, Head(j.rows))
    <3>1. CASE c # x
      <4>1. SameAt(db, db', c)
        BY <1>1, <2>4, <3>1, TotalStatements
      <4>2. ~Counts(k, c)
        BY <1>2, <3>1 DEF Counts
      <4> QED BY <1>5, <2>2, <2>4, <4>1, <4>2
    <3>2. CASE c = x
      <4>1. c \in db.convs /\ Counts(k, c) /\ TurnedTo(jobs, jobs', k)
        BY <1>2, <2>1, <2>4, <3>2, TallyStart DEF MayInsertMessage, Counts
      <4>2. /\ c \in db'.convs /\ db'.total[c] = db.total[c]
            /\ Len(db'.msgs[c]) = Len(db.msgs[c]) + 1
        BY <1>1, <2>4, <3>2, <4>1, TotalChanges
      <4>3. \A i \in DOMAIN jobs : ~(Copying(jobs[i], c) /\ jobs[i].step = 8)
        BY <1>6, <2>4, <3>2 DEF Misses, Counted, Copying, j
      <4> QED BY <1>1, <1>3, <2>2, <4>1, <4>2, <4>3, TallyAdded DEF j
    <3> QED BY <3>1, <3>2
  <2> QED BY <2>1, <2>3, <2>4
<1>7. CASE At("add", 2)
  <2>1. j.step = 2 /\ Continue(k) /\ db' = CountMessage(db, x)
    BY <1>7 DEF Add, At, j, k
  <2>2. ~Counts(k, c)
    BY <1>2, <2>1 DEF Counts
  <2>3. CASE c # x \/ c \notin db.convs
    <3>1. SameAt(db, db', c)
      BY <1>1, <2>1, <2>3, TotalStatements
    <3>2. ~Counts(j, c) \/ c \notin db.convs
      BY <2>3 DEF Counts
    <3> QED BY <1>5, <2>1, <2>2, <3>1, <3>2
  <2>4. CASE c = x /\ c \in db.convs
    <3>1. Counts(j, c) /\ TurnedTo(jobs, jobs', k)
      BY <1>1, <2>1, <2>4, TallyStart DEF Counts
    <3>2. c \in db'.convs /\ db'.total[c] = db.total[c] + 1 /\ db'.msgs[c] = db.msgs[c]
      BY <1>1, <2>1, <2>4, TotalChanges
    <3> QED BY <1>1, <1>3, <2>2, <2>4, <3>1, <3>2, TallyAdded DEF j
  <2> QED BY <2>3, <2>4
<1>8. CASE At("add", 3)
  <2>1. j.step = 3 /\ CompleteQuietly /\ db' = db
    BY <1>8 DEF Add, At, j
  <2>2. Neither(j, c) /\ SameAt(db, db', c)
    BY <1>3, <2>1 DEF Neither, Counts, SameAt
  <2> QED BY <2>1, <2>2, TallyOther DEF j
<1> QED BY <1>6, <1>7, <1>8 DEF Add

LEMMA TalliedCopies ==
  ASSUME Types, Types', Drawn, jobs # <<>>, NEW c \in Convs, Tally(db, jobs, c),
         DuplicateBegins \/ DuplicateRow \/ DuplicateEnds
  PROVE  Tally(db', jobs', c)
<1> DEFINE j == Head(jobs)
           x == j.copy
           l == Next1(j)
           Copy(k, n) == k.op = "duplicate" /\ k.copy = x /\ k.step = n
<1>1. /\ jobs \in Seq(GoodJob) /\ db \in Database /\ db' \in Database
      /\ j \in Job /\ j.step \in Nat /\ j.op = "duplicate"
  BY TallyStart DEF DuplicateBegins, DuplicateRow, DuplicateEnds, At
<1>2. l \in Job /\ Copy(j, j.step) /\ Copy(l, j.step + 1) /\ l.count = j.count
  BY <1>1 DEF Next1, Job
<1>3. ASSUME NEW r
      PROVE  /\ Copy([l EXCEPT !.rows = r], j.step + 1) /\ Copy([j EXCEPT !.rows = r], j.step)
             /\ LET k == [l EXCEPT !.count = r] IN Copy(k, j.step + 1) /\ k.count = r
             /\ LET k == [l EXCEPT !.copy = r] IN
                   k.op = "duplicate" /\ k.step = j.step + 1 /\ k.copy = r
  <2> HIDE DEF l, j
  <2> QED BY <1>1, <1>2 DEF Job
<1> HIDE DEF j, l
<1>4. \A k, n : Copy(k, n) /\ (c # x \/ n \notin 4 .. 9) => Neither(k, c)
  BY DEF Neither, Copying, Counts
<1>5. \A k, n : Copy(k, n) /\ n \in 4 .. 9 => Copying(k, x)
  BY DEF Copying
<1> HIDE DEF Copy
<1>7. ASSUME SameAt(db, db', c), c # x \/ c \notin db.convs \/ j.step \notin 4 .. 9,
             CompleteQuietly \/ \E s : Complete(s)
      PROVE  Tally(db', jobs', c)
  BY <1>2, <1>4, <1>7, TallyOther DEF j
<1>8. ASSUME NEW k, NEW n, Copy(k, n), Continue(k), SameAt(db, db', c),
             \/ c # x \/ c \notin db.convs
             \/ j.step \notin 4 .. 9 /\ n \notin 4 .. 9
      PROVE  Tally(db', jobs', c)
  BY <1>2, <1>4, <1>8, TallyOther DEF j
(* A copy that is still there when its next statement has been executed. *)
<1>9. ASSUME NEW k, NEW n \in 5 .. 9, Copy(k, n), Continue(k), j.step \in 4 .. 8,
             c # x \/ c \notin db.convs => SameAt(db, db', c),
             x \in db.convs => x \in db'.convs,
             c = x /\ c \in db.convs /\ n \in {8, 9} => k.count \in Nat /\ k.count = Len(db'.msgs[x])
      PROVE  Tally(db', jobs', c)
  <2>1. CASE c # x \/ c \notin db.convs
    BY <1>8, <1>9, <2>1
  <2>2. CASE c = x /\ c \in db.convs
    <3>1. Copying(j, c) /\ Copying(k, c) /\ TurnedTo(jobs, jobs', k)
      <4>1. j.step \in 4 .. 9 /\ n \in 4 .. 9
        BY <1>9
      <4> QED BY <1>2, <1>5, <1>9, <2>2, <4>1, TallyStart
    <3>2. k.step = n
      BY <1>9 DEF Copy
    <3> QED BY <1>1, <1>9, <2>2, <3>1, <3>2, TallyCopied DEF j
  <2> QED BY <2>1, <2>2
<1>10. CASE DuplicateBegins
  <2>1. CASE At("duplicate", 1)
    <3> DEFINE found == IF j.conv \in db.convs THEN 1 ELSE 0
               k == [l EXCEPT !.count = found]
    <3>1. j.step = 1 /\ db' = db /\ Continue(k)
      BY <1>10, <2>1 DEF DuplicateBegins, At, dbVars, l, j
    <3> HIDE DEF found
    <3>2. Copy(k, j.step + 1)
      BY <1>3
    <3> HIDE DEF k
    <3>3. Copy(k, 2)
      BY <3>1, <3>2
    <3>4. SameAt(db, db', c)
      BY <3>1 DEF SameAt
    <3> QED BY <1>8, <3>1, <3>3, <3>4
  <2>2. CASE At("duplicate", 2)
    <3>1. j.step = 2 /\ db' = db /\ (Continue(l) \/ \E s : Complete(s))
      BY <1>10, <2>2 DEF DuplicateBegins, At, dbVars, l, j
    <3>2. SameAt(db, db', c)
      BY <3>1 DEF SameAt
    <3>3. Copy(l, 3)
      BY <1>2, <3>1
    <3> QED BY <1>7, <1>8, <3>1, <3>2, <3>3
  <2>3. CASE At("duplicate", 3)
    <3> DEFINE k == [l EXCEPT !.copy = ids + 1]
    <3>1. Continue(k) /\ db' = InsertConversation(db, ids + 1) /\ j.step = 3
      BY <1>10, <2>3 DEF DuplicateBegins, At, l, j
    <3>2. k.op = "duplicate" /\ k.step = j.step + 1 /\ k.copy = ids + 1
      BY <1>3
    <3> HIDE DEF k
    <3>3. k.step = 4 /\ Copy(j, 3)
      BY <1>2, <3>1, <3>2
    <3>4. ~Counts(k, c) /\ (c # ids + 1 => Neither(j, c) /\ Neither(k, c))
      <4>1. Neither(j, c)
        BY <1>4, <3>3
      <4>2. ~Counts(k, c) /\ (c # ids + 1 => ~Copying(k, c))
        BY <3>2 DEF Counts, Copying
      <4> QED BY <4>1, <4>2 DEF Neither
    <3> QED BY <3>1, <3>2, <3>3, <3>4, TalliedNew DEF j
  <2>4. CASE At("duplicate", 4) \/ At("duplicate", 5) \/ At("duplicate", 6)
    <3>1. /\ \/ Continue(l) \/ Continue([l EXCEPT !.rows = First(db.msgs[j.conv])])
             \/ Continue([l EXCEPT !.rows = Fetched(j.rows, db.msgs[j.conv])])
          /\ db' = db /\ j.step \in {4, 5, 6}
      BY <1>10, <2>4 DEF DuplicateBegins, At, dbVars, l, j
    <3>2. \E k : Continue(k) /\ Copy(k, j.step + 1)
      BY <1>2, <1>3, <3>1
    <3>3. SameAt(db, db', c)
      BY <3>1 DEF SameAt
    <3>4. j.step + 1 \in 5 .. 9 /\ j.step + 1 \notin {8, 9}
      BY <3>1
    <3> QED BY <1>9, <3>1, <3>2, <3>3, <3>4
  <2> QED BY <1>10, <2>1, <2>2, <2>3, <2>4 DEF DuplicateBegins
<1>11. CASE DuplicateRow
  <2>1. j.step = 7
    BY <1>11 DEF DuplicateRow, At, j
  <2>2. CASE MayInsertMessage(db, x)
    <3> DEFINE k == [j EXCEPT !.rows = Tail(j.rows)]
    <3>1. db' = InsertMessage(db, x, Head(j.rows)) /\ Continue(k) /\ x \in db.convs
      BY <1>11, <2>2 DEF DuplicateRow, MayInsertMessage, j
    <3>2. Copy(k, 7)
      BY <1>3, <2>1
    <3> HIDE DEF k
    <3>3. c # x \/ c \notin db.convs => SameAt(db, db', c)
      BY <1>1, <3>1, TotalStatements
    <3>4. x \in db'.convs
      <4>1. x \in Convs
        BY <1>1, <3>1 DEF Database
      <4> QED BY <1>1, <3>1, <4>1, TotalChanges
    <3> QED BY <1>9, <2>1, <3>1, <3>2, <3>3, <3>4
  <2>3. CASE ~MayInsertMessage(db, x)
    <3>1. CompleteQuietly /\ db' = db /\ x \notin db.convs
      BY <1>11, <2>3 DEF DuplicateRow, MayInsertMessage, j
    <3> QED BY <1>7, <3>1 DEF SameAt
  <2> QED BY <2>2, <2>3
<1>12. CASE DuplicateEnds
  <2>1. CASE At("duplicate", 7)
    <3> DEFINE k == [l EXCEPT !.count = Len(db.msgs[x])]
    <3>1. Continue(k) /\ db' = db /\ j.step = 7
      BY <1>12, <2>1 DEF DuplicateEnds, At, dbVars, l, j
    <3>2. Copy(k, j.step + 1) /\ k.count = Len(db.msgs[x])
      BY <1>3
    <3>3. k.count \in Nat
      <4>1. Continue(k) => k \in GoodJob
        BY TallyStart DEF TurnedTo
      <4> HIDE DEF k
      <4> QED BY <3>1, <4>1 DEF GoodJob, Job
    <3> HIDE DEF k
    <3>4. Copy(k, 8)
      BY <3>1, <3>2
    <3>5. SameAt(db, db', c)
      BY <3>1 DEF SameAt
    <3> QED BY <1>9, <3>1, <3>2, <3>3, <3>4, <3>5
  <2>2. CASE At("duplicate", 8)
    <3>1. Continue(l) /\ db' = db /\ j.step = 8
      BY <1>12, <2>2 DEF DuplicateEnds, At, dbVars, l, j
    <3>2. Copy(l, 9) /\ Copy(j, 8) /\ l.count = j.count
      BY <1>2, <3>1
    <3>3. SameAt(db, db', c)
      BY <3>1 DEF SameAt
    <3>4. ASSUME c = x, c \in db.convs PROVE j.count \in Nat /\ j.count = Len(db'.msgs[x])
      <4>1. Copying(j, c) /\ Read(db, jobs, c)
        BY <1>5, <3>2, <3>4 DEF Tally
      <4>2. 1 \in DOMAIN jobs /\ j = jobs[1]
        BY <1>1 DEF j
      <4> QED BY <1>1, <3>1, <3>4, <4>1, <4>2 DEF Read, Job
    <3> QED BY <1>9, <3>1, <3>2, <3>3, <3>4
  <2>3. CASE At("duplicate", 9)
    <3>1. Continue(l) /\ db' = SetTotal(db, x, j.count) /\ j.step = 9
      BY <1>12, <2>3 DEF DuplicateEnds, At, l, j
    <3>2. Copy(l, 10) /\ Copy(j, 9)
      BY <1>2, <3>1
    <3>3. CASE c # x \/ c \notin db.convs
      <4>1. SameAt(db, db', c)
        BY <1>1, <3>1, <3>3, TotalStatements
      <4> QED BY <1>8, <3>1, <3>2, <3>3, <4>1
    <3>4. CASE c = x /\ c \in db.convs
      <4>1. c \in db'.convs /\ db'.total[c] = j.count /\ db'.msgs[c] = db.msgs[c]
        BY <1>1, <3>1, <3>4, TotalChanges
      <4>2. Copying(j, c) /\ Neither(l, c) /\ TurnedTo(jobs, jobs', l)
        <5>1. TurnedTo(jobs, jobs', l)
          BY <3>1, TallyStart
        <5>2. Copying(j, x) /\ Neither(l, c)
          BY <1>4, <1>5, <3>2
        <5> QED BY <3>4, <5>1, <5>2
      <4> QED BY <1>1, <3>1, <3>4, <4>1, <4>2, TallySet DEF j
    <3> QED BY <3>3, <3>4
  <2>4. CASE At("duplicate", 10) \/ At("duplicate", 11)
    <3>1. Continue(l) /\ db' = db /\ j.step \in {10, 11}
      BY <1>12, <2>4 DEF DuplicateEnds, At, dbVars, l, j
    <3>2. Copy(l, j.step + 1) /\ j.step \notin 4 .. 9 /\ j.step + 1 \notin 4 .. 9
      BY <1>2, <3>1
    <3> QED BY <1>8, <3>1, <3>2 DEF SameAt
  <2>5. CASE At("duplicate", 12)
    <3>1. j.step = 12 /\ db' = db /\ \E s : Complete(s)
      BY <1>12, <2>5 DEF DuplicateEnds, At, dbVars, j
    <3> QED BY <1>7, <3>1 DEF SameAt
  <2> QED BY <1>12, <2>1, <2>2, <2>3, <2>4, <2>5 DEF DuplicateEnds
<1> QED BY <1>10, <1>11, <1>12

LEMMA SignalSubmits ==
  ASSUME Types, OnSignal
  PROVE  Extended(jobs, jobs')
<1>1. /\ signals # <<>> /\ Head(signals) \in Signal /\ Head(signals) \in GoodSignal
      /\ jobs \in Seq(GoodJob)
  BY HeadSignal DEF OnSignal, OnText, OnStreamDone, OnCreated, OnCreatedToSend, OnLoaded, OnRefresh,
         OnListed, Received, Types, Queues, GoodSignal
<1>2. CASE jobs' = jobs
  BY <1>1, <1>2, NothingSubmitted
<1>3. CASE OnStreamDone /\ Head(signals).gen = token
  <2>1. token \in Gens /\ FinishGeneration(token)
    BY <1>1, <1>3 DEF OnStreamDone, GoodSignal, Received
  <2> QED BY <2>1, FinishSubmitted
<1>4. CASE Submitted(<<NewJob("list", 0)>>)
  BY <1>4, NewSubmitted, Constants DEF Ops
<1>5. CASE OnCreatedToSend /\ pendingText # 0
  <2>1. pendingText \in 0 .. MaxGens
    BY TypesSplit DEF UiTypes
  <2>2. pendingText \in Gens
    BY <1>5, <2>1, Constants DEF Gens
  <2>3. Head(signals).conv \in 0 .. MaxConvs
    BY <1>1 DEF Signal
  <2>4. DoSend(Head(signals).conv, pendingText, jobs, <<>>, <<NewJob("list", 0)>>)
    BY <1>5 DEF OnCreatedToSend
  <2> QED BY <2>2, <2>3, <2>4, SendSubmitted
<1> QED BY <1>2, <1>3, <1>4, <1>5
        DEF OnSignal, OnText, OnStreamDone, OnCreated, OnCreatedToSend, OnLoaded, OnRefresh, OnListed

LEMMA TalliedSubmitted ==
  ASSUME Types, UNCHANGED db, Extended(jobs, jobs'), NEW c, Tally(db, jobs, c)
  PROVE  Tally(db', jobs', c)
<1>1. PICK new \in Seq(GoodJob) : jobs' = jobs \o new /\ \A i \in DOMAIN new : new[i].step = 1
  BY DEF Extended
<1>2. jobs \in Seq(GoodJob) /\ db' = db
  BY DEF Types, Queues
<1> QED BY <1>1, <1>2, TallySubmitted

LEMMA TalliedBackground ==
  ASSUME Types, Types', Drawn, Background, NEW c \in Convs, c \notin missed', Tally(db, jobs, c)
  PROVE  Tally(db', jobs', c)
<1>1. CASE JobStep
  <2>1. jobs # <<>>
    BY <1>1 DEF JobStep, Create, Add, Load, List, Change, DuplicateBegins, DuplicateRow, DuplicateEnds, At
  <2>2. ~(Misses /\ Head(jobs).conv = c)
    BY <1>1 DEF JobStep
  <2> QED BY <1>1, <2>1, <2>2, TalliedOthers, TalliedAdd, TalliedCopies DEF JobStep
<1>2. CASE StreamStep
  BY <1>2 DEF StreamStep, dbVars
<1> QED BY <1>1, <1>2 DEF Background

LEMMA TalliedInvariant == Spec => []Tallied
<1>1. Init => Tallied
  <2> SUFFICES ASSUME Init, NEW c \in Convs PROVE Tally(db, jobs, c)
    BY DEF Tallied
  <2> QED BY DEF Init, DbInit, EmptyDatabase, Tally
<1>2. Types /\ Types' /\ Drawn /\ Tallied /\ [Next]_vars => Tallied'
  <2> SUFFICES ASSUME Types, Types', Drawn, Tallied, [Next]_vars, restarts' = 0,
                      NEW c \in Convs, c \notin missed'
               PROVE  Tally(db', jobs', c)
    BY DEF Tallied
  <2>1. restarts \in Nat
    BY TypesSplit DEF CountTypes
  <2>2. ~Restart
    BY <2>1 DEF Restart
  <2>3. restarts' = restarts
    BY <2>2 DEF Next, User, SendMessage, Resend, Stop, NewConversation, Select, Duplicate, Change1, Click,
       OnSignal, OnText, OnStreamDone, OnCreated, OnCreatedToSend, OnLoaded, OnRefresh, OnListed,
       Background, countVars, vars
  <2>4. c \notin missed => Tally(db, jobs, c)
    BY <2>3 DEF Tallied
  <2>5. CASE User
    <3>1. UNCHANGED <<db, missed>>
      BY <2>5 DEF User, SendMessage, Resend, Stop, NewConversation, Select, Duplicate, Change1, dbVars
    <3> QED BY <2>4, <2>5, <3>1, UserSubmits, TalliedSubmitted
  <2>6. CASE OnSignal
    <3>1. UNCHANGED <<db, missed>>
      BY <2>6 DEF OnSignal, OnText, OnStreamDone, OnCreated, OnCreatedToSend, OnLoaded, OnRefresh,
         OnListed, dbVars
    <3> QED BY <2>4, <2>6, <3>1, SignalSubmits, TalliedSubmitted
  <2>7. CASE Background
    <3>1. c \notin missed
      BY <2>7 DEF Background, JobStep, StreamStep, dbVars
    <3> QED BY <2>4, <2>7, <3>1, TalliedBackground
  <2>8. CASE UNCHANGED vars
    BY <2>4, <2>8 DEF vars, dbVars, runnerVars
  <2> QED BY <2>2, <2>5, <2>6, <2>7, <2>8 DEF Next
<1> QED BY <1>1, <1>2, TypesInvariant, DrawnInvariant, PTL DEF Spec

(* When nothing is in progress any more, a conversation's total is the       *)
(* number of its messages, although insertions, counts and duplications mix, *)
(* as long as no restart has cut an operation in the middle and, for a copy, *)
(* no message was inserted between the execution of its recount's SELECT    *)
(* and the fetch of the number.                                             *)
THEOREM TotalsAreRight == Spec => []TotalsSettle
<1>1. Types /\ Drawn /\ Tallied => TotalsSettle
  <2> SUFFICES ASSUME Types, Drawn, Tallied, Quiet, restarts = 0, NEW c \in db.convs \ missed
               PROVE  db.total[c] = Len(db.msgs[c])
    BY DEF TotalsSettle
  <2>1. db \in Database /\ c \in Convs /\ jobs = <<>>
    BY TypesSplit DEF DbTypeOK, Database, Quiet
  <2>2. Owing(jobs, c, 0) = {} /\ DOMAIN jobs = {}
    BY <2>1 DEF Owing
  <2>3. Owed(jobs, c, 0) = 0
    BY <2>2, FS_EmptySet DEF Owed
  <2>4. db.total[c] + Owed(jobs, c, 0) = Len(db.msgs[c])
    BY <2>1, <2>2 DEF Tallied, Tally, Sum
  <2>5. db.total[c] \in Nat
    BY <2>1 DEF Database
  <2> QED BY <2>3, <2>4, <2>5
<1> QED BY <1>1, TypesInvariant, DrawnInvariant, TalliedInvariant, PTL

-----------------------------------------------------------------------------
(* The elements of a sequence that are in a set.  Only is a recursive        *)
(* function; what it does to every sequence follows by induction on the     *)
(* length, which is the well-foundedness of < on Nat, stated for sets.      *)
Less == {p \in Nat \X Nat : p[1] < p[2]}
LEMMA LessIsWellFounded == IsWellFoundedOn(Less, Nat)
<1>1. IsWellFoundedOn(OpToRel(<, Nat), Nat)
  BY NatLessThanWellFounded
<1>2. OpToRel(<, Nat) = Less
  BY DEF OpToRel, Less
<1> QED BY <1>1, <1>2

(* A set of numbers with 0 and all successors is Nat, and a set of sequences *)
(* with the empty one and all that are one element longer is Seq(T).        *)
LEMMA Induction ==
    ASSUME NEW S \in SUBSET Nat, 0 \in S, \A n \in S : n + 1 \in S
    PROVE  S = Nat
<1> DEFINE T == Nat \ S
<1> SUFFICES ASSUME T # {} PROVE FALSE
  OBVIOUS
<1>1. T \subseteq Nat
  OBVIOUS
<1> HIDE DEF T
<1>2. PICK x \in T : \A y \in T : ~ (<<y, x>> \in Less)
  BY <1>1, LessIsWellFounded, WFMin
<1>3. x \in Nat \ {0}
  BY DEF T
<1>4. x - 1 \in T
  BY <1>3 DEF T
<1>5. <<x - 1, x>> \in Less
  BY <1>3 DEF Less
<1> QED BY <1>2, <1>4, <1>5

LEMMA SequenceInduction ==
  ASSUME NEW T, NEW G \in SUBSET Seq(T), <<>> \in G,
         \A s \in G, x \in T : Append(s, x) \in G
  PROVE  G = Seq(T)
<1> DEFINE N == {n \in Nat : \A s \in Seq(T) : Len(s) = n => s \in G}
<1>1. 0 \in N
  <2>1. \A s \in Seq(T) : Len(s) = 0 => s = <<>>
    OBVIOUS
  <2> QED BY <2>1
<1>2. ASSUME NEW n \in N PROVE n + 1 \in N
  <2>1. SUFFICES ASSUME NEW s \in Seq(T), Len(s) = n + 1 PROVE s \in G
    OBVIOUS
  <2>2. n \in Nat /\ s # <<>>
    BY <2>1
  <2>3. PICK t \in Seq(T), x \in T : s = Append(t, x)
    BY <2>2, SequenceEmptyOrAppend
  <2>4. Len(t) = n
    BY <2>1, <2>2, <2>3
  <2>5. t \in G
    BY <2>3, <2>4
  <2> QED BY <2>3, <2>5
<1> HIDE DEF N
<1>3. N \in SUBSET Nat
  BY DEF N
<1>4. N = Nat
  BY <1>1, <1>2, <1>3, Induction
<1>5. \A s \in Seq(T) : Len(s) \in Nat
  OBVIOUS
<1> QED BY <1>4, <1>5 DEF N

OnlyStep(s, S, f, n) ==
    IF n = 0 THEN <<>> ELSE IF s[n] \in S THEN Append(f[n - 1], s[n]) ELSE f[n - 1]
Filters(s, S, f) == f = [n \in 0 .. Len(s) |-> OnlyStep(s, S, f, n)]
Filter(s, S) == CHOOSE f : Filters(s, S, f)

(* The recursive function is the one its equation defines. *)
LEMMA OnlyIsFilter ==
  ASSUME NEW s, NEW S
  PROVE  /\ Only(s, S) = Filter(s, S)[Len(s)]
         /\ \A g : Filters(s, S, g) => Filters(s, S, Filter(s, S))
<1>1. Only(s, S) = Filter(s, S)[Len(s)]
  BY DEF Only, Filter, Filters, OnlyStep
<1>2. ASSUME NEW g, Filters(s, S, g) PROVE Filters(s, S, CHOOSE f : Filters(s, S, f))
  BY Zenon, <1>2
<1> QED BY <1>1, <1>2 DEF Filter

LEMMA FilterExists ==
  ASSUME NEW T, NEW S, NEW s \in Seq(T)
  PROVE  Filters(s, S, Filter(s, S))
<1> DEFINE G == {t \in Seq(T) : Filters(t, S, Filter(t, S))}
<1>1. <<>> \in G
  <2> DEFINE g == [n \in 0 .. 0 |-> <<>>]
  <2>1. Filters(<<>>, S, g)
    BY DEF Filters, OnlyStep
  <2> QED BY <2>1, OnlyIsFilter
<1>2. ASSUME NEW t \in G, NEW x \in T PROVE Append(t, x) \in G
  <2> DEFINE f == Filter(t, S)
  <2> DEFINE n == Len(t)
  <2> DEFINE u == Append(t, x)
  <2> DEFINE g == [i \in 0 .. n + 1 |->
                     IF i = n + 1 THEN (IF x \in S THEN Append(f[n], x) ELSE f[n]) ELSE f[i]]
  <2>1. f = [i \in 0 .. n |-> OnlyStep(t, S, f, i)]
    BY DEF Filters
  <2>2. /\ n \in Nat /\ u \in Seq(T) /\ Len(u) = n + 1 /\ u[n + 1] = x
        /\ \A i \in 1 .. n : u[i] = t[i]
    OBVIOUS
  <2> HIDE DEF f, n, u
  <2>3. \A i \in 0 .. n + 1 : g[i] = OnlyStep(u, S, g, i)
    <3> SUFFICES ASSUME NEW i \in 0 .. n + 1 PROVE g[i] = OnlyStep(u, S, g, i)
      OBVIOUS
    <3>1. CASE i = 0
      BY <2>1, <2>2, <3>1 DEF OnlyStep
    <3>2. CASE i \in 1 .. n
      <4>1. i # n + 1 /\ i - 1 # n + 1 /\ i \in 0 .. n /\ i - 1 \in 0 .. n + 1 /\ i # 0
        BY <2>2, <3>2
      <4>2. g[i] = f[i] /\ g[i - 1] = f[i - 1] /\ u[i] = t[i]
        BY <2>2, <3>2, <4>1
      <4>3. f[i] = OnlyStep(t, S, f, i)
        <5> HIDE DEF g
        <5> QED BY <2>1, <4>1
      <4> HIDE DEF g
      <4> QED BY <4>1, <4>2, <4>3 DEF OnlyStep
    <3>3. CASE i = n + 1
      <4>1. g[i - 1] = f[n] /\ u[i] = x /\ i # 0
        BY <2>2, <3>3
      <4> QED BY <2>2, <3>3, <4>1 DEF OnlyStep
    <3> QED BY <2>2, <3>1, <3>2, <3>3
  <2>4. Filters(u, S, g)
    <3> DEFINE h == [i \in 0 .. n + 1 |-> OnlyStep(u, S, g, i)]
    <3>1. g = h
      <4> HIDE DEF h
      <4>1. DOMAIN g = DOMAIN h /\ \A i \in 0 .. n + 1 : g[i] = h[i]
        BY <2>3 DEF h
      <4> QED BY <2>3 DEF h
    <3> HIDE DEF g
    <3> QED BY <2>2, <3>1 DEF Filters
  <2> HIDE DEF g
  <2> QED BY <2>2, <2>4, OnlyIsFilter DEF u
<1> HIDE DEF G
<1>3. G \in SUBSET Seq(T)
  BY DEF G
<1>4. G = Seq(T)
  BY <1>1, <1>2, <1>3, SequenceInduction
<1> QED BY <1>4 DEF G

LEMMA OnlyEmpty == ASSUME NEW S PROVE Only(<<>>, S) = <<>>
<1>1. <<>> \in Seq({}) /\ Len(<<>>) = 0
  OBVIOUS
<1>2. Filters(<<>>, S, Filter(<<>>, S))
  BY <1>1, FilterExists
<1>3. Filter(<<>>, S)[0] = <<>>
  BY <1>1, <1>2 DEF Filters, OnlyStep
<1> QED BY <1>1, <1>3, OnlyIsFilter

(* What Only does to a sequence one element longer, and to the first element.*)
LEMMA OnlyAppend ==
  ASSUME NEW T, NEW S, NEW s \in Seq(T), NEW x \in T
  PROVE  Only(Append(s, x), S) = IF x \in S THEN Append(Only(s, S), x) ELSE Only(s, S)
<1> DEFINE u == Append(s, x)
           n == Len(s)
           f == Filter(s, S)
           g == Filter(u, S)
<1>1. /\ n \in Nat /\ u \in Seq(T) /\ Len(u) = n + 1 /\ u[n + 1] = x
      /\ \A i \in 1 .. n : u[i] = s[i]
  OBVIOUS
<1>2. f = [i \in 0 .. n |-> OnlyStep(s, S, f, i)]
  BY FilterExists DEF Filters
<1>3. g = [i \in 0 .. n + 1 |-> OnlyStep(u, S, g, i)]
  <2>1. Filters(u, S, g)
    BY <1>1, FilterExists
  <2> HIDE DEF g, u, n
  <2> QED BY <1>1, <2>1 DEF Filters
<1>4. Only(s, S) = f[n] /\ Only(u, S) = g[n + 1]
  BY <1>1, OnlyIsFilter
<1> HIDE DEF f, g, u, n
<1> DEFINE N == {i \in Nat : i <= n => f[i] = g[i]}
<1>5. 0 \in N
  BY <1>1, <1>2, <1>3 DEF OnlyStep
<1>6. ASSUME NEW i \in N PROVE i + 1 \in N
  <2>1. SUFFICES ASSUME i + 1 <= n PROVE f[i + 1] = g[i + 1]
    OBVIOUS
  <2>2. i + 1 \in 1 .. n /\ i \in 0 .. n /\ f[i] = g[i] /\ (i + 1) - 1 = i /\ i + 1 # 0
    BY <1>1, <2>1
  <2>3. u[i + 1] = s[i + 1]
    BY <1>1, <2>2
  <2>4. i + 1 \in 0 .. n /\ i + 1 \in 0 .. n + 1
    BY <1>1, <2>2
  <2>5. f[i + 1] = OnlyStep(s, S, f, i + 1) /\ g[i + 1] = OnlyStep(u, S, g, i + 1)
    BY <1>2, <1>3, <2>4
  <2> QED BY <2>2, <2>3, <2>5 DEF OnlyStep
<1> HIDE DEF N
<1>7. N = Nat
  <2>1. N \in SUBSET Nat
    BY DEF N
  <2> QED BY <1>5, <1>6, <2>1, Induction
<1>8. f[n] = g[n]
  BY <1>1, <1>7 DEF N
<1>9. n + 1 \in 0 .. n + 1 /\ (n + 1) - 1 = n /\ n + 1 # 0
  BY <1>1
<1>10. g[n + 1] = OnlyStep(u, S, g, n + 1)
  BY <1>3, <1>9
<1> QED BY <1>1, <1>4, <1>8, <1>9, <1>10 DEF OnlyStep, u

LEMMA OnlyType ==
  ASSUME NEW T, NEW S, NEW s \in Seq(T)
  PROVE  Only(s, S) \in Seq(T \cap S)
<1> DEFINE G == {t \in Seq(T) : Only(t, S) \in Seq(T \cap S)}
<1>1. <<>> \in G
  <2>1. <<>> \in Seq(T) /\ <<>> \in Seq(T \cap S)
    OBVIOUS
  <2> QED BY <2>1, OnlyEmpty
<1>2. ASSUME NEW t \in G, NEW x \in T PROVE Append(t, x) \in G
  <2> DEFINE a == Only(t, S)
  <2>1. t \in Seq(T) /\ a \in Seq(T \cap S)
    OBVIOUS
  <2>2. Only(Append(t, x), S) = IF x \in S THEN Append(a, x) ELSE a
    BY <2>1, OnlyAppend
  <2>3. Append(t, x) \in Seq(T)
    BY <2>1
  <2> HIDE DEF a
  <2>4. x \in S => Append(a, x) \in Seq(T \cap S)
    BY <2>1
  <2> QED BY <2>1, <2>2, <2>3, <2>4
<1> HIDE DEF G
<1>3. G = Seq(T)
  <2>1. G \in SUBSET Seq(T)
    BY DEF G
  <2> QED BY <1>1, <1>2, <2>1, SequenceInduction
<1> QED BY <1>3 DEF G

LEMMA OnlyNothing ==
  ASSUME NEW T, NEW S, NEW s \in Seq(T)
  PROVE  Only(s, S) = <<>> <=> \A i \in DOMAIN s : s[i] \notin S
<1> DEFINE None(t) == \A i \in DOMAIN t : t[i] \notin S
<1> DEFINE G == {t \in Seq(T) : Only(t, S) = <<>> <=> None(t)}
<1>1. <<>> \in G
  BY OnlyEmpty
<1>2. ASSUME NEW t \in G, NEW x \in T PROVE Append(t, x) \in G
  <2>1. None(Append(t, x)) <=> None(t) /\ x \notin S
    <3>1. /\ DOMAIN t = 1 .. Len(t) /\ Len(t) \in Nat /\ DOMAIN Append(t, x) = 1 .. Len(t) + 1
          /\ Append(t, x)[Len(t) + 1] = x /\ \A i \in 1 .. Len(t) : Append(t, x)[i] = t[i]
      OBVIOUS
    <3> QED BY <3>1
  <2> DEFINE a == Only(t, S)
  <2>2. t \in Seq(T) /\ a \in Seq(T \cap S)
    BY OnlyType
  <2>3. Only(Append(t, x), S) = IF x \in S THEN Append(a, x) ELSE a
    BY <2>2, OnlyAppend
  <2>4. Append(a, x) # <<>> /\ Append(t, x) \in Seq(T)
    <3> HIDE DEF a
    <3> QED BY <2>2
  <2> HIDE DEF None
  <2> QED BY <2>1, <2>3, <2>4
<1> HIDE DEF G
<1>3. G = Seq(T)
  <2>1. G \in SUBSET Seq(T)
    BY DEF G
  <2> QED BY <1>1, <1>2, <2>1, SequenceInduction
<1> QED BY <1>3 DEF G

(* The head of a sequence is the first of its selected elements, or none.    *)
Splits(s, S) == Only(s, S) = (IF Head(s) \in S THEN <<Head(s)>> ELSE <<>>) \o Only(Tail(s), S)

LEMMA SplitsFirst ==
  ASSUME NEW T, NEW S, NEW x \in T
  PROVE  Splits(Append(<<>>, x), S)
<1>1. <<>> \in Seq(T) /\ Append(<<>>, x) = <<x>> /\ Head(<<x>>) = x /\ Tail(<<x>>) = <<>>
  OBVIOUS
<1>2. Only(<<x>>, S) = IF x \in S THEN Append(<<>>, x) ELSE <<>>
  <2>1. \A r \in Seq(T) : Only(Append(r, x), S) = IF x \in S THEN Append(Only(r, S), x) ELSE Only(r, S)
    BY OnlyAppend
  <2>2. Only(Append(<<>>, x), S) = IF x \in S THEN Append(Only(<<>>, S), x) ELSE Only(<<>>, S)
    BY Zenon, <1>1, <2>1
  <2> QED BY Zenon, <1>1, <2>2, OnlyEmpty
<1>3. <<x>> \o <<>> = <<x>> /\ <<>> \o <<>> = <<>>
  OBVIOUS
<1> QED BY <1>1, <1>2, <1>3, OnlyEmpty DEF Splits

LEMMA SplitsAppend ==
  ASSUME NEW T, NEW S, NEW t \in Seq(T), t # <<>>, NEW x \in T, Splits(t, S)
  PROVE  Splits(Append(t, x), S)
<1> DEFINE a == Only(Tail(t), S)
           h == IF Head(t) \in S THEN <<Head(t)>> ELSE <<>>
<1>1. /\ Head(Append(t, x)) = Head(t) /\ Tail(Append(t, x)) = Append(Tail(t), x)
      /\ Tail(t) \in Seq(T) /\ Head(t) \in T
  OBVIOUS
<1>2. a \in Seq(T \cap S)
  BY <1>1, OnlyType
<1>3. /\ Only(Append(Tail(t), x), S) = IF x \in S THEN Append(a, x) ELSE a
      /\ Only(Append(t, x), S) = IF x \in S THEN Append(Only(t, S), x) ELSE Only(t, S)
  <2>1. \A r \in Seq(T) : Only(Append(r, x), S) = IF x \in S THEN Append(Only(r, S), x) ELSE Only(r, S)
    BY OnlyAppend
  <2> QED BY Zenon, <1>1, <2>1
<1>4. Only(t, S) = h \o a
  BY DEF Splits
<1>5. h \in Seq(T)
  BY <1>1
<1> HIDE DEF a, h
<1>6. Append(h \o a, x) = h \o Append(a, x)
  BY <1>2, <1>5
<1>7. Splits(Append(t, x), S) <=> Only(Append(t, x), S) = h \o Only(Append(Tail(t), x), S)
  BY <1>1 DEF Splits, h
<1> QED BY <1>3, <1>4, <1>6, <1>7

LEMMA OnlyTail ==
  ASSUME NEW T, NEW S, NEW s \in Seq(T), s # <<>>
  PROVE  Only(s, S) = (IF Head(s) \in S THEN <<Head(s)>> ELSE <<>>) \o Only(Tail(s), S)
<1> DEFINE G == {t \in Seq(T) : t # <<>> => Splits(t, S)}
<1>1. <<>> \in G
  OBVIOUS
<1>2. ASSUME NEW t \in G, NEW x \in T PROVE Append(t, x) \in G
  <2>1. Append(t, x) \in Seq(T)
    OBVIOUS
  <2> QED BY <2>1, SplitsFirst, SplitsAppend
<1> HIDE DEF G
<1>3. G = Seq(T)
  <2>1. G \in SUBSET Seq(T)
    BY DEF G
  <2> QED BY <1>1, <1>2, <2>1, SequenceInduction
<1> QED BY <1>3 DEF G, Splits

-----------------------------------------------------------------------------
(* The history the next message is sent with.  While the user is careful at  *)
(* most one answer, creation or load is under way.                         *)
Opens == {"create", "createSend", "load"}
OpeningJob == {j \in GoodJob : j.op \in Opens}
OpeningSignal == {s \in GoodSignal : s.kind \in Opens}
Count(s, S) == Len(Only(s, S))
Openings(js, q, t) ==
    Count(js, OpeningJob) + Count(q, OpeningSignal) + IF t = 0 THEN 0 ELSE 1

(* The messages that c's insertions are going to add, in their order. *)
Adding(c) == {j \in GoodJob : Inserts(j) /\ j.conv = c}
Arriving(js, c) == LET a == Only(js, Adding(c)) IN [i \in DOMAIN a |-> Head(a[i].rows)]

(* No insertion into c stands behind the first n operations. *)
NoAdds(js, c, n) == \A k \in DOMAIN js : k > n => js[k] \notin Adding(c)
Elsewhere(js, c) == \A i \in DOMAIN js : js[i].op = "duplicate" /\ js[i].step > 3 => js[i].copy # c

(* A load for the active conversation reads all that is to be inserted there,*)
(* and what its SELECT and its fetch have read is still what is stored.    *)
LoadsLast(js, c) == \A i \in DOMAIN js : js[i].op = "load" => js[i].conv = c /\ NoAdds(js, c, i)
LoadsRead(d, js, q, c) ==
    /\ \A i \in DOMAIN q : q[i].kind = "load" =>
           NoAdds(js, c, 0) /\ (c \in d.convs => q[i].rows = d.msgs[c])
    /\ \A i \in DOMAIN js : js[i].op = "load" /\ js[i].step # 1 =>
           NoAdds(js, c, 0) /\ (c \in d.convs => js[i].rows = First(d.msgs[c]))

(* A conversation that is being created is empty, and nothing is on its way. *)
Creates == {"create", "createSend"}
Newborn(d, js, c) ==
    c \in Convs /\ d.msgs[c] = <<>> /\ NoAdds(js, c, 0) /\ Elsewhere(js, c)
Newborns(d, js, q) ==
    /\ \A i \in DOMAIN js : js[i].op \in Creates /\ js[i].step > 1 => Newborn(d, js, js[i].conv)
    /\ \A i \in DOMAIN q : q[i].kind \in Creates => Newborn(d, js, q[i].conv)

(* Unless it is being loaded, the history is what is stored, and what will be.*)
Loading(js, q) ==
    (\E i \in DOMAIN js : js[i].op = "load") \/ (\E i \in DOMAIN q : q[i].kind = "load")
Agree(d, js, q, c, h) ==
    ~Loading(js, q) /\ c \in d.convs => Spoken(h) = Spoken(d.msgs[c] \o Arriving(js, c))

Consistent(d, js, q, c, h) ==
    /\ LoadsLast(js, c) /\ LoadsRead(d, js, q, c) /\ Elsewhere(js, c)
    /\ Newborns(d, js, q) /\ Agree(d, js, q, c, h)

(* A conversation that is not in the database has no messages there. *)
Emptied(d) == \A c \in Convs : c \notin d.convs => d.msgs[c] = <<>>

Session ==
    careful => /\ Openings(jobs, signals, token) <= 1
               /\ Consistent(db, jobs, signals, active, history)
Remembers == Emptied(db) /\ Emptied(durable) /\ Session

(* Counting is compatible with appending to and taking from a queue. *)
LEMMA CountFacts ==
  ASSUME NEW T, NEW S, NEW s \in Seq(T)
  PROVE  /\ Count(s, S) \in Nat
         /\ Count(s, S) = 0 <=> \A i \in DOMAIN s : s[i] \notin S
         /\ \A x \in T : Count(Append(s, x), S) = Count(s, S) + IF x \in S THEN 1 ELSE 0
         /\ s # <<>> => Count(s, S) = (IF Head(s) \in S THEN 1 ELSE 0) + Count(Tail(s), S)
<1>1. Only(s, S) \in Seq(T \cap S)
  BY OnlyType
<1>2. Count(s, S) = 0 <=> Only(s, S) = <<>>
  BY <1>1 DEF Count
<1>3. Count(s, S) = 0 <=> \A i \in DOMAIN s : s[i] \notin S
  BY <1>2, OnlyNothing
<1>4. ASSUME NEW x \in T
      PROVE  Count(Append(s, x), S) = Count(s, S) + IF x \in S THEN 1 ELSE 0
  <2>1. Only(Append(s, x), S) = IF x \in S THEN Append(Only(s, S), x) ELSE Only(s, S)
    BY OnlyAppend
  <2>2. x \in S => Len(Append(Only(s, S), x)) = Len(Only(s, S)) + 1
    BY <1>1
  <2>3. Len(Only(s, S)) \in Nat
    BY <1>1
  <2> QED BY <2>1, <2>2, <2>3 DEF Count
<1>5. ASSUME s # <<>>
      PROVE  Count(s, S) = (IF Head(s) \in S THEN 1 ELSE 0) + Count(Tail(s), S)
  <2> DEFINE h == IF Head(s) \in S THEN <<Head(s)>> ELSE <<>>
             r == Only(Tail(s), S)
  <2>1. Only(s, S) = h \o r
    BY <1>5, OnlyTail
  <2>2. Head(s) \in T /\ Tail(s) \in Seq(T)
    BY <1>5
  <2>3. r \in Seq(T \cap S)
    BY <2>2, OnlyType
  <2>4. h \in Seq(T) /\ Len(h) = IF Head(s) \in S THEN 1 ELSE 0
    BY <2>2
  <2> HIDE DEF h, r
  <2>5. r \in Seq(T)
    BY <2>3, SequencesWithin, T \cap S \subseteq T
  <2>6. Len(h \o r) = Len(h) + Len(r)
    BY <2>4, <2>5, ConcatProperties
  <2> QED BY <2>1, <2>4, <2>6 DEF Count, r
<1> QED BY <1>1, <1>3, <1>4, <1>5 DEF Count

(* The messages that are going to be added, when an operation comes or goes. *)
LEMMA ArrivingFacts ==
  ASSUME NEW js \in Seq(GoodJob), NEW c
  PROVE  /\ Arriving(js, c) \in Seq(Message)
         /\ \A x \in GoodJob : Arriving(Append(js, x), c) =
               IF x \in Adding(c) THEN Append(Arriving(js, c), Head(x.rows)) ELSE Arriving(js, c)
         /\ js # <<>> => Arriving(js, c) =
               (IF Head(js) \in Adding(c) THEN <<Head(Head(js).rows)>> ELSE <<>>)
               \o Arriving(Tail(js), c)
         /\ NoAdds(js, c, 0) => Arriving(js, c) = <<>>
<1> DEFINE Row(a) == [i \in DOMAIN a |-> Head(a[i].rows)]
<1>1. \A t \in Seq(GoodJob) : Only(t, Adding(c)) \in Seq(Adding(c))
  <2>1. GoodJob \cap Adding(c) = Adding(c)
    BY DEF Adding
  <2> QED BY <2>1, OnlyType
<1>2. \A j \in Adding(c) : Head(j.rows) \in Message /\ j \in GoodJob
  <2>1. \A j \in Adding(c) : j \in GoodJob /\ j.rows \in Seq(Message) /\ j.rows # <<>>
    BY DEF Adding, Inserts, GoodJob, Job
  <2> QED BY <2>1
<1>3. \A a \in Seq(Adding(c)) : Row(a) \in Seq(Message) /\ Len(Row(a)) = Len(a)
  BY <1>2
<1>4. \A t : Arriving(t, c) = Row(Only(t, Adding(c)))
  BY DEF Arriving
<1>5. \A a \in Seq(Adding(c)), j \in Adding(c) : Row(Append(a, j)) = Append(Row(a), Head(j.rows))
  <2> SUFFICES ASSUME NEW a \in Seq(Adding(c)), NEW j \in Adding(c)
               PROVE  Row(Append(a, j)) = Append(Row(a), Head(j.rows))
    OBVIOUS
  <2>1. /\ Append(a, j) \in Seq(Adding(c)) /\ Len(Append(a, j)) = Len(a) + 1
        /\ Append(a, j)[Len(a) + 1] = j /\ \A i \in 1 .. Len(a) : Append(a, j)[i] = a[i]
    OBVIOUS
  <2> QED BY <1>2, <1>3, <2>1
<1>6. \A a \in Seq(Adding(c)), j \in Adding(c) : Row(<<j>> \o a) = <<Head(j.rows)>> \o Row(a)
  <2> SUFFICES ASSUME NEW a \in Seq(Adding(c)), NEW j \in Adding(c)
               PROVE  Row(<<j>> \o a) = <<Head(j.rows)>> \o Row(a)
    OBVIOUS
  <2> DEFINE b == <<j>> \o a
             e == <<Head(j.rows)>> \o Row(a)
  <2>1. /\ b \in Seq(Adding(c)) /\ Len(b) = Len(a) + 1
        /\ b[1] = j /\ \A i \in 1 .. Len(a) : b[i + 1] = a[i]
    OBVIOUS
  <2>2. /\ e \in Seq(Message) /\ Len(e) = Len(a) + 1
        /\ e[1] = Head(j.rows) /\ \A i \in 1 .. Len(a) : e[i + 1] = Row(a)[i]
    BY <1>2, <1>3
  <2>3. Row(b) \in Seq(Message) /\ Len(Row(b)) = Len(a) + 1
    BY <1>3, <2>1
  <2>4. Row(b)[1] = e[1] /\ \A i \in 1 .. Len(a) : Row(b)[i + 1] = e[i + 1]
    BY <2>1, <2>2
  <2> HIDE DEF b, e, Row
  <2>5. \A k \in 1 .. Len(a) + 1 : k = 1 \/ \E i \in 1 .. Len(a) : k = i + 1
    OBVIOUS
  <2>6. \A k \in 1 .. Len(a) + 1 : Row(b)[k] = e[k]
    BY <2>4, <2>5
  <2>7. Row(b) = e
    BY <2>2, <2>3, <2>6, SeqEqual
  <2> QED BY <2>7 DEF b, e
<1>7. Row(<<>>) = <<>>
  OBVIOUS
<1> HIDE DEF Row
<1>8. Arriving(js, c) \in Seq(Message)
  BY <1>1, <1>3, <1>4
<1>9. ASSUME NEW x \in GoodJob
      PROVE  Arriving(Append(js, x), c) =
               IF x \in Adding(c) THEN Append(Arriving(js, c), Head(x.rows)) ELSE Arriving(js, c)
  <2>1. Only(Append(js, x), Adding(c)) =
          IF x \in Adding(c) THEN Append(Only(js, Adding(c)), x) ELSE Only(js, Adding(c))
    BY OnlyAppend
  <2> QED BY <1>1, <1>4, <1>5, <2>1
<1>10. ASSUME js # <<>>
       PROVE  Arriving(js, c) =
               (IF Head(js) \in Adding(c) THEN <<Head(Head(js).rows)>> ELSE <<>>)
               \o Arriving(Tail(js), c)
  <2>1. Only(js, Adding(c)) =
          (IF Head(js) \in Adding(c) THEN <<Head(js)>> ELSE <<>>) \o Only(Tail(js), Adding(c))
    BY <1>10, OnlyTail
  <2>2. Tail(js) \in Seq(GoodJob)
    BY <1>10
  <2> DEFINE r == Only(Tail(js), Adding(c))
  <2>3. r \in Seq(Adding(c)) /\ Row(r) \in Seq(Message) /\ Arriving(Tail(js), c) = Row(r)
    BY <1>1, <1>3, <1>4, <2>2
  <2> HIDE DEF r
  <2>4. <<>> \o r = r /\ <<>> \o Row(r) = Row(r)
    BY <2>3
  <2>5. CASE Head(js) \in Adding(c)
    BY <1>4, <1>6, <2>1, <2>3, <2>5 DEF r
  <2>6. CASE Head(js) \notin Adding(c)
    BY <1>4, <2>1, <2>3, <2>4, <2>6 DEF r
  <2> QED BY <2>5, <2>6
<1>11. ASSUME NoAdds(js, c, 0) PROVE Arriving(js, c) = <<>>
  <2>1. \A i \in DOMAIN js : js[i] \notin Adding(c)
    BY <1>11 DEF NoAdds
  <2> QED BY <1>4, <1>7, <2>1, OnlyNothing
<1> QED BY <1>8, <1>9, <1>10, <1>11

(* The messages shown, when one is added. *)
LEMMA SpokenAppend ==
  ASSUME NEW h \in Seq(Message), NEW m \in Message
  PROVE  /\ Spoken(Append(h, m)) =
               IF m.role = "user" \/ m.text # <<>> THEN Append(Spoken(h), m) ELSE Spoken(h)
         /\ Spoken(<<>>) = <<>>
<1> DEFINE S == {n \in Message : n.role = "user" \/ n.text # <<>>}
<1>1. \A r : Spoken(r) = Only(r, S)
  BY DEF Spoken
<1>2. m \in S <=> m.role = "user" \/ m.text # <<>>
  OBVIOUS
<1> HIDE DEF S
<1>3. Only(Append(h, m), S) = IF m \in S THEN Append(Only(h, S), m) ELSE Only(h, S)
  BY OnlyAppend
<1>4. Only(<<>>, S) = <<>>
  BY OnlyEmpty
<1> QED BY <1>1, <1>2, <1>3, <1>4

(* An operation is put into the queue. *)
LEMMA AppendOf ==
  ASSUME NEW S, NEW s \in Seq(S), NEW x \in S, NEW t, t = Append(s, x)
  PROVE  /\ t \in Seq(S) /\ Len(s) \in Nat /\ Len(s) + 1 \in DOMAIN t /\ t[Len(s) + 1] = x
         /\ \A i \in DOMAIN s : i \in Nat /\ i \in DOMAIN t /\ t[i] = s[i] /\ i < Len(s) + 1
         /\ \A i \in DOMAIN t : i \in DOMAIN s \/ i = Len(s) + 1
<1>1. /\ t \in Seq(S) /\ Len(s) \in Nat /\ DOMAIN s = 1 .. Len(s) /\ DOMAIN t = 1 .. Len(s) + 1
      /\ t[Len(s) + 1] = x /\ \A i \in 1 .. Len(s) : t[i] = s[i]
  OBVIOUS
<1> QED BY <1>1

LEMMA Associates ==
  ASSUME NEW S, NEW s \in Seq(S), NEW t \in Seq(S), NEW x \in S
  PROVE  s \o Append(t, x) = Append(s \o t, x) /\ s \o t \in Seq(S)
OBVIOUS

Plain(x) == x \in GoodJob /\ x.step = 1 /\ x.op \notin {"load", "add"}

LEMMA NoAddsJoined ==
  ASSUME NEW js \in Seq(GoodJob), NEW x \in GoodJob, NEW js2, js2 = Append(js, x), x.step = 1
  PROVE  /\ \A c, n : x \notin Adding(c) /\ NoAdds(js, c, n) => NoAdds(js2, c, n)
         /\ \A c : Elsewhere(js, c) => Elsewhere(js2, c)
         /\ Plain(x) => \A c : x \notin Adding(c)
<1>1. \A i \in DOMAIN js2 : (i \in DOMAIN js /\ js2[i] = js[i]) \/ js2[i] = x
  BY AppendOf
<1>2. Plain(x) => \A c : x \notin Adding(c)
  BY DEF Plain, Adding, Inserts
<1> QED BY <1>1, <1>2 DEF NoAdds, Elsewhere

LEMMA Joins ==
  ASSUME NEW d, NEW js \in Seq(GoodJob), NEW q, NEW c, NEW h, Consistent(d, js, q, c, h),
         NEW x, Plain(x), NEW js2, js2 = Append(js, x)
  PROVE  Consistent(d, js2, q, c, h)
<1>1. x \in GoodJob /\ x.step = 1 /\ x.op # "load"
  BY DEF Plain
<1>2. \A i \in DOMAIN js2 : (i \in DOMAIN js /\ js2[i] = js[i]) \/ js2[i] = x
  BY <1>1, AppendOf
<1>3. /\ \A b, n : NoAdds(js, b, n) => NoAdds(js2, b, n)
      /\ \A b : Elsewhere(js, b) => Elsewhere(js2, b)
      /\ x \notin Adding(c)
  BY <1>1, NoAddsJoined
<1>4. LoadsLast(js2, c) /\ LoadsRead(d, js2, q, c) /\ Elsewhere(js2, c)
  BY <1>1, <1>2, <1>3 DEF Consistent, LoadsLast, LoadsRead
<1>5. \A b : Newborn(d, js, b) => Newborn(d, js2, b)
  BY <1>3 DEF Newborn
<1>6. Newborns(d, js2, q)
  BY <1>1, <1>2, <1>5 DEF Consistent, Newborns
<1>7. Loading(js, q) => Loading(js2, q)
  BY <1>1, AppendOf DEF Loading
<1>8. Arriving(js2, c) = Arriving(js, c)
  BY <1>1, <1>3, ArrivingFacts
<1> QED BY <1>4, <1>6, <1>7, <1>8 DEF Consistent, Agree

(* No creation and no load is under way. *)
Calm(js, q) ==
    (\A i \in DOMAIN js : js[i].op \notin Opens) /\ (\A i \in DOMAIN q : q[i].kind \notin Opens)

LEMMA CalmJoined ==
  ASSUME NEW js \in Seq(GoodJob), NEW q, NEW x \in GoodJob, x.op \notin Opens, Calm(js, q)
  PROVE  Calm(Append(js, x), q)
<1>1. \A i \in DOMAIN Append(js, x) : (i \in DOMAIN js /\ Append(js, x)[i] = js[i]) \/ Append(js, x)[i] = x
  BY AppendOf
<1> QED BY <1>1 DEF Calm

LEMMA CalmFacts ==
  ASSUME NEW d, NEW js, NEW q, NEW c, Calm(js, q)
  PROVE  LoadsLast(js, c) /\ LoadsRead(d, js, q, c) /\ Newborns(d, js, q) /\ ~Loading(js, q)
BY DEF Calm, Opens, Creates, LoadsLast, LoadsRead, Newborns, Loading

(* A message is to be stored, and added to the history unless it has no text.*)
LEMMA Adds ==
  ASSUME NEW d \in Database, NEW js \in Seq(GoodJob), NEW q, NEW c \in 0 .. MaxConvs,
         NEW h \in Seq(Message), Consistent(d, js, q, c, h), Calm(js, q), NEW m \in Message,
         NEW h2, h2 = Append(h, m) \/ (h2 = h /\ m.role # "user" /\ m.text = <<>>)
  PROVE  Consistent(d, Append(js, AddJob(c, m)), q, c, h2)
<1> DEFINE x == AddJob(c, m)
           js2 == Append(js, x)
           old == d.msgs[c] \o Arriving(js, c)
<1>1. x \in GoodJob /\ x.step = 1 /\ x.op = "add" /\ x.conv = c /\ Head(x.rows) = m
  <2>1. x.step = 1 /\ x.op = "add" /\ x.conv = c /\ x.rows = <<m>>
    BY DEF AddJob, NewJob
  <2>2. x \in GoodJob
    BY AddJobGood
  <2> HIDE DEF x
  <2> QED BY <2>1, <2>2
<1>2. x \in Adding(c)
  BY <1>1 DEF Adding, Inserts
<1> HIDE DEF x
<1>3. Calm(js2, q)
  BY <1>1, CalmJoined DEF Opens
<1>4. LoadsLast(js2, c) /\ LoadsRead(d, js2, q, c) /\ Newborns(d, js2, q) /\ ~Loading(js, q)
  BY <1>3, CalmFacts
<1>5. Elsewhere(js2, c)
  BY <1>1, NoAddsJoined DEF Consistent
<1>6. ASSUME c \in d.convs PROVE Spoken(h2) = Spoken(d.msgs[c] \o Arriving(js2, c))
  <2>1. Spoken(h) = Spoken(old)
    BY <1>6, CalmFacts DEF Consistent, Agree
  <2>2. d.msgs[c] \in Seq(Message) /\ Arriving(js, c) \in Seq(Message)
    BY <1>6, ArrivingFacts DEF Database
  <2>3. Arriving(js2, c) = Append(Arriving(js, c), m)
    BY <1>1, <1>2, ArrivingFacts
  <2>4. d.msgs[c] \o Append(Arriving(js, c), m) = Append(old, m) /\ old \in Seq(Message)
    BY <2>2, Associates
  <2> HIDE DEF old
  <2>5. Spoken(Append(old, m)) =
          IF m.role = "user" \/ m.text # <<>> THEN Append(Spoken(old), m) ELSE Spoken(old)
    BY <2>4, SpokenAppend
  <2>6. Spoken(Append(h, m)) = IF m.role = "user" \/ m.text # <<>> THEN Append(Spoken(h), m) ELSE Spoken(h)
    BY SpokenAppend
  <2> QED BY <2>1, <2>3, <2>4, <2>5, <2>6
<1> QED BY <1>4, <1>5, <1>6 DEF Consistent, Agree, x

(* Another conversation is opened. *)
LEMMA Loads ==
  ASSUME NEW d, NEW js \in Seq(GoodJob), NEW q, NEW c \in Convs, NEW h, Calm(js, q),
         \A i \in DOMAIN js : js[i].op # "duplicate"
  PROVE  Consistent(d, Append(js, NewJob("load", c)), q, c, h)
<1> DEFINE x == NewJob("load", c)
           js2 == Append(js, x)
<1>1. x \in GoodJob /\ x.op = "load" /\ x.conv = c /\ x.step = 1
  BY NewJobGood, Constants DEF NewJob, Ops
<1> HIDE DEF x
<1>2. /\ js2 \in Seq(GoodJob) /\ Len(js) \in Nat /\ Len(js) + 1 \in DOMAIN js2 /\ js2[Len(js) + 1] = x
      /\ \A i \in DOMAIN js : i \in Nat /\ i \in DOMAIN js2 /\ js2[i] = js[i] /\ i < Len(js) + 1
      /\ \A i \in DOMAIN js2 : i \in DOMAIN js \/ i = Len(js) + 1
  BY <1>1, AppendOf
<1> HIDE DEF js2
<1>3. Loading(js2, q)
  BY <1>1, <1>2 DEF Loading
<1>4. NoAdds(js2, c, Len(js) + 1)
  <2>1. \A k \in DOMAIN js2 : ~ (k > Len(js) + 1)
    BY <1>2
  <2> QED BY <2>1 DEF NoAdds
<1>5. LoadsLast(js2, c)
  <2> SUFFICES ASSUME NEW i \in DOMAIN js2, js2[i].op = "load"
               PROVE  js2[i].conv = c /\ NoAdds(js2, c, i)
    BY DEF LoadsLast
  <2>1. i = Len(js) + 1
    BY <1>2 DEF Calm, Opens
  <2> QED BY <1>1, <1>2, <1>4, <2>1
<1>6. LoadsRead(d, js2, q, c)
  BY <1>1, <1>2 DEF LoadsRead, Calm, Opens
<1>7. Elsewhere(js2, c)
  BY <1>1, <1>2 DEF Elsewhere
<1>8. Newborns(d, js2, q)
  BY <1>1, <1>2 DEF Newborns, Calm, Opens, Creates
<1> QED BY <1>3, <1>5, <1>6, <1>7, <1>8 DEF Consistent, Agree, js2, x

(* The first signal is handled. *)
LEMMA SignalTaken ==
  ASSUME NEW q \in Seq(GoodSignal), q # <<>>
  PROVE  /\ 1 \in DOMAIN q /\ Head(q) = q[1]
         /\ \A i \in DOMAIN Tail(q) : i + 1 \in DOMAIN q /\ Tail(q)[i] = q[i + 1]
         /\ \A i \in DOMAIN q : i = 1 \/ (i - 1 \in DOMAIN Tail(q) /\ Tail(q)[i - 1] = q[i])
<1>1. /\ Len(q) \in Nat \ {0} /\ DOMAIN q = 1 .. Len(q) /\ Head(q) = q[1]
      /\ DOMAIN Tail(q) = 1 .. Len(q) - 1 /\ \A i \in 1 .. Len(q) - 1 : Tail(q)[i] = q[i + 1]
  BY TailOf
<1>2. \A i \in 1 .. Len(q) : i = 1 \/ (i - 1 \in 1 .. Len(q) - 1 /\ (i - 1) + 1 = i)
  BY <1>1
<1>3. \A i \in 1 .. Len(q) - 1 : i + 1 \in 1 .. Len(q)
  BY <1>1
<1> QED BY <1>1, <1>2, <1>3

LEMMA Handles ==
  ASSUME NEW d, NEW js, NEW q \in Seq(GoodSignal), q # <<>>, NEW c, NEW h,
         Consistent(d, js, q, c, h), Head(q).kind # "load"
  PROVE  Consistent(d, js, Tail(q), c, h)
<1>1. LoadsRead(d, js, Tail(q), c) /\ Newborns(d, js, Tail(q))
  BY SignalTaken DEF Consistent, LoadsRead, Newborns
<1>2. Loading(js, q) => Loading(js, Tail(q))
  <2>1. ASSUME NEW i \in DOMAIN q, q[i].kind = "load" PROVE Loading(js, Tail(q))
    <3>1. i # 1
      BY <2>1, SignalTaken
    <3>2. i - 1 \in DOMAIN Tail(q) /\ Tail(q)[i - 1].kind = "load"
      BY <2>1, <3>1, SignalTaken
    <3> QED BY <3>2 DEF Loading
  <2> QED BY <2>1 DEF Loading
<1> QED BY <1>1, <1>2 DEF Consistent, Agree

LEMMA Creating ==
  ASSUME NEW d, NEW js \in Seq(GoodJob), NEW q \in Seq(GoodSignal), q # <<>>, NEW c, NEW h,
         Consistent(d, js, q, c, h), Head(q).kind \in Creates, Calm(js, Tail(q))
  PROVE  Consistent(d, js, Tail(q), Head(q).conv, <<>>)
<1> DEFINE b == Head(q).conv
<1>1. Newborn(d, js, b)
  BY SignalTaken DEF Consistent, Newborns
<1> HIDE DEF b
<1>2. /\ LoadsLast(js, b) /\ LoadsRead(d, js, Tail(q), b) /\ Newborns(d, js, Tail(q))
      /\ Elsewhere(js, b)
  BY <1>1, CalmFacts DEF Newborn
<1>3. d.msgs[b] \o Arriving(js, b) = <<>>
  <2>1. d.msgs[b] = <<>> /\ Arriving(js, b) = <<>>
    BY <1>1, ArrivingFacts DEF Newborn
  <2>2. <<>> \o <<>> = <<>>
    OBVIOUS
  <2> QED BY <2>1, <2>2
<1> QED BY <1>2, <1>3 DEF Consistent, Agree, b

LEMMA Loaded ==
  ASSUME NEW d \in Database, NEW js \in Seq(GoodJob), NEW q \in Seq(GoodSignal), q # <<>>,
         NEW c, NEW h, Consistent(d, js, q, c, h), Head(q).kind = "load", Calm(js, Tail(q))
  PROVE  Consistent(d, js, Tail(q), c, Head(q).rows)
<1>1. NoAdds(js, c, 0) /\ (c \in d.convs => Head(q).rows = d.msgs[c])
  BY SignalTaken DEF Consistent, LoadsRead
<1>2. LoadsLast(js, c) /\ LoadsRead(d, js, Tail(q), c) /\ Newborns(d, js, Tail(q))
  BY CalmFacts
<1>3. c \in d.convs => d.msgs[c] \o Arriving(js, c) = d.msgs[c]
  <2>1. Arriving(js, c) = <<>>
    BY <1>1, ArrivingFacts
  <2>2. c \in d.convs => d.msgs[c] \in Seq(Message)
    BY DEF Database
  <2> QED BY <2>1, <2>2
<1> QED BY <1>1, <1>2, <1>3 DEF Consistent, Agree

(* How many creations, loads and answers are under way. *)
CountsIn(T, S, s) ==
    /\ Count(s, S) \in Nat
    /\ Count(s, S) = 0 <=> \A i \in DOMAIN s : s[i] \notin S
    /\ \A x \in T : Count(Append(s, x), S) = Count(s, S) + IF x \in S THEN 1 ELSE 0
    /\ s # <<>> => Count(s, S) = (IF Head(s) \in S THEN 1 ELSE 0) + Count(Tail(s), S)

LEMMA QueueCounts ==
  /\ \A js \in Seq(GoodJob) : CountsIn(GoodJob, OpeningJob, js)
  /\ \A q \in Seq(GoodSignal) : CountsIn(GoodSignal, OpeningSignal, q)
<1>1. ASSUME NEW js \in Seq(GoodJob) PROVE CountsIn(GoodJob, OpeningJob, js)
  BY CountFacts DEF CountsIn
<1>2. ASSUME NEW q \in Seq(GoodSignal) PROVE CountsIn(GoodSignal, OpeningSignal, q)
  BY CountFacts DEF CountsIn
<1> QED BY <1>1, <1>2

LEMMA CalmCounts ==
  ASSUME NEW js \in Seq(GoodJob), NEW q \in Seq(GoodSignal)
  PROVE  /\ Count(js, OpeningJob) \in Nat /\ Count(q, OpeningSignal) \in Nat
         /\ Calm(js, q) <=> Count(js, OpeningJob) = 0 /\ Count(q, OpeningSignal) = 0
<1>1. Count(js, OpeningJob) = 0 <=> \A i \in DOMAIN js : js[i].op \notin Opens
  <2>1. \A i \in DOMAIN js : js[i] \in OpeningJob <=> js[i].op \in Opens
    BY DEF OpeningJob
  <2> QED BY <2>1, QueueCounts DEF CountsIn
<1>2. Count(q, OpeningSignal) = 0 <=> \A i \in DOMAIN q : q[i].kind \notin Opens
  <2>1. \A i \in DOMAIN q : q[i] \in OpeningSignal <=> q[i].kind \in Opens
    BY DEF OpeningSignal
  <2> QED BY <2>1, QueueCounts DEF CountsIn
<1> QED BY <1>1, <1>2, QueueCounts DEF Calm, CountsIn

LEMMA OneTurnFacts ==
  ASSUME NEW js \in Seq(GoodJob), NEW q \in Seq(GoodSignal), NEW t, Openings(js, q, t) <= 1
  PROVE  /\ t # 0 => Calm(js, q)
         /\ q # <<>> /\ Head(q).kind \in Opens => Calm(js, Tail(q)) /\ t = 0
<1>1. ASSUME t # 0 PROVE Calm(js, q)
  BY <1>1, CalmCounts DEF Openings
<1>2. ASSUME q # <<>>, Head(q).kind \in Opens PROVE Calm(js, Tail(q)) /\ t = 0
  <2>1. Head(q) \in OpeningSignal /\ Tail(q) \in Seq(GoodSignal)
    BY <1>2 DEF OpeningSignal
  <2>2. Count(q, OpeningSignal) = 1 + Count(Tail(q), OpeningSignal)
    BY <1>2, <2>1, QueueCounts DEF CountsIn
  <2>3. /\ Count(js, OpeningJob) \in Nat /\ Count(Tail(q), OpeningSignal) \in Nat
        /\ Calm(js, Tail(q)) <=> Count(js, OpeningJob) = 0 /\ Count(Tail(q), OpeningSignal) = 0
    BY <2>1, CalmCounts
  <2> QED BY <2>2, <2>3 DEF Openings
<1> QED BY <1>1, <1>2

LEMMA OpeningsChange ==
  ASSUME NEW js \in Seq(GoodJob), NEW q \in Seq(GoodSignal), NEW t
  PROVE  /\ \A x \in GoodJob : Openings(Append(js, x), q, t) =
               Openings(js, q, t) + IF x.op \in Opens THEN 1 ELSE 0
         /\ \A s \in GoodSignal : Openings(js, Append(q, s), t) =
               Openings(js, q, t) + IF s.kind \in Opens THEN 1 ELSE 0
         /\ q # <<>> => Openings(js, q, t) =
               Openings(js, Tail(q), t) + IF Head(q).kind \in Opens THEN 1 ELSE 0
         /\ js # <<>> => Openings(js, q, t) =
               Openings(Tail(js), q, t) + IF Head(js).op \in Opens THEN 1 ELSE 0
         /\ Calm(js, q) => Openings(js, q, t) = IF t = 0 THEN 0 ELSE 1
         /\ Openings(js, q, t) \in Nat
<1>1. Count(js, OpeningJob) \in Nat /\ Count(q, OpeningSignal) \in Nat
  BY CalmCounts
<1>2. \A x \in GoodJob : Count(Append(js, x), OpeningJob) =
         Count(js, OpeningJob) + IF x.op \in Opens THEN 1 ELSE 0
  <2>1. \A x \in GoodJob : x \in OpeningJob <=> x.op \in Opens
    BY DEF OpeningJob
  <2> QED BY <2>1, QueueCounts DEF CountsIn
<1>3. \A s \in GoodSignal : Count(Append(q, s), OpeningSignal) =
         Count(q, OpeningSignal) + IF s.kind \in Opens THEN 1 ELSE 0
  <2>1. \A s \in GoodSignal : s \in OpeningSignal <=> s.kind \in Opens
    BY DEF OpeningSignal
  <2> QED BY <2>1, QueueCounts DEF CountsIn
<1>4. ASSUME q # <<>>
      PROVE  /\ Count(Tail(q), OpeningSignal) \in Nat
             /\ Count(q, OpeningSignal) =
                   Count(Tail(q), OpeningSignal) + IF Head(q).kind \in Opens THEN 1 ELSE 0
  <2>1. Head(q) \in GoodSignal /\ Tail(q) \in Seq(GoodSignal)
    BY <1>4
  <2>2. Head(q) \in OpeningSignal <=> Head(q).kind \in Opens
    BY <2>1 DEF OpeningSignal
  <2>3. CountsIn(GoodSignal, OpeningSignal, q) /\ CountsIn(GoodSignal, OpeningSignal, Tail(q))
    BY <2>1, QueueCounts
  <2> QED BY <1>4, <2>2, <2>3 DEF CountsIn
<1>5. ASSUME js # <<>>
      PROVE  /\ Count(Tail(js), OpeningJob) \in Nat
             /\ Count(js, OpeningJob) =
                   Count(Tail(js), OpeningJob) + IF Head(js).op \in Opens THEN 1 ELSE 0
  <2>1. Head(js) \in GoodJob /\ Tail(js) \in Seq(GoodJob)
    BY <1>5
  <2>2. Head(js) \in OpeningJob <=> Head(js).op \in Opens
    BY <2>1 DEF OpeningJob
  <2>3. CountsIn(GoodJob, OpeningJob, js) /\ CountsIn(GoodJob, OpeningJob, Tail(js))
    BY <2>1, QueueCounts
  <2> QED BY <1>5, <2>2, <2>3 DEF CountsIn
<1>6. /\ \A x \in GoodJob : Openings(Append(js, x), q, t) =
               Openings(js, q, t) + IF x.op \in Opens THEN 1 ELSE 0
      /\ \A s \in GoodSignal : Openings(js, Append(q, s), t) =
               Openings(js, q, t) + IF s.kind \in Opens THEN 1 ELSE 0
  BY <1>1, <1>2, <1>3 DEF Openings
<1>7. /\ q # <<>> => Openings(js, q, t) =
               Openings(js, Tail(q), t) + IF Head(q).kind \in Opens THEN 1 ELSE 0
      /\ js # <<>> => Openings(js, q, t) =
               Openings(Tail(js), q, t) + IF Head(js).op \in Opens THEN 1 ELSE 0
  <2>1. ASSUME q # <<>>
        PROVE  Openings(js, q, t) =
                 Openings(js, Tail(q), t) + IF Head(q).kind \in Opens THEN 1 ELSE 0
    BY <1>1, <1>4, <2>1 DEF Openings
  <2>2. ASSUME js # <<>>
        PROVE  Openings(js, q, t) =
                 Openings(Tail(js), q, t) + IF Head(js).op \in Opens THEN 1 ELSE 0
    BY <1>1, <1>5, <2>2 DEF Openings
  <2> QED BY <2>1, <2>2
<1>8. /\ Calm(js, q) => Openings(js, q, t) = IF t = 0 THEN 0 ELSE 1
      /\ Openings(js, q, t) \in Nat
  <2>1. Calm(js, q) => Count(js, OpeningJob) = 0 /\ Count(q, OpeningSignal) = 0
    BY CalmCounts
  <2> QED BY <1>1, <2>1 DEF Openings
<1> QED BY <1>6, <1>7, <1>8

LEMMA OpeningsSame ==
  ASSUME NEW js \in Seq(GoodJob), NEW q \in Seq(GoodSignal), NEW t
  PROVE  /\ \A x \in GoodJob : x.op \notin Opens => Openings(Append(js, x), q, t) = Openings(js, q, t)
         /\ \A s \in GoodSignal : s.kind \notin Opens => Openings(js, Append(q, s), t) = Openings(js, q, t)
         /\ q # <<>> /\ Head(q).kind \notin Opens => Openings(js, Tail(q), t) = Openings(js, q, t)
         /\ js # <<>> /\ Head(js).op \notin Opens => Openings(Tail(js), q, t) = Openings(js, q, t)
<1>1. Openings(js, q, t) \in Nat
  BY OpeningsChange
<1>2. \A x \in GoodJob : x.op \notin Opens => Openings(Append(js, x), q, t) = Openings(js, q, t) + 0
  BY OpeningsChange
<1>3. \A s \in GoodSignal : s.kind \notin Opens => Openings(js, Append(q, s), t) = Openings(js, q, t) + 0
  BY OpeningsChange
<1>4. ASSUME q # <<>>, Head(q).kind \notin Opens
      PROVE  Openings(js, Tail(q), t) = Openings(js, q, t)
  <2>1. Tail(q) \in Seq(GoodSignal)
    BY <1>4
  <2>2. Openings(js, Tail(q), t) \in Nat
    BY <2>1, OpeningsChange
  <2>3. Openings(js, q, t) = Openings(js, Tail(q), t) + 0
    BY <1>4, OpeningsChange
  <2> QED BY <2>2, <2>3
<1>5. ASSUME js # <<>>, Head(js).op \notin Opens
      PROVE  Openings(Tail(js), q, t) = Openings(js, q, t)
  <2>1. Tail(js) \in Seq(GoodJob)
    BY <1>5
  <2>2. Openings(Tail(js), q, t) \in Nat
    BY <2>1, OpeningsChange
  <2>3. Openings(js, q, t) = Openings(Tail(js), q, t) + 0
    BY <1>5, OpeningsChange
  <2> QED BY <2>2, <2>3
<1> QED BY <1>1, <1>2, <1>3, <1>4, <1>5

(* Sending, and the end of an answer. *)
LEMMA ListIsPlain == Plain(NewJob("list", 0)) /\ NewJob("list", 0).op = "list"
<1>1. NewJob("list", 0) \in GoodJob
  BY NewJobGood, Constants DEF Ops
<1> QED BY <1>1 DEF Plain, NewJob

LEMMA RememberedSend ==
  ASSUME Types, NEW q \in Seq(GoodSignal), NEW c \in 0 .. MaxConvs, NEW g \in Gens,
         NEW h \in Seq(Message), Consistent(db, jobs, q, c, h), Calm(jobs, q), token = 0,
         NEW after, after = <<>> \/ after = <<NewJob("list", 0)>>, DoSend(c, g, jobs, h, after)
  PROVE  Consistent(db, jobs', q, c, history') /\ Openings(jobs', q, token') <= 1
<1> DEFINE x == AddJob(c, Question(g))
           l == NewJob("list", 0)
           js == Append(jobs, x)
<1>1. /\ db \in Database /\ jobs \in Seq(GoodJob) /\ Question(g) \in Message
      /\ x \in GoodJob /\ x.op = "add"
  <2>1. Question(g) \in Message
    BY Messages, <<>> \in Seq(Chunk)
  <2>2. x.op = "add"
    BY DEF AddJob, NewJob
  <2> QED BY <2>1, <2>2, TypesSplit, AddJobGood DEF DbTypeOK, Queues
<1>2. /\ jobs' = (jobs \o <<x>>) \o after /\ history' = Append(h, Question(g))
      /\ after = <<>> \/ after = <<l>>
  BY DEF DoSend
<1>3. Consistent(db, js, q, c, history')
  BY <1>1, <1>2, Adds
<1>4. l \in GoodJob /\ Plain(l) /\ l.op = "list"
  BY ListIsPlain DEF Plain
<1> HIDE DEF x, l
<1>5. js \in Seq(GoodJob) /\ jobs \o <<x>> = js
  BY <1>1
<1> HIDE DEF js
<1>6. jobs' = js \/ jobs' = Append(js, l)
  <2>1. js \o <<>> = js /\ js \o <<l>> = Append(js, l)
    BY <1>4, <1>5
  <2> QED BY <1>2, <1>5, <2>1
<1>7. Consistent(db, jobs', q, c, history')
  BY <1>3, <1>4, <1>5, <1>6, Joins
<1>8. Calm(js, q)
  <2>1. Calm(Append(jobs, x), q)
    BY <1>1, CalmJoined DEF Opens
  <2> QED BY <2>1 DEF js
<1>9. jobs' \in Seq(GoodJob) /\ Calm(jobs', q)
  <2>1. l.op \notin Opens /\ Append(js, l) \in Seq(GoodJob)
    BY <1>4, <1>5 DEF Opens
  <2>2. Calm(Append(js, l), q)
    BY Zenon, <1>4, <1>5, <1>8, <2>1, CalmJoined
  <2> QED BY <1>5, <1>6, <1>8, <2>1, <2>2
<1> QED BY <1>7, <1>9, OpeningsChange

LEMMA RememberedFinish ==
  ASSUME Types, NEW q \in Seq(GoodSignal), NEW g \in Gens,
         Consistent(db, jobs, q, active, history), Calm(jobs, q), FinishGeneration(g)
  PROVE  Consistent(db, jobs', q, active, history') /\ Openings(jobs', q, token') <= 1
<1> DEFINE m == Reply(g, genText)
           x == AddJob(active, m)
           l == NewJob("list", 0)
           js == Append(jobs, x)
<1>1. /\ db \in Database /\ jobs \in Seq(GoodJob) /\ m \in Message /\ active \in 0 .. MaxConvs
      /\ history \in Seq(Message) /\ x \in GoodJob /\ x.op = "add"
      /\ m.role = "assistant" /\ m.text = genText
  <2>1. m \in Message /\ active \in 0 .. MaxConvs /\ history \in Seq(Message)
    BY Messages, TypesSplit DEF UiTypes
  <2>2. x.op = "add"
    BY DEF AddJob, NewJob
  <2>3. m.role = "assistant" /\ m.text = genText
    BY DEF Reply
  <2> QED BY <2>1, <2>2, <2>3, TypesSplit, AddJobGood DEF DbTypeOK, Queues
<1>2. /\ token' = 0
      /\ history' = IF genText = <<>> THEN history ELSE Append(history, m)
      /\ jobs' = IF active = 0 THEN jobs ELSE jobs \o <<x, l>>
  BY DEF FinishGeneration
<1>3. CASE active = 0
  <2>1. active \notin db.convs
    BY <1>1, <1>3 DEF Database, Convs
  <2>2. Consistent(db, jobs, q, active, history')
    BY <2>1 DEF Consistent, Agree
  <2> QED BY <1>1, <1>2, <1>3, <2>2, OpeningsChange
<1>4. CASE active # 0
  <2>1. history' = Append(history, m) \/ (history' = history /\ m.role # "user" /\ m.text = <<>>)
    BY <1>1, <1>2
  <2>2. Consistent(db, js, q, active, history')
    <3> HIDE DEF m
    <3> QED BY <1>1, <2>1, Adds DEF x
  <2>3. l \in GoodJob /\ Plain(l) /\ l.op = "list"
    BY ListIsPlain DEF Plain
  <2> HIDE DEF x, l, m
  <2>4. js \in Seq(GoodJob) /\ jobs \o <<x, l>> = Append(js, l)
    BY <1>1, <2>3
  <2>5. Calm(js, q)
    BY <1>1, CalmJoined DEF Opens
  <2> HIDE DEF js
  <2>6. jobs' = Append(js, l)
    BY <1>2, <1>4, <2>4
  <2>7. Consistent(db, jobs', q, active, history')
    BY <2>2, <2>3, <2>4, <2>6, Joins
  <2>8. jobs' \in Seq(GoodJob) /\ Calm(jobs', q)
    <3>1. Append(js, l) \in Seq(GoodJob)
      BY <2>3, <2>4
    <3>2. l.op \notin Opens
      BY <2>3 DEF Opens
    <3>3. Calm(Append(js, l), q)
      BY Zenon, <2>3, <2>4, <2>5, <3>2, CalmJoined
    <3> QED BY <2>6, <3>1, <3>3
  <2>9. Openings(jobs', q, token') = 0
    BY <1>2, <2>8, OpeningsChange
  <2> QED BY <2>7, <2>9
<1> QED BY <1>3, <1>4

(* What the user and the queued signals do. *)
LEMMA Leisure ==
  ASSUME ~Busy
  PROVE  token = 0 /\ Calm(jobs, signals) /\ \A i \in DOMAIN jobs : jobs[i].op # "duplicate"
BY DEF Busy, Changing, Calm, Opens

LEMMA SubmittedOne ==
  ASSUME Types, NEW x \in GoodJob, Submitted(<<x>>)
  PROVE  jobs' = Append(jobs, x) /\ jobs \in Seq(GoodJob) /\ signals \in Seq(GoodSignal)
<1>1. jobs \in Seq(GoodJob) /\ signals \in Seq(GoodSignal)
  BY DEF Types, Queues
<1>2. jobs \o <<x>> = Append(jobs, x)
  BY <1>1
<1> QED BY <1>1, <1>2 DEF Submitted

LEMMA NewIsPlain ==
  ASSUME NEW op \in Ops \ {"add", "load"}, NEW c \in 0 .. MaxConvs,
         op \in {"archive", "delete", "duplicate"} => c \in Convs
  PROVE  Plain(NewJob(op, c)) /\ NewJob(op, c) \in GoodJob /\ NewJob(op, c).op = op
<1>1. NewJob(op, c) \in GoodJob
  BY NewJobGood
<1> QED BY <1>1 DEF Plain, NewJob

(* An operation is asked for. *)
LEMMA SessionSubmits ==
  ASSUME Types, Session, NEW x, Plain(x), Submitted(<<x>>),
         careful' => careful, x.op \in Opens => (careful' => ~Busy),
         UNCHANGED <<db, signals, token, active, history>>
  PROVE  Session'
<1>1. x \in GoodJob
  BY DEF Plain
<1>2. jobs' = Append(jobs, x) /\ jobs \in Seq(GoodJob) /\ signals \in Seq(GoodSignal)
  BY <1>1, SubmittedOne
<1> SUFFICES ASSUME careful' PROVE /\ Openings(jobs', signals, token) <= 1
                                   /\ Consistent(db, jobs', signals, active, history)
  BY DEF Session
<1>3. Openings(jobs, signals, token) <= 1 /\ Consistent(db, jobs, signals, active, history)
  BY DEF Session
<1>4. Consistent(db, jobs', signals, active, history)
  BY <1>2, <1>3, Joins
<1>5. Openings(jobs', signals, token) = Openings(jobs, signals, token) + IF x.op \in Opens THEN 1 ELSE 0
  BY <1>1, <1>2, OpeningsChange
<1>6. x.op \in Opens => Openings(jobs, signals, token) = 0
  <2>1. ASSUME x.op \in Opens PROVE token = 0 /\ Calm(jobs, signals)
    BY <2>1, Leisure
  <2> QED BY <1>2, <2>1, OpeningsChange
<1>7. Openings(jobs, signals, token) \in Nat
  BY <1>2, OpeningsChange
<1> QED BY <1>3, <1>4, <1>5, <1>6, <1>7

(* A message is sent in the conversation that is open. *)
LEMMA SessionSends ==
  ASSUME Types, Session, NEW g \in Gens, DoSend(active, g, jobs, history, <<>>), Heed,
         UNCHANGED <<db, signals, active>>
  PROVE  Session'
<1> SUFFICES ASSUME careful' PROVE /\ Openings(jobs', signals, token') <= 1
                                   /\ Consistent(db, jobs', signals, active, history')
  BY DEF Session
<1>1. careful /\ token = 0 /\ Calm(jobs, signals)
  BY Leisure DEF Heed
<1>2. Consistent(db, jobs, signals, active, history)
  BY <1>1 DEF Session
<1>3. active \in 0 .. MaxConvs /\ history \in Seq(Message) /\ signals \in Seq(GoodSignal)
  BY TypesSplit DEF UiTypes, Queues
<1> QED BY <1>1, <1>2, <1>3, RememberedSend

LEMMA SessionUser ==
  ASSUME Types, Session, User
  PROVE  Session'
<1>1. /\ sent \in 0 .. MaxGens /\ (sent < MaxGens => sent + 1 \in Gens)
      /\ sidebar \subseteq Convs /\ token \in 0 .. MaxGens /\ careful \in BOOLEAN
      /\ signals \in Seq(GoodSignal) /\ jobs \in Seq(GoodJob)
  <2>1. sent \in 0 .. MaxGens
    BY TypesSplit DEF CountTypes
  <2>2. sent < MaxGens => sent + 1 \in Gens
    BY <2>1, Constants DEF Gens
  <2> QED BY <2>1, <2>2, TypesSplit DEF UiTypes, GhostTypes, Queues
<1>2. Heed => (careful' => careful /\ ~Busy)
  BY DEF Heed
<1>3. CASE SendMessage \/ Resend
  <2>1. Heed /\ UNCHANGED <<db, signals>> /\ sent < MaxGens
    BY <1>3 DEF SendMessage, Resend, dbVars
  <2>2. CASE active # 0
    <3>1. DoSend(active, sent + 1, jobs, history, <<>>) /\ UNCHANGED active
      BY <1>3, <2>2 DEF SendMessage, Resend
    <3> QED BY <1>1, <2>1, <3>1, SessionSends
  <2>3. CASE active = 0
    <3>1. /\ Submitted(<<NewJob("createSend", 0)>>) /\ UNCHANGED <<token, history, active>>
      BY <1>3, <2>3 DEF SendMessage, Resend
    <3>2. Plain(NewJob("createSend", 0))
      BY NewIsPlain, Constants DEF Ops
    <3> QED BY <1>2, <2>1, <3>1, <3>2, SessionSubmits
  <2> QED BY <2>2, <2>3
<1>4. CASE Stop
  <2>1. /\ token \in Gens /\ token # 0 /\ FinishGeneration(token)
        /\ UNCHANGED <<db, signals, active, careful>>
    BY <1>1, <1>4 DEF Stop, Gens, dbVars
  <2>2. SUFFICES ASSUME careful PROVE /\ Openings(jobs', signals, token') <= 1
                                      /\ Consistent(db, jobs', signals, active, history')
    BY <2>1 DEF Session
  <2>3. Openings(jobs, signals, token) <= 1 /\ Consistent(db, jobs, signals, active, history)
    BY <2>2 DEF Session
  <2>4. Calm(jobs, signals)
    BY <1>1, <2>1, <2>3, OneTurnFacts
  <2> QED BY <1>1, <2>1, <2>3, <2>4, RememberedFinish
<1>5. CASE NewConversation
  <2>1. /\ Submitted(<<NewJob("create", 0)>>) /\ Heed
        /\ UNCHANGED <<db, signals, token, active, history>>
    BY <1>5 DEF NewConversation, uiVars, dbVars
  <2>2. Plain(NewJob("create", 0))
    BY NewIsPlain, Constants DEF Ops
  <2> QED BY <1>2, <2>1, <2>2, SessionSubmits
<1>6. ASSUME NEW c \in Convs, Select(c) PROVE Session'
  <2>1. /\ Submitted(<<NewJob("load", c)>>) /\ Heed /\ active' = c
        /\ UNCHANGED <<db, signals, token, history>>
    BY <1>6 DEF Select, dbVars
  <2>2. NewJob("load", c) \in GoodJob /\ NewJob("load", c).op \in Opens
    BY NewJobGood, Constants DEF Ops, Opens, NewJob
  <2>3. jobs' = Append(jobs, NewJob("load", c))
    BY <2>2, <2>1, SubmittedOne
  <2>4. SUFFICES ASSUME careful' PROVE /\ Openings(jobs', signals, token) <= 1
                                       /\ Consistent(db, jobs', signals, c, history)
    BY <2>1 DEF Session
  <2>5. token = 0 /\ Calm(jobs, signals) /\ \A i \in DOMAIN jobs : jobs[i].op # "duplicate"
    BY <1>2, <2>1, <2>4, Leisure
  <2>6. Consistent(db, jobs', signals, c, history)
    BY <1>1, <2>3, <2>5, Loads
  <2>7. Openings(jobs, signals, token) = 0
    BY <1>1, <2>5, OpeningsChange
  <2>8. Openings(jobs', signals, token) = Openings(jobs, signals, token) + 1
    BY <1>1, <2>2, <2>3, OpeningsChange
  <2> QED BY <2>6, <2>7, <2>8
<1>7. ASSUME NEW c \in Convs, Duplicate(c) \/ \E op \in {"archive", "delete"} : Change1(op, c)
      PROVE  Session'
  <2>1. \E op \in {"duplicate", "archive", "delete"} : Submitted(<<NewJob(op, c)>>)
    BY <1>7 DEF Duplicate, Change1
  <2>2. UNCHANGED <<db, signals, token, active, history, careful>>
    BY <1>7 DEF Duplicate, Change1, uiVars, ghostVars, dbVars
  <2>3. PICK op \in {"duplicate", "archive", "delete"} : Submitted(<<NewJob(op, c)>>)
    BY <2>1
  <2>4. Plain(NewJob(op, c)) /\ NewJob(op, c).op \notin Opens
    <3>1. NewJob(op, c).op = op
      BY DEF NewJob
    <3> QED BY <3>1, NewIsPlain, Constants DEF Ops, Opens
  <2> QED BY <2>2, <2>3, <2>4, SessionSubmits
<1> QED BY <1>3, <1>4, <1>5, <1>6, <1>7 DEF User

(* A signal that opens nothing is handled. *)
LEMMA SessionHandles ==
  ASSUME Types, Session, signals # <<>>, Head(signals).kind \notin Opens
  PROVE  /\ Tail(signals) \in Seq(GoodSignal)
         /\ careful => /\ Openings(jobs, Tail(signals), token) <= 1
                       /\ Consistent(db, jobs, Tail(signals), active, history)
<1>1. jobs \in Seq(GoodJob) /\ signals \in Seq(GoodSignal) /\ Tail(signals) \in Seq(GoodSignal)
  BY DEF Types, Queues
<1>2. Openings(jobs, signals, token) = Openings(jobs, Tail(signals), token)
  BY <1>1, OpeningsSame
<1>3. Head(signals).kind # "load"
  BY DEF Opens
<1> QED BY <1>1, <1>2, <1>3, Handles DEF Session

(* One that opens a conversation. *)
LEMMA SessionOpens ==
  ASSUME Types, Session, signals # <<>>, Head(signals).kind \in Opens, careful
  PROVE  /\ Tail(signals) \in Seq(GoodSignal)
         /\ Consistent(db, jobs, signals, active, history)
         /\ token = 0 /\ Calm(jobs, Tail(signals))
<1>1. jobs \in Seq(GoodJob) /\ signals \in Seq(GoodSignal) /\ Tail(signals) \in Seq(GoodSignal)
  BY DEF Types, Queues
<1> QED BY <1>1, OneTurnFacts DEF Session

LEMMA SessionSignal ==
  ASSUME Types, Session, OnSignal
  PROVE  Session'
<1>1. /\ signals # <<>> /\ signals' = Tail(signals) /\ UNCHANGED <<db, careful>>
      /\ jobs \in Seq(GoodJob) /\ signals \in Seq(GoodSignal) /\ Tail(signals) \in Seq(GoodSignal)
      /\ Head(signals) \in GoodSignal /\ Head(signals) \in Signal /\ db \in Database
  <2>1. signals # <<>> /\ signals' = Tail(signals) /\ UNCHANGED <<db, careful>>
    BY DEF OnSignal, OnText, OnStreamDone, OnCreated, OnCreatedToSend, OnLoaded, OnRefresh, OnListed,
           Received, Consumed, dbVars, ghostVars
  <2> QED BY <2>1, HeadSignal, TypesSplit DEF Queues, GoodSignal, DbTypeOK
<1> DEFINE q == Tail(signals)
           l == NewJob("list", 0)
<1>2. l \in GoodJob /\ Plain(l) /\ l.op \notin Opens
  BY ListIsPlain DEF Plain, Opens
<1> SUFFICES ASSUME careful PROVE /\ Openings(jobs', q, token') <= 1
                                  /\ Consistent(db, jobs', q, active', history')
  BY <1>1 DEF Session
<1>3. CASE OnText \/ OnListed \/ (OnStreamDone /\ Head(signals).gen # token)
  <2>1. Head(signals).kind \notin Opens /\ UNCHANGED <<jobs, token, active, history>>
    BY <1>3 DEF OnText, OnListed, OnStreamDone, Received, Opens
  <2> QED BY <1>1, <2>1, SessionHandles
<1>4. CASE OnStreamDone /\ Head(signals).gen = token
  <2>1. /\ Head(signals).kind \notin Opens /\ FinishGeneration(token) /\ UNCHANGED active
        /\ token \in Gens /\ token # 0
    <3>1. Head(signals).kind = "done" /\ FinishGeneration(token) /\ UNCHANGED active
      BY <1>4 DEF OnStreamDone, Received
    <3>2. token \in Gens
      BY <1>1, <1>4, <3>1 DEF GoodSignal
    <3> QED BY <3>1, <3>2 DEF Opens, Gens
  <2>2. Openings(jobs, q, token) <= 1 /\ Consistent(db, jobs, q, active, history)
    BY <1>1, <2>1, SessionHandles
  <2>3. Calm(jobs, q)
    <3>1. q \in Seq(GoodSignal)
      BY <1>1
    <3> HIDE DEF q
    <3> QED BY <1>1, <2>1, <2>2, <3>1, OneTurnFacts
  <2> QED BY <1>1, <2>1, <2>2, <2>3, RememberedFinish
<1>5. CASE OnCreated \/ OnCreatedToSend
  <2> DEFINE c == Head(signals).conv
  <2>1. Head(signals).kind \in Creates /\ Head(signals).kind \in Opens /\ active' = c
    BY <1>5 DEF OnCreated, OnCreatedToSend, Received, Creates, Opens
  <2>2. token = 0 /\ Calm(jobs, q) /\ Consistent(db, jobs, signals, active, history)
    BY <1>1, <2>1, SessionOpens
  <2>3. Consistent(db, jobs, q, c, <<>>)
    BY <1>1, <2>1, <2>2, Creating
  <2>4. CASE Submitted(<<l>>) /\ history' = <<>> /\ UNCHANGED token
    <3>1. jobs' = Append(jobs, l)
      BY <1>2, <2>4, SubmittedOne
    <3>2. Consistent(db, jobs', q, c, <<>>)
      BY <1>1, <1>2, <2>3, <3>1, Joins
    <3>3. Openings(jobs', q, token) = Openings(jobs, q, token)
      BY <1>1, <1>2, <3>1, OpeningsSame
    <3>4. Openings(jobs, q, token) = 0
      BY <1>1, <2>2, OpeningsChange
    <3> QED BY <2>1, <2>4, <3>2, <3>3, <3>4
  <2>5. CASE OnCreatedToSend /\ pendingText # 0
    <3>1. pendingText \in 0 .. MaxGens
      BY TypesSplit DEF UiTypes
    <3>2. pendingText \in Gens /\ c \in 0 .. MaxConvs /\ <<>> \in Seq(Message)
      BY <1>1, <2>5, <3>1, Constants DEF Gens, Signal
    <3>3. DoSend(c, pendingText, jobs, <<>>, <<l>>)
      BY <2>5 DEF OnCreatedToSend
    <3>4. Consistent(db, jobs', q, c, history') /\ Openings(jobs', q, token') <= 1
      BY <1>1, <2>2, <2>3, <3>2, <3>3, RememberedSend
    <3> QED BY <2>1, <3>4
  <2> QED BY <1>5, <2>4, <2>5 DEF OnCreated, OnCreatedToSend
<1>6. CASE OnLoaded
  <2>1. /\ Head(signals).kind = "load" /\ history' = Head(signals).rows
        /\ UNCHANGED <<jobs, token, active>>
    BY <1>6 DEF OnLoaded, Received
  <2>2. token = 0 /\ Calm(jobs, q) /\ Consistent(db, jobs, signals, active, history)
    BY <1>1, <2>1, SessionOpens DEF Opens
  <2>3. Consistent(db, jobs, q, active, history')
    BY <1>1, <2>1, <2>2, Loaded
  <2>4. Openings(jobs, q, token) = 0
    BY <1>1, <2>2, OpeningsChange
  <2> QED BY <2>1, <2>3, <2>4
<1>7. CASE OnRefresh
  <2>1. Head(signals).kind \notin Opens /\ Submitted(<<l>>) /\ UNCHANGED <<token, active, history>>
    BY <1>7 DEF OnRefresh, Received, Opens, uiVars
  <2>2. Openings(jobs, q, token) <= 1 /\ Consistent(db, jobs, q, active, history)
    BY <1>1, <2>1, SessionHandles
  <2>3. jobs' = Append(jobs, l)
    BY <1>2, <2>1, SubmittedOne
  <2>4. Consistent(db, jobs', q, active, history)
    BY <1>1, <1>2, <2>2, <2>3, Joins
  <2>5. Openings(jobs', q, token) = Openings(jobs, q, token)
    BY <1>1, <1>2, <2>3, OpeningsSame
  <2> QED BY <2>1, <2>2, <2>4, <2>5
<1> QED BY <1>3, <1>4, <1>5, <1>6, <1>7 DEF OnSignal

(* A statement: its operation is put back, done quietly, or signalled. *)
Follower(d, j, k, n) ==
    /\ k.op = j.op /\ ~Inserts(k)
    /\ k.op = "load" => k.conv = j.conv /\ k.step # 1 /\ k.rows = First(d.msgs[j.conv])
    /\ k.op = "duplicate" /\ k.step > 3 => (j.step > 3 /\ k.copy = j.copy) \/ k.copy = n + 1
    /\ k.op \in Creates => k.conv = n + 1 /\ n + 1 \in Convs

Result(d, j, s) ==
    /\ IF j.op \in Opens THEN s.kind = j.op ELSE s.kind \notin Opens
    /\ j.op \in Creates => s.conv = j.conv /\ j.step > 1
    /\ j.op = "load" => j.step # 1 /\ s.rows = Fetched(j.rows, d.msgs[j.conv])

Proceeds(d, js, q, js2, q2, n) ==
    \/ js2 = Tail(js) /\ q2 = q /\ Head(js).op \notin Opens
    \/ \E k \in GoodJob : js2 = Append(Tail(js), k) /\ q2 = q /\ Follower(d, Head(js), k, n)
    \/ \E s \in GoodSignal : js2 = Tail(js) /\ q2 = Append(q, s) /\ Result(d, Head(js), s)

(* What a statement of j does to the messages of c: nothing, away with them, *)
(* the insertion of one, or a copy into c.                                  *)
Untouched(d, d2, j, c, n) ==
    /\ d2.msgs[c] = d.msgs[c] /\ j \notin Adding(c)
    /\ c \in d.convs => c \in d2.convs
    /\ c \in d2.convs => c \in d.convs \/ c = n + 1
Touches(d, d2, j, c, n) ==
    \/ Untouched(d, d2, j, c, n)
    \/ c \notin d2.convs /\ d2.msgs[c] = <<>>
    \/ /\ j \in Adding(c) /\ c \in d.convs /\ c \in d2.convs
       /\ d2.msgs[c] = Append(d.msgs[c], Head(j.rows))
    \/ j.op = "duplicate" /\ j.step > 3 /\ j.copy = c /\ c \in d2.convs

Shifts(d, js, js2, n) ==
    /\ Head(js) = js[1] /\ 1 \in DOMAIN js /\ js[1] \in GoodJob
    /\ \A i \in DOMAIN js2 : /\ i \in Nat /\ i > 0
                             /\ \/ i + 1 \in DOMAIN js /\ js2[i] = js[i + 1]
                                \/ Follower(d, Head(js), js2[i], n)
    /\ \A i \in DOMAIN js : i # 1 => i - 1 \in DOMAIN js2 /\ js2[i - 1] = js[i]

LEMMA ProceedsTo ==
  ASSUME NEW d, NEW js \in Seq(GoodJob), js # <<>>, NEW q, NEW js2, NEW q2, NEW n,
         Proceeds(d, js, q, js2, q2, n)
  PROVE  Shifts(d, js, js2, n)
<1>1. /\ Len(js) \in Nat \ {0} /\ DOMAIN js = 1 .. Len(js) /\ Head(js) = js[1]
      /\ DOMAIN Tail(js) = 1 .. Len(js) - 1
      /\ \A i \in 1 .. Len(js) - 1 : Tail(js)[i] = js[i + 1] /\ i + 1 \in 1 .. Len(js)
  BY TailOf
<1>3. 1 \in DOMAIN js /\ js[1] \in GoodJob
  BY <1>1
<1>4. ASSUME NEW i \in DOMAIN js2
      PROVE  /\ i \in Nat /\ i > 0
             /\ \/ i + 1 \in DOMAIN js /\ js2[i] = js[i + 1]
                \/ Follower(d, Head(js), js2[i], n)
  <2>1. CASE js2 = Tail(js)
    BY <1>1, <2>1
  <2>2. ASSUME NEW k \in GoodJob, js2 = Append(Tail(js), k), Follower(d, Head(js), k, n)
        PROVE  /\ i \in Nat /\ i > 0
               /\ \/ i + 1 \in DOMAIN js /\ js2[i] = js[i + 1]
                  \/ Follower(d, Head(js), js2[i], n)
    <3>1. /\ DOMAIN js2 = 1 .. Len(js) /\ js2[Len(js)] = k
          /\ \A m \in 1 .. Len(js) - 1 : js2[m] = js[m + 1]
      BY <2>2, TurnOf
    <3>2. i = Len(js) \/ i \in 1 .. Len(js) - 1
      BY <1>1, <3>1
    <3> QED BY <1>1, <2>2, <3>1, <3>2
  <2> QED BY <2>1, <2>2 DEF Proceeds
<1>5. ASSUME NEW i \in DOMAIN js, i # 1 PROVE i - 1 \in DOMAIN js2 /\ js2[i - 1] = js[i]
  <2>1. i - 1 \in 1 .. Len(js) - 1 /\ (i - 1) + 1 = i /\ i - 1 \in 1 .. Len(js)
    BY <1>1, <1>5
  <2>2. CASE js2 = Tail(js)
    <3>1. Tail(js)[i - 1] = js[(i - 1) + 1] /\ i - 1 \in DOMAIN Tail(js)
      BY <1>1, <2>1
    <3> QED BY <2>1, <2>2, <3>1
  <2>3. ASSUME NEW k \in GoodJob, js2 = Append(Tail(js), k)
        PROVE  i - 1 \in DOMAIN js2 /\ js2[i - 1] = js[i]
    <3>1. DOMAIN js2 = 1 .. Len(js) /\ \A m \in 1 .. Len(js) - 1 : js2[m] = js[m + 1]
      BY <2>3, TurnOf
    <3>2. js2[i - 1] = js[(i - 1) + 1]
      BY <2>1, <3>1
    <3> QED BY <2>1, <3>1, <3>2
  <2> QED BY <2>2, <2>3 DEF Proceeds
<1> QED BY <1>1, <1>3, <1>4, <1>5 DEF Shifts

LEMMA ProceedsCount ==
  ASSUME NEW d, NEW js \in Seq(GoodJob), js # <<>>, NEW q \in Seq(GoodSignal), NEW js2, NEW q2,
         NEW n, NEW t, Proceeds(d, js, q, js2, q2, n)
  PROVE  Openings(js2, q2, t) = Openings(js, q, t)
<1> DEFINE r == Tail(js)
           one == IF Head(js).op \in Opens THEN 1 ELSE 0
<1>1. r \in Seq(GoodJob)
  OBVIOUS
<1>2. Openings(js, q, t) = Openings(r, q, t) + one
  BY OpeningsChange
<1>3. CASE js2 = r /\ q2 = q /\ Head(js).op \notin Opens
  BY <1>1, <1>3, OpeningsSame
<1>4. ASSUME NEW k \in GoodJob, js2 = Append(r, k), q2 = q, Follower(d, Head(js), k, n)
      PROVE  Openings(js2, q2, t) = Openings(js, q, t)
  <2>1. Openings(Append(r, k), q, t) = Openings(r, q, t) + IF k.op \in Opens THEN 1 ELSE 0
    <3> HIDE DEF r
    <3> QED BY <1>1, OpeningsChange
  <2>2. k.op = Head(js).op
    BY <1>4 DEF Follower
  <2> QED BY <1>2, <1>4, <2>1, <2>2
<1>5. ASSUME NEW s \in GoodSignal, js2 = r, q2 = Append(q, s), Result(d, Head(js), s)
      PROVE  Openings(js2, q2, t) = Openings(js, q, t)
  <2>1. Openings(r, Append(q, s), t) = Openings(r, q, t) + IF s.kind \in Opens THEN 1 ELSE 0
    <3> HIDE DEF r
    <3> QED BY <1>1, OpeningsChange
  <2>2. s.kind \in Opens <=> Head(js).op \in Opens
    BY <1>5 DEF Result
  <2> QED BY <1>2, <1>5, <2>1, <2>2
<1> QED BY <1>3, <1>4, <1>5 DEF Proceeds

Clears(js, js2, n) ==
    /\ \A b : \A m \in Nat : NoAdds(js, b, m + 1) => NoAdds(js2, b, m)
    /\ \A b : NoAdds(js, b, 0) => NoAdds(js2, b, 0)
    /\ \A b : Elsewhere(js, b) /\ b # n + 1 => Elsewhere(js2, b)

LEMMA ProceedsKeeps ==
  ASSUME NEW d, NEW js \in Seq(GoodJob), js # <<>>, NEW q, NEW js2, NEW q2, NEW n \in Nat,
         Proceeds(d, js, q, js2, q2, n)
  PROVE  Clears(js, js2, n)
<1>0. Shifts(d, js, js2, n)
  BY ProceedsTo
<1>1. \A k, b : Follower(d, Head(js), k, n) => k \notin Adding(b)
  BY DEF Follower, Adding
<1>2. ASSUME NEW b, NEW m \in Nat, NoAdds(js, b, m + 1) PROVE NoAdds(js2, b, m)
  <2>1. SUFFICES ASSUME NEW i \in DOMAIN js2, i > m PROVE js2[i] \notin Adding(b)
    BY DEF NoAdds
  <2>2. i \in Nat /\ (\/ i + 1 \in DOMAIN js /\ js2[i] = js[i + 1]
                     \/ Follower(d, Head(js), js2[i], n))
    BY <1>0 DEF Shifts
  <2>3. i + 1 > m + 1
    BY <2>1, <2>2
  <2> QED BY <1>1, <1>2, <2>2, <2>3 DEF NoAdds
<1>3. ASSUME NEW b, NoAdds(js, b, 0) PROVE NoAdds(js2, b, 0)
  <2>1. \A i \in DOMAIN js : js[i] \notin Adding(b)
    <3>1. \A i \in DOMAIN js : i > 0
      OBVIOUS
    <3> QED BY <1>3, <3>1 DEF NoAdds
  <2>2. \A i \in DOMAIN js2 : \/ i + 1 \in DOMAIN js /\ js2[i] = js[i + 1]
                              \/ Follower(d, Head(js), js2[i], n)
    BY <1>0 DEF Shifts
  <2> QED BY <1>1, <2>1, <2>2 DEF NoAdds
<1>4. ASSUME NEW b, Elsewhere(js, b), b # n + 1 PROVE Elsewhere(js2, b)
  BY <1>0, <1>4 DEF Shifts, Elsewhere, Follower
<1> QED BY <1>2, <1>3, <1>4 DEF Clears

(* One signal more, if any. *)
Signals(d, js, js2, q, q2) ==
    /\ \A i \in DOMAIN q : i \in DOMAIN q2 /\ q2[i] = q[i]
    /\ \A i \in DOMAIN q2 : \/ i \in DOMAIN q /\ q2[i] = q[i]
                            \/ Result(d, Head(js), q2[i]) /\ js2 = Tail(js)

LEMMA ProceedsSignals ==
  ASSUME NEW d, NEW js, NEW q \in Seq(GoodSignal), NEW js2, NEW q2, NEW n,
         Proceeds(d, js, q, js2, q2, n)
  PROVE  Signals(d, js, js2, q, q2)
<1>1. ASSUME NEW s \in GoodSignal, q2 = Append(q, s), js2 = Tail(js), Result(d, Head(js), s)
      PROVE  Signals(d, js, js2, q, q2)
  BY <1>1, AppendOf DEF Signals
<1> QED BY <1>1 DEF Proceeds, Signals

LEMMA NewbornKept ==
  ASSUME NEW d, NEW js \in Seq(GoodJob), js # <<>>, NEW q, NEW js2, NEW q2, NEW n \in Nat,
         Proceeds(d, js, q, js2, q2, n), NEW d2, NEW b, Newborn(d, js, b), b # n + 1,
         Touches(d, d2, Head(js), b, n)
  PROVE  Newborn(d2, js2, b)
<1>0. Shifts(d, js, js2, n) /\ Clears(js, js2, n)
  BY ProceedsTo, ProceedsKeeps
<1>1. NoAdds(js2, b, 0) /\ Elsewhere(js2, b)
  BY <1>0 DEF Newborn, Clears
<1>2. js[1] \notin Adding(b) /\ ~(js[1].op = "duplicate" /\ js[1].step > 3 /\ js[1].copy = b)
  BY <1>0 DEF Newborn, NoAdds, Elsewhere, Shifts
<1>3. d2.msgs[b] = <<>>
  BY <1>0, <1>2 DEF Touches, Untouched, Newborn, Shifts
<1> QED BY <1>1, <1>3 DEF Newborn

(* Nothing was inserted or deleted between a SELECT and its fetch. *)
LEMMA FetchedWhole == ASSUME NEW ms PROVE Fetched(First(ms), ms) = ms
<1>1. CASE ms = <<>>
  BY <1>1 DEF Fetched, First
<1>2. CASE ms # <<>>
  <2>1. First(ms) = <<Head(ms)>> /\ <<Head(ms)>> # <<>>
    BY <1>2 DEF First
  <2> QED BY <1>2, <2>1 DEF Fetched
<1> QED BY <1>1, <1>2

(* The session stays consistent with the database. *)
LEMMA ConsistentProceeds ==
  ASSUME NEW d \in Database, NEW d2 \in Database, NEW js \in Seq(GoodJob), js # <<>>,
         NEW q \in Seq(GoodSignal), NEW js2, NEW q2, NEW n \in Nat, NEW c, NEW h,
         Proceeds(d, js, q, js2, q2, n), Consistent(d, js, q, c, h), Emptied(d),
         \A b \in Convs : Touches(d, d2, Head(js), b, n),
         c # n + 1, n + 1 \notin d.convs,
         \A i \in DOMAIN js : js[i].conv # n + 1 /\ js[i].copy # n + 1,
         \A i \in DOMAIN q : q[i].conv # n + 1
  PROVE  Consistent(d2, js2, q2, c, h)
<1>0. Shifts(d, js, js2, n) /\ Clears(js, js2, n) /\ Signals(d, js, js2, q, q2)
  BY ProceedsTo, ProceedsKeeps, ProceedsSignals
<1> DEFINE j == Head(js)
<1>1. /\ j = js[1] /\ 1 \in DOMAIN js /\ j \in GoodJob
      /\ \A i \in DOMAIN js2 : /\ i \in Nat /\ i > 0
                               /\ \/ i + 1 \in DOMAIN js /\ js2[i] = js[i + 1]
                                  \/ Follower(d, j, js2[i], n)
      /\ \A i \in DOMAIN js : i # 1 => i - 1 \in DOMAIN js2 /\ js2[i - 1] = js[i]
  BY <1>0 DEF Shifts
<1>2. /\ \A b : \A m \in Nat : NoAdds(js, b, m + 1) => NoAdds(js2, b, m)
      /\ \A b : NoAdds(js, b, 0) => NoAdds(js2, b, 0)
      /\ \A b : Elsewhere(js, b) /\ b # n + 1 => Elsewhere(js2, b)
  BY <1>0 DEF Clears
<1>3. /\ \A i \in DOMAIN q : i \in DOMAIN q2 /\ q2[i] = q[i]
      /\ \A i \in DOMAIN q2 : \/ i \in DOMAIN q /\ q2[i] = q[i]
                              \/ Result(d, j, q2[i]) /\ js2 = Tail(js)
  BY <1>0 DEF Signals
<1>4. /\ LoadsLast(js, c) /\ LoadsRead(d, js, q, c) /\ Elsewhere(js, c)
      /\ Newborns(d, js, q) /\ Agree(d, js, q, c, h)
  BY DEF Consistent
<1> HIDE DEF j
<1>5. LoadsLast(js2, c)
  <2> SUFFICES ASSUME NEW i \in DOMAIN js2, js2[i].op = "load"
               PROVE  js2[i].conv = c /\ NoAdds(js2, c, i)
    BY DEF LoadsLast
  <2>1. i \in Nat /\ i > 0
    BY <1>1
  <2>2. CASE i + 1 \in DOMAIN js /\ js2[i] = js[i + 1]
    BY <1>2, <1>4, <2>1, <2>2 DEF LoadsLast
  <2>3. CASE Follower(d, j, js2[i], n)
    <3>1. js2[i].conv = j.conv /\ j.op = "load"
      BY <2>3 DEF Follower
    <3>2. j.conv = c /\ NoAdds(js, c, 1)
      BY <1>1, <1>4, <3>1 DEF LoadsLast
    <3>3. NoAdds(js2, c, 0)
      <4>1. NoAdds(js, c, 0 + 1)
        BY <3>2
      <4> QED BY <1>2, <4>1
    <3>4. \A k \in DOMAIN js2 : k > i => k > 0
      BY <1>1, <2>1
    <3> QED BY <3>1, <3>2, <3>3, <3>4 DEF NoAdds
  <2> QED BY <1>1, <2>2, <2>3
<1>6. c \in d2.convs => c \in Convs /\ Touches(d, d2, j, c, n)
  BY DEF Database, j
<1>7. Elsewhere(js2, c)
  BY <1>2, <1>4
(* The statement left c alone, or it was an insertion into c. *)
<1>8. ASSUME c \in d2.convs
      PROVE  /\ c \in d.convs /\ c \in Convs
             /\ \/ d2.msgs[c] = d.msgs[c] /\ j \notin Adding(c)
                \/ j \in Adding(c) /\ d2.msgs[c] = Append(d.msgs[c], Head(j.rows))
  <2>1. ~(j.op = "duplicate" /\ j.step > 3 /\ j.copy = c)
    BY <1>1, <1>4 DEF Elsewhere
  <2> QED BY <1>6, <1>8, <2>1 DEF Touches, Untouched
<1>14. ASSUME NEW i \in DOMAIN js2, js2[i].op = "load", js2[i].step # 1
       PROVE  NoAdds(js2, c, 0) /\ (c \in d2.convs => js2[i].rows = First(d2.msgs[c]))
  <2>1. CASE i + 1 \in DOMAIN js /\ js2[i] = js[i + 1]
    <3>1. NoAdds(js, c, 0) /\ (c \in d.convs => js2[i].rows = First(d.msgs[c]))
      BY <1>4, <1>14, <2>1 DEF LoadsRead
    <3>2. j \notin Adding(c)
      BY <1>1, <3>1 DEF NoAdds
    <3>3. c \in d2.convs => c \in d.convs /\ d2.msgs[c] = d.msgs[c]
      BY <1>8, <3>2
    <3> QED BY <1>2, <3>1, <3>3
  <2>2. CASE Follower(d, j, js2[i], n)
    <3>1. j.op = "load" /\ js2[i].rows = First(d.msgs[j.conv])
      BY <1>14, <2>2 DEF Follower
    <3>2. j.conv = c /\ NoAdds(js, c, 1)
      BY <1>1, <1>4, <3>1 DEF LoadsLast
    <3>3. NoAdds(js2, c, 0)
      <4>1. NoAdds(js, c, 0 + 1)
        BY <3>2
      <4> QED BY <1>2, <4>1
    <3>4. j \notin Adding(c)
      BY <3>1 DEF Adding, Inserts
    <3>5. c \in d2.convs => d2.msgs[c] = d.msgs[c]
      BY <1>8, <3>4
    <3> QED BY <3>1, <3>2, <3>3, <3>5
  <2> QED BY <1>1, <2>1, <2>2
<1>9. LoadsRead(d2, js2, q2, c)
  <2> SUFFICES ASSUME NEW i \in DOMAIN q2, q2[i].kind = "load"
               PROVE  NoAdds(js2, c, 0) /\ (c \in d2.convs => q2[i].rows = d2.msgs[c])
    BY <1>14 DEF LoadsRead
  <2>1. CASE i \in DOMAIN q /\ q2[i] = q[i]
    <3>1. NoAdds(js, c, 0) /\ (c \in d.convs => q2[i].rows = d.msgs[c])
      BY <1>4, <2>1 DEF LoadsRead
    <3>2. j \notin Adding(c)
      BY <1>1, <3>1 DEF NoAdds
    <3> QED BY <1>2, <1>8, <3>1, <3>2
  <2>2. CASE Result(d, j, q2[i]) /\ js2 = Tail(js)
    <3>1. j.op = "load" /\ j.step # 1 /\ q2[i].rows = Fetched(j.rows, d.msgs[j.conv])
      BY <2>2 DEF Result, Opens
    <3>2. j.conv = c /\ NoAdds(js, c, 0) /\ (c \in d.convs => j.rows = First(d.msgs[c]))
      BY <1>1, <1>4, <3>1 DEF LoadsLast, LoadsRead
    <3>3. NoAdds(js2, c, 0)
      BY <1>2, <3>2
    <3>4. j \notin Adding(c)
      BY <3>1 DEF Adding, Inserts
    <3>5. ASSUME c \in d2.convs PROVE q2[i].rows = d2.msgs[c]
      <4>1. c \in d.convs /\ d2.msgs[c] = d.msgs[c]
        BY <1>8, <3>4, <3>5
      <4>2. q2[i].rows = Fetched(First(d.msgs[c]), d.msgs[c])
        BY <3>1, <3>2, <4>1
      <4> QED BY <4>1, <4>2, FetchedWhole
    <3> QED BY <3>3, <3>5
  <2> QED BY <1>3, <2>1, <2>2
<1>10. \A b : Newborn(d, js, b) /\ b # n + 1 => Newborn(d2, js2, b)
  <2> SUFFICES ASSUME NEW b, Newborn(d, js, b), b # n + 1 PROVE Newborn(d2, js2, b)
    OBVIOUS
  <2>1. Touches(d, d2, Head(js), b, n)
    BY DEF Newborn
  <2> QED BY <2>1, NewbornKept
<1>11. Newborns(d2, js2, q2)
  <2>1. ASSUME NEW i \in DOMAIN js2, js2[i].op \in Creates, js2[i].step > 1
        PROVE  Newborn(d2, js2, js2[i].conv)
    <3>1. CASE i + 1 \in DOMAIN js /\ js2[i] = js[i + 1]
      <4>1. Newborn(d, js, js2[i].conv) /\ js2[i].conv # n + 1
        BY <1>4, <2>1, <3>1 DEF Newborns
      <4> QED BY <1>10, <4>1
    <3>2. CASE Follower(d, j, js2[i], n)
      <4> DEFINE b == n + 1
      <4>1. js2[i].conv = b /\ b \in Convs /\ j.op \in Creates
        BY <2>1, <3>2 DEF Follower
      <4>2. d.msgs[b] = <<>>
        BY <4>1 DEF Emptied
      <4>3. j \notin Adding(b) /\ j.op # "duplicate"
        BY <4>1 DEF Adding, Inserts, Creates
      <4>4. d2.msgs[b] = <<>>
        <5>1. Touches(d, d2, j, b, n)
          BY <4>1 DEF j
        <5> QED BY <4>2, <4>3, <5>1 DEF Touches, Untouched
      <4>5. NoAdds(js, b, 0)
        BY DEF NoAdds, Adding
      <4>6. NoAdds(js2, b, 0)
        BY <1>2, <4>5
      <4>7. Elsewhere(js2, b)
        <5>1. ASSUME NEW m \in DOMAIN js2 PROVE ~(js2[m].op = "duplicate" /\ js2[m].copy = b)
          BY <1>1, <4>3 DEF Follower
        <5> QED BY <5>1 DEF Elsewhere
      <4> QED BY <4>1, <4>4, <4>6, <4>7 DEF Newborn
    <3> QED BY <1>1, <3>1, <3>2
  <2>2. ASSUME NEW i \in DOMAIN q2, q2[i].kind \in Creates
        PROVE  Newborn(d2, js2, q2[i].conv)
    <3>1. CASE i \in DOMAIN q /\ q2[i] = q[i]
      <4>1. Newborn(d, js, q2[i].conv) /\ q2[i].conv # n + 1
        BY <1>4, <2>2, <3>1 DEF Newborns
      <4> QED BY <1>10, <4>1
    <3>2. CASE Result(d, j, q2[i])
      <4>1. j.op \in Creates
        BY <2>2, <3>2 DEF Result, Creates, Opens
      <4>2. q2[i].conv = j.conv /\ j.step > 1
        BY <3>2, <4>1 DEF Result
      <4>3. Newborn(d, js, j.conv) /\ j.conv # n + 1
        BY <1>1, <1>4, <4>1, <4>2 DEF Newborns
      <4> QED BY <1>10, <4>2, <4>3
    <3> QED BY <1>3, <3>1, <3>2
  <2> QED BY <2>1, <2>2 DEF Newborns
<1>12. Loading(js, q) => Loading(js2, q2)
  <2>1. ASSUME NEW i \in DOMAIN q, q[i].kind = "load" PROVE Loading(js2, q2)
    BY <1>3, <2>1 DEF Loading
  <2>2. ASSUME NEW i \in DOMAIN js, js[i].op = "load" PROVE Loading(js2, q2)
    <3>1. CASE i # 1
      <4>1. i - 1 \in DOMAIN js2 /\ js2[i - 1].op = "load"
        BY <1>1, <2>2, <3>1
      <4> QED BY <4>1 DEF Loading
    <3>2. CASE i = 1
      <4>1. j.op = "load" /\ j.op \in Opens
        BY <1>1, <2>2, <3>2 DEF Opens
      <4>2. ASSUME NEW s \in GoodSignal, q2 = Append(q, s), Result(d, j, s) PROVE Loading(js2, q2)
        <5>1. s.kind = "load"
          BY <4>1, <4>2 DEF Result
        <5>2. Len(q) + 1 \in DOMAIN q2 /\ q2[Len(q) + 1] = s
          BY <4>2, AppendOf
        <5> QED BY <5>1, <5>2 DEF Loading
      <4>3. ASSUME NEW k \in GoodJob, js2 = Append(Tail(js), k), Follower(d, j, k, n)
            PROVE  Loading(js2, q2)
        <5>1. k.op = "load"
          BY <4>1, <4>3 DEF Follower
        <5>2. Len(js) \in DOMAIN js2 /\ js2[Len(js)] = k
          BY <4>3, TurnOf
        <5> QED BY <5>1, <5>2 DEF Loading
      <4> QED BY <4>1, <4>2, <4>3 DEF Proceeds, j
    <3> QED BY <3>1, <3>2
  <2> QED BY <2>1, <2>2 DEF Loading
<1>13. Agree(d2, js2, q2, c, h)
  <2> SUFFICES ASSUME ~Loading(js, q), c \in d2.convs
               PROVE  Spoken(h) = Spoken(d2.msgs[c] \o Arriving(js2, c))
    BY <1>12 DEF Agree
  <2> DEFINE a == Arriving(Tail(js), c)
             m == d.msgs[c]
  <2>1. Spoken(h) = Spoken(m \o Arriving(js, c))
    BY <1>4, <1>8 DEF Agree
  <2>2. Tail(js) \in Seq(GoodJob)
    OBVIOUS
  <2>3. Arriving(js2, c) = a
    <3>1. ASSUME NEW k \in GoodJob, js2 = Append(Tail(js), k), Follower(d, j, k, n)
          PROVE  Arriving(js2, c) = a
      <4>1. k \notin Adding(c)
        BY <3>1 DEF Follower, Adding
      <4> QED BY <2>2, <3>1, <4>1, ArrivingFacts
    <3> QED BY <3>1 DEF Proceeds, j
  <2>4. a \in Seq(Message) /\ m \in Seq(Message)
    BY <1>8, <2>2, ArrivingFacts DEF Database
  <2>5. Arriving(js, c) = (IF j \in Adding(c) THEN <<Head(j.rows)>> ELSE <<>>) \o a
    BY ArrivingFacts DEF j
  <2> HIDE DEF a, m
  <2>6. CASE d2.msgs[c] = d.msgs[c] /\ j \notin Adding(c)
    <3>1. <<>> \o a = a
      BY <2>4
    <3> QED BY <2>1, <2>3, <2>5, <2>6, <3>1 DEF m
  <2>7. CASE j \in Adding(c) /\ d2.msgs[c] = Append(d.msgs[c], Head(j.rows))
    <3>1. Head(j.rows) \in Message
      <4>1. j.rows \in Seq(Message) /\ j.rows # <<>>
        BY <1>1, <2>7 DEF Adding, Inserts, GoodJob, Job
      <4> QED BY <4>1
    <3>2. Append(m, Head(j.rows)) \o a = m \o (<<Head(j.rows)>> \o a)
      <4>1. \A x \in Message : Append(m, x) \o a = m \o (<<x>> \o a)
        BY <2>4
      <4> QED BY <3>1, <4>1
    <3> QED BY <2>1, <2>3, <2>5, <2>7, <3>2 DEF m
  <2> QED BY <1>8, <2>6, <2>7
<1> QED BY <1>5, <1>7, <1>9, <1>11, <1>13 DEF Consistent

(* Every statement proceeds like that. *)
LEMMA StatementStart ==
  ASSUME Types, Types', Drawn, jobs # <<>>
  PROVE  /\ CompleteQuietly /\ Head(jobs).op \notin Opens
               => Proceeds(db, jobs, signals, jobs', signals', ids)
         /\ \A k : Continue(k) => /\ k \in GoodJob
                                  /\ Follower(db, Head(jobs), k, ids)
                                       => Proceeds(db, jobs, signals, jobs', signals', ids)
         /\ \A s : Complete(s) /\ Result(db, Head(jobs), s)
               => Proceeds(db, jobs, signals, jobs', signals', ids)
<1>1. CompleteQuietly /\ Head(jobs).op \notin Opens => Proceeds(db, jobs, signals, jobs', signals', ids)
  BY DEF CompleteQuietly, Proceeds
<1>2. ASSUME NEW k, Continue(k)
      PROVE  /\ k \in GoodJob
             /\ Follower(db, Head(jobs), k, ids) => Proceeds(db, jobs, signals, jobs', signals', ids)
  <2>1. k \in GoodJob
    BY <1>2, TallyStart DEF TurnedTo
  <2> QED BY <1>2, <2>1 DEF Continue, Proceeds
<1>3. ASSUME NEW s, Complete(s), Result(db, Head(jobs), s)
      PROVE  Proceeds(db, jobs, signals, jobs', signals', ids)
  <2>1. signals' = Append(signals, s) /\ signals \in Seq(GoodSignal) /\ signals' \in Seq(GoodSignal)
    BY <1>3 DEF Complete, Types, Queues
  <2>2. signals'[Len(signals')] = s /\ Len(signals') \in DOMAIN signals'
    BY <2>1
  <2>3. s \in GoodSignal
    BY <2>1, <2>2
  <2> QED BY <1>3, <2>3 DEF Complete, Proceeds
<1> QED BY <1>1, <1>2, <1>3

Stated == /\ Proceeds(db, jobs, signals, jobs', signals', ids)
          /\ \A c \in Convs : Touches(db, db', Head(jobs), c, ids)

LEMMA TouchesSame ==
  ASSUME NEW d, NEW d2, NEW j, NEW c, NEW n, SameAt(d, d2, c), j \notin Adding(c)
  PROVE  Touches(d, d2, j, c, n)
BY DEF SameAt, Touches, Untouched

LEMMA CreateStated ==
  ASSUME Types, Types', Drawn, NEW op \in {"create", "createSend"}, Create(op)
  PROVE  Stated
<1> DEFINE j == Head(jobs)
<1>1. jobs # <<>> /\ j.op = op
  BY DEF Create, At
<1>2. /\ db \in Database /\ db' \in Database /\ ids \in Nat /\ j \in Job /\ j.step \in Nat
      /\ jobs \in Seq(GoodJob)
  BY <1>1, TallyStart
<1>3. \A c : j \notin Adding(c)
  BY <1>1 DEF Adding, Inserts
<1>4. CASE At(op, 1)
  <2> DEFINE k == [Next1(j) EXCEPT !.conv = ids + 1]
  <2>1. /\ j.step = 1 /\ ids < MaxConvs /\ db' = InsertConversation(db, ids + 1) /\ Continue(k)
    BY <1>4 DEF Create, At
  <2>2. ids + 1 \in Convs
    BY <1>2, <2>1, Constants DEF Convs
  <2>3. k.op = op /\ k.conv = ids + 1
    <3>1. Next1(j) \in Job /\ Next1(j).op = op
      BY <1>1, <1>2, NextFields
    <3> HIDE DEF j
    <3> QED BY <3>1 DEF Job
  <2> HIDE DEF k
  <2>4. Follower(db, j, k, ids)
    BY <1>1, <2>2, <2>3 DEF Follower, Inserts
  <2>5. Proceeds(db, jobs, signals, jobs', signals', ids)
    BY <1>1, <2>1, <2>4, StatementStart
  <2>6. ASSUME NEW c \in Convs PROVE Touches(db, db', j, c, ids)
    <3>1. CASE c # ids + 1
      BY <1>2, <1>3, <2>1, <3>1, TotalStatements, TouchesSame
    <3>2. CASE c = ids + 1
      BY <1>2, <1>3, <2>1, <3>2, TotalChanges DEF Touches, Untouched
    <3> QED BY <3>1, <3>2
  <2> QED BY <2>5, <2>6 DEF Stated
<1>5. CASE At(op, 2)
  <2> DEFINE s == [NewSignal(op) EXCEPT !.conv = j.conv]
  <2>1. j.step = 2 /\ db' = db /\ Complete(s)
    BY <1>5 DEF Create, At
  <2>2. s.kind = op /\ s.conv = j.conv
    BY DEF NewSignal
  <2> HIDE DEF s
  <2>3. Result(db, j, s)
    BY <1>1, <2>1, <2>2 DEF Result, Opens
  <2>4. \A c : SameAt(db, db', c)
    BY <2>1 DEF SameAt
  <2> QED BY <1>1, <1>3, <2>1, <2>3, <2>4, StatementStart, TouchesSame DEF Stated
<1> QED BY <1>4, <1>5 DEF Create

LEMMA AddStated ==
  ASSUME Types, Types', Drawn, Emptied(db), Add
  PROVE  Stated
<1> DEFINE j == Head(jobs)
           x == j.conv
           k == Next1(j)
<1>1. jobs # <<>> /\ j.op = "add" /\ j.step \in 1 .. 3
  BY DEF Add, At
<1>2. /\ db \in Database /\ db' \in Database /\ ids \in Nat /\ j \in Job /\ j.step \in Nat
      /\ jobs \in Seq(GoodJob)
  BY <1>1, TallyStart
<1>3. k.op = "add" /\ k.step = j.step + 1 /\ j \in GoodJob
  <2>1. j \in GoodJob
    BY <1>1, <1>2
  <2> QED BY <1>1, <1>2, <2>1, NextFields
<1>4. \A c : j \in Adding(c) <=> j.step = 1 /\ x = c
  BY <1>1, <1>3 DEF Adding, Inserts
<1> HIDE DEF j, k
<1>5. Follower(db, j, k, ids)
  <2>1. k.step # 1
    BY <1>1, <1>2, <1>3
  <2> QED BY <1>1, <1>3, <2>1 DEF Follower, Inserts, Creates
<1>6. CompleteQuietly \/ Continue(k) => Proceeds(db, jobs, signals, jobs', signals', ids)
  BY <1>1, <1>5, StatementStart DEF Opens, j
<1>7. ASSUME NEW c \in Convs, SameAt(db, db', c), j.step # 1 \/ x # c
      PROVE  Touches(db, db', j, c, ids)
  BY <1>4, <1>7, TouchesSame
<1>8. CASE At("add", 1) /\ MayInsertMessage(db, x)
  <2>1. j.step = 1 /\ Continue(k) /\ db' = InsertMessage(db, x, Head(j.rows)) /\ x \in db.convs
    BY <1>8 DEF Add, At, MayInsertMessage, j, k
  <2>2. ASSUME NEW c \in Convs PROVE Touches(db, db', j, c, ids)
    <3>1. CASE c # x
      BY <1>2, <1>7, <2>1, <3>1, TotalStatements
    <3>2. CASE c = x
      <4>1. db'.convs = db.convs /\ db'.msgs[c] = Append(db.msgs[c], Head(j.rows))
        BY <1>2, <2>1, <3>2 DEF Database, InsertMessage
      <4> QED BY <1>4, <2>1, <3>2, <4>1 DEF Touches
    <3> QED BY <3>1, <3>2
  <2> QED BY <1>6, <2>1, <2>2 DEF Stated, j
<1>9. CASE At("add", 1) /\ ~MayInsertMessage(db, x)
  <2>1. CompleteQuietly /\ db' = db /\ x \notin db.convs
    BY <1>9 DEF Add, At, MayInsertMessage, dbVars, j
  <2>2. ASSUME NEW c \in Convs PROVE Touches(db, db', j, c, ids)
    <3>1. CASE c # x
      BY <1>7, <2>1, <3>1 DEF SameAt
    <3>2. CASE c = x
      BY <2>1, <3>2 DEF Touches, Emptied
    <3> QED BY <3>1, <3>2
  <2> QED BY <1>6, <2>1, <2>2 DEF Stated, j
<1>10. CASE At("add", 2)
  <2>1. j.step = 2 /\ Continue(k) /\ db' = CountMessage(db, x)
    BY <1>10 DEF Add, At, j, k
  <2>2. ASSUME NEW c \in Convs PROVE Touches(db, db', j, c, ids)
    <3>1. CASE c # x \/ c \notin db.convs
      BY <1>2, <1>7, <2>1, <3>1, TotalStatements
    <3>2. CASE c = x /\ c \in db.convs
      <4>1. c \in db'.convs /\ db'.msgs[c] = db.msgs[c]
        BY <1>2, <2>1, <3>2, TotalChanges
      <4>2. j \notin Adding(c)
        BY <1>4, <2>1
      <4> QED BY <3>2, <4>1, <4>2 DEF Touches, Untouched
    <3> QED BY <3>1, <3>2
  <2> QED BY <1>6, <2>1, <2>2 DEF Stated, j
<1>11. CASE At("add", 3)
  <2>1. j.step = 3 /\ CompleteQuietly /\ db' = db
    BY <1>11 DEF Add, At, j
  <2>2. \A c \in Convs : Touches(db, db', j, c, ids)
    BY <1>7, <2>1 DEF SameAt
  <2> QED BY <1>6, <2>1, <2>2 DEF Stated, j
<1> QED BY <1>8, <1>9, <1>10, <1>11 DEF Add, j

LEMMA ReadStated ==
  ASSUME Types, Types', Drawn, Load \/ List
  PROVE  Stated
<1> DEFINE j == Head(jobs)
<1>1. jobs # <<>> /\ j.op \in {"load", "list"} /\ db' = db
  BY DEF Load, List, At, dbVars
<1>2. ASSUME NEW c PROVE Touches(db, db', j, c, ids)
  <2>1. j \notin Adding(c) /\ SameAt(db, db', c)
    BY <1>1 DEF Adding, Inserts, SameAt
  <2> QED BY <2>1, TouchesSame
<1>3. j \in Job /\ j.step \in Nat
  BY <1>1, TallyStart
<1>4. CASE Load
  <2>1. CASE At("load", 1)
    <3> DEFINE k == [Next1(j) EXCEPT !.rows = First(db.msgs[j.conv])]
    <3>1. Continue(k) /\ j.op = "load" /\ j.step = 1
      BY <1>4, <2>1 DEF Load, At
    <3>2. k.op = j.op /\ k.conv = j.conv /\ k.step # 1 /\ k.rows = First(db.msgs[j.conv])
      <4> HIDE DEF j
      <4>1. /\ Next1(j) \in Job /\ Next1(j).op = j.op /\ Next1(j).conv = j.conv
            /\ Next1(j).step = j.step + 1
        BY <1>3, NextFields
      <4> DEFINE l == Next1(j)
      <4> HIDE DEF l
      <4>2. l \in Job /\ l.op = j.op /\ l.conv = j.conv /\ l.step = j.step + 1
        BY <4>1 DEF l
      <4>3. \A r : LET m == [l EXCEPT !.rows = r] IN
               m.op = j.op /\ m.conv = j.conv /\ m.step = j.step + 1 /\ m.rows = r
        BY <4>2 DEF Job
      <4> QED BY <3>1, <4>3 DEF l
    <3> HIDE DEF k
    <3>3. Follower(db, j, k, ids)
      BY <3>1, <3>2 DEF Follower, Inserts, Creates
    <3> QED BY <1>1, <1>2, <3>1, <3>3, StatementStart DEF Stated
  <2>2. CASE At("load", 2)
    <3> DEFINE s == [NewSignal("load") EXCEPT !.rows = Fetched(j.rows, db.msgs[j.conv])]
    <3>1. Complete(s) /\ j.op = "load" /\ j.step = 2
      BY <1>4, <2>2 DEF Load, At
    <3>2. s.kind = "load" /\ s.rows = Fetched(j.rows, db.msgs[j.conv])
      BY DEF NewSignal
    <3> HIDE DEF s
    <3>3. Result(db, j, s)
      BY <3>1, <3>2 DEF Result, Opens, Creates
    <3> QED BY <1>1, <1>2, <3>1, <3>3, StatementStart DEF Stated
  <2> QED BY <1>4, <2>1, <2>2 DEF Load
<1>5. CASE List
  <2>1. CASE At("list", 1)
    <3> DEFINE k == [Next1(j) EXCEPT !.shown = Listed(db)]
    <3>1. Continue(k) /\ j.op = "list"
      BY <1>5, <2>1 DEF List, At
    <3>2. k.op = j.op
      <4> HIDE DEF j
      <4>1. Next1(j) \in Job /\ Next1(j).op = j.op
        BY <1>3, NextFields
      <4> QED BY <4>1 DEF Job
    <3> HIDE DEF k
    <3>3. Follower(db, j, k, ids)
      BY <3>1, <3>2 DEF Follower, Inserts, Creates
    <3> QED BY <1>1, <1>2, <3>1, <3>3, StatementStart DEF Stated
  <2>2. CASE At("list", 2)
    <3> DEFINE s == [NewSignal("list") EXCEPT !.shown = j.shown]
    <3>1. Complete(s) /\ j.op = "list"
      BY <1>5, <2>2 DEF List, At
    <3>2. s.kind = "list"
      BY DEF NewSignal
    <3> HIDE DEF s
    <3>3. Result(db, j, s)
      BY <3>1, <3>2 DEF Result, Opens, Creates
    <3> QED BY <1>1, <1>2, <3>1, <3>3, StatementStart DEF Stated
  <2> QED BY <1>5, <2>1, <2>2 DEF List
<1> QED BY <1>4, <1>5

LEMMA RefreshResult ==
  ASSUME NEW d, NEW j, j.op \notin Opens
  PROVE  Result(d, j, NewSignal("refresh"))
BY DEF NewSignal, Result, Opens, Creates

LEMMA ChangeStated ==
  ASSUME Types, Types', Drawn,
         \/ Change("archive", Archive(db, Head(jobs).conv))
         \/ Change("delete", DeleteConversation(db, Head(jobs).conv))
  PROVE  Stated
<1> DEFINE j == Head(jobs)
           k == Next1(j)
<1>1. jobs # <<>> /\ j.op \in {"archive", "delete"}
  BY DEF Change, At
<1>2. /\ db \in Database /\ db' \in Database /\ ids \in Nat /\ j \in Job /\ j.step \in Nat
      /\ jobs \in Seq(GoodJob)
  BY <1>1, TallyStart
<1>3. \A c : j \notin Adding(c)
  BY <1>1 DEF Adding, Inserts
<1>4. Follower(db, j, k, ids)
  <2>1. k.op = j.op
    BY <1>2, NextFields
  <2> QED BY <1>1, <2>1 DEF Follower, Inserts, Creates
<1>5. /\ \/ Continue(k) \/ Complete(NewSignal("refresh"))
      /\ db' = db \/ db' = Archive(db, j.conv) \/ db' = DeleteConversation(db, j.conv)
  BY DEF Change
<1> HIDE DEF k, j
<1>6. Proceeds(db, jobs, signals, jobs', signals', ids)
  <2>1. j.op \notin Opens
    BY <1>1 DEF Opens
  <2> QED BY <1>1, <1>4, <1>5, <2>1, RefreshResult, StatementStart DEF j
<1>7. ASSUME NEW c \in Convs PROVE Touches(db, db', j, c, ids)
  <2>1. ASSUME SameAt(db, db', c) PROVE Touches(db, db', j, c, ids)
    BY <1>3, <2>1, TouchesSame
  <2>2. CASE db' = db \/ db' = Archive(db, j.conv)
    <3>1. SameAt(db, db', c)
      BY <1>2, <2>2, TotalStatements DEF SameAt
    <3> QED BY <2>1, <3>1
  <2>3. CASE db' = DeleteConversation(db, j.conv)
    <3>1. CASE c # j.conv
      BY <1>2, <2>1, <2>3, <3>1, TotalStatements
    <3>2. CASE c = j.conv
      BY <1>2, <2>3, <3>2, TotalChanges DEF Touches
    <3> QED BY <3>1, <3>2
  <2> QED BY <1>5, <2>2, <2>3
<1> QED BY <1>6, <1>7 DEF Stated, j

LEMMA CopyStated ==
  ASSUME Types, Types', Drawn, DuplicateBegins \/ DuplicateRow \/ DuplicateEnds
  PROVE  Stated
<1> DEFINE j == Head(jobs)
           x == j.copy
           l == Next1(j)
<1>1. jobs # <<>> /\ j.op = "duplicate"
  BY DEF DuplicateBegins, DuplicateRow, DuplicateEnds, At
<1>2. /\ db \in Database /\ db' \in Database /\ ids \in Nat /\ j \in Job /\ j.step \in Nat
      /\ jobs \in Seq(GoodJob)
  BY <1>1, TallyStart
<1>3. \A c : j \notin Adding(c)
  BY <1>1 DEF Adding, Inserts
<1>4. l \in Job /\ l.op = "duplicate" /\ l.copy = x /\ l.step = j.step + 1
  BY <1>1, <1>2, NextFields
<1>5. ASSUME NEW r
      PROVE  /\ LET k == [l EXCEPT !.rows = r] IN k.op = "duplicate" /\ k.copy = x
             /\ LET k == [j EXCEPT !.rows = r] IN k.op = "duplicate" /\ k.copy = x
             /\ LET k == [l EXCEPT !.count = r] IN
                   k.op = "duplicate" /\ k.copy = x /\ k.step = j.step + 1
             /\ LET k == [l EXCEPT !.copy = r] IN k.op = "duplicate" /\ k.copy = r
  <2> HIDE DEF l, j
  <2> QED BY <1>1, <1>2, <1>4 DEF Job
<1> HIDE DEF j, l
<1>6. ASSUME NEW k, Continue(k), k.op = "duplicate",
             \/ k.step \in {2, 3}
             \/ k.copy = ids + 1
             \/ k.copy = x /\ j.step > 3
      PROVE  Proceeds(db, jobs, signals, jobs', signals', ids)
  <2>1. Follower(db, j, k, ids)
    BY <1>1, <1>6 DEF Follower, Inserts, Creates
  <2> QED BY <1>1, <1>6, <2>1, StatementStart DEF j
<1>7. ASSUME CompleteQuietly \/ Complete(NewSignal("refresh"))
      PROVE  Proceeds(db, jobs, signals, jobs', signals', ids)
  <2>1. j.op \notin Opens
    BY <1>1 DEF Opens
  <2> QED BY <1>1, <1>7, <2>1, RefreshResult, StatementStart DEF j
<1>8. ASSUME NEW c \in Convs, SameAt(db, db', c) PROVE Touches(db, db', j, c, ids)
  BY <1>3, <1>8, TouchesSame
<1>9. CASE DuplicateBegins
  <2>1. CASE At("duplicate", 1)
    <3> DEFINE found == IF j.conv \in db.convs THEN 1 ELSE 0
               k == [l EXCEPT !.count = found]
    <3>1. j.step = 1 /\ db' = db /\ Continue(k)
      BY <1>9, <2>1 DEF DuplicateBegins, At, dbVars, l, j
    <3> HIDE DEF found
    <3>2. k.op = "duplicate" /\ k.step = 2
      BY <1>5, <3>1
    <3> HIDE DEF k
    <3> QED BY <1>6, <1>8, <3>1, <3>2 DEF Stated, SameAt, j
  <2>2. CASE At("duplicate", 2)
    <3>1. j.step = 2 /\ db' = db /\ (Continue(l) \/ Complete(NewSignal("refresh")))
      BY <1>9, <2>2 DEF DuplicateBegins, At, dbVars, l, j
    <3>2. l.step = 3
      BY <1>4, <3>1
    <3> QED BY <1>4, <1>6, <1>7, <1>8, <3>1, <3>2 DEF Stated, SameAt, j
  <2>3. CASE At("duplicate", 3)
    <3> DEFINE k == [l EXCEPT !.copy = ids + 1]
    <3>1. Continue(k) /\ db' = InsertConversation(db, ids + 1)
      BY <1>9, <2>3 DEF DuplicateBegins, At, l, j
    <3>2. k.op = "duplicate" /\ k.copy = ids + 1
      BY <1>5
    <3> HIDE DEF k
    <3>3. ASSUME NEW c \in Convs PROVE Touches(db, db', j, c, ids)
      <4>1. CASE c # ids + 1
        BY <1>2, <1>8, <3>1, <4>1, TotalStatements
      <4>2. CASE c = ids + 1
        BY <1>2, <1>3, <3>1, <4>2, TotalChanges DEF Touches, Untouched
      <4> QED BY <4>1, <4>2
    <3> QED BY <1>6, <3>1, <3>2, <3>3 DEF Stated, j
  <2>4. ASSUME NEW r, Continue([l EXCEPT !.rows = r]), db' = db, j.step > 3 PROVE Stated
    <3> DEFINE k == [l EXCEPT !.rows = r]
    <3>1. k.op = "duplicate" /\ k.copy = x
      BY <1>5
    <3>2. Continue(k)
      BY <2>4
    <3> HIDE DEF k
    <3> QED BY <1>6, <1>8, <2>4, <3>1, <3>2 DEF Stated, SameAt, j
  <2>5. CASE At("duplicate", 4)
    <3>1. Continue(l) /\ db' = db /\ j.step = 4
      BY <1>9, <2>5 DEF DuplicateBegins, At, l, j
    <3> QED BY <1>4, <1>6, <1>8, <3>1 DEF Stated, SameAt, j
  <2>6. CASE At("duplicate", 5)
    <3>1. Continue([l EXCEPT !.rows = First(db.msgs[j.conv])]) /\ db' = db /\ j.step = 5
      BY <1>9, <2>6 DEF DuplicateBegins, At, dbVars, l, j
    <3> QED BY <2>4, <3>1
  <2>7. CASE At("duplicate", 6)
    <3>1. Continue([l EXCEPT !.rows = Fetched(j.rows, db.msgs[j.conv])]) /\ db' = db /\ j.step = 6
      BY <1>9, <2>7 DEF DuplicateBegins, At, dbVars, l, j
    <3> QED BY <2>4, <3>1
  <2> QED BY <1>9, <2>1, <2>2, <2>3, <2>5, <2>6, <2>7 DEF DuplicateBegins
<1>10. CASE DuplicateRow
  <2>1. j.step = 7
    BY <1>10 DEF DuplicateRow, At, j
  <2>2. CASE MayInsertMessage(db, x)
    <3> DEFINE k == [j EXCEPT !.rows = Tail(j.rows)]
    <3>1. db' = InsertMessage(db, x, Head(j.rows)) /\ Continue(k) /\ x \in db.convs
      BY <1>10, <2>2 DEF DuplicateRow, MayInsertMessage, j
    <3>2. k.op = "duplicate" /\ k.copy = x
      BY <1>5
    <3> HIDE DEF k
    <3>3. ASSUME NEW c \in Convs PROVE Touches(db, db', j, c, ids)
      <4>1. CASE c # x
        BY <1>2, <1>8, <3>1, <4>1, TotalStatements
      <4>2. CASE c = x
        <5>1. db'.convs = db.convs
          BY <1>2, <3>1 DEF Database, InsertMessage
        <5> QED BY <1>1, <2>1, <3>1, <4>2, <5>1 DEF Touches
      <4> QED BY <4>1, <4>2
    <3> QED BY <1>6, <2>1, <3>1, <3>2, <3>3 DEF Stated, j
  <2>3. CASE ~MayInsertMessage(db, x)
    <3>1. CompleteQuietly /\ db' = db
      BY <1>10, <2>3 DEF DuplicateRow, j
    <3> QED BY <1>7, <1>8, <3>1 DEF Stated, SameAt, j
  <2> QED BY <2>2, <2>3
<1>11. CASE DuplicateEnds
  <2>1. CASE At("duplicate", 7)
    <3> DEFINE k == [l EXCEPT !.count = Len(db.msgs[x])]
    <3>1. Continue(k) /\ db' = db /\ j.step = 7
      BY <1>11, <2>1 DEF DuplicateEnds, At, dbVars, l, j
    <3>2. k.op = "duplicate" /\ k.copy = x
      BY <1>5
    <3> HIDE DEF k
    <3> QED BY <1>6, <1>8, <3>1, <3>2 DEF Stated, SameAt, j
  <2>2. CASE At("duplicate", 9)
    <3>1. Continue(l) /\ db' = SetTotal(db, x, j.count) /\ j.step = 9
      BY <1>11, <2>2 DEF DuplicateEnds, At, l, j
    <3>2. ASSUME NEW c \in Convs PROVE Touches(db, db', j, c, ids)
      <4>1. CASE c # x \/ c \notin db.convs
        BY <1>2, <1>8, <3>1, <4>1, TotalStatements
      <4>2. CASE c = x /\ c \in db.convs
        <5>1. c \in db'.convs /\ db'.msgs[c] = db.msgs[c]
          BY <1>2, <3>1, <4>2, TotalChanges
        <5> QED BY <1>3, <4>2, <5>1 DEF Touches, Untouched
      <4> QED BY <4>1, <4>2
    <3> QED BY <1>4, <1>6, <3>1, <3>2 DEF Stated, j
  <2>4. CASE At("duplicate", 8) \/ At("duplicate", 10) \/ At("duplicate", 11)
    <3>1. db' = db /\ Continue(l) /\ j.step > 3
      BY <1>11, <2>4 DEF DuplicateEnds, At, dbVars, l, j
    <3> QED BY <1>4, <1>6, <1>8, <3>1 DEF Stated, SameAt, j
  <2>3. CASE At("duplicate", 12)
    <3>1. db' = db /\ Complete(NewSignal("refresh"))
      BY <1>11, <2>3 DEF DuplicateEnds, At, dbVars, j
    <3> QED BY <1>7, <1>8, <3>1 DEF Stated, SameAt, j
  <2> QED BY <1>11, <2>1, <2>2, <2>3, <2>4 DEF DuplicateEnds
<1> QED BY <1>9, <1>10, <1>11

LEMMA StatementStated ==
  ASSUME Types, Types', Drawn, Emptied(db), JobStep
  PROVE  jobs # <<>> /\ Stated
<1>1. jobs # <<>>
  BY DEF JobStep, Create, Add, Load, List, Change, DuplicateBegins, DuplicateRow, DuplicateEnds, At
<1>2. Stated
  BY CreateStated, AddStated, ReadStated, ChangeStated, CopyStated DEF JobStep
<1> QED BY <1>1, <1>2

LEMMA EmptiedStatement ==
  ASSUME Types, Types', Drawn, Emptied(db), Emptied(durable), JobStep
  PROVE  Emptied(db)' /\ Emptied(durable)'
<1>1. \A c \in Convs : Touches(db, db', Head(jobs), c, ids)
  BY StatementStated DEF Stated
<1>2. ASSUME NEW c \in Convs, c \notin db'.convs PROVE db'.msgs[c] = <<>>
  BY <1>1, <1>2 DEF Touches, Untouched, Emptied
<1>3. Emptied(db')
  BY <1>2 DEF Emptied
<1>4. durable' = durable \/ durable' = db
  BY DEF JobStep, Create, Add, Load, List, Change, DuplicateBegins, DuplicateRow, DuplicateEnds,
         dbVars, Commit
<1> QED BY <1>3, <1>4 DEF Emptied

LEMMA SessionStatement ==
  ASSUME Types, Types', Drawn, Emptied(db), Session, JobStep, UNCHANGED <<uiVars, ghostVars>>
  PROVE  Session'
<1>1. /\ jobs # <<>> /\ Proceeds(db, jobs, signals, jobs', signals', ids)
      /\ \A c \in Convs : Touches(db, db', Head(jobs), c, ids)
  BY StatementStated DEF Stated
<1>2. UNCHANGED <<active, history, token, careful>>
  BY DEF uiVars, ghostVars
<1>3. /\ db \in Database /\ db' \in Database /\ jobs \in Seq(GoodJob) /\ signals \in Seq(GoodSignal)
      /\ ids \in Nat /\ \A i \in DOMAIN jobs : jobs[i].conv # ids + 1 /\ jobs[i].copy # ids + 1
  BY <1>1, TallyStart DEF Types, Queues
<1>4. active # ids + 1 /\ ids + 1 \notin db.convs
  <2>1. active \in Nat /\ active <= ids /\ db.convs \subseteq 1 .. ids
    BY TypesSplit, Constants DEF UiTypes, Drawn, DrawnUi, DrawnFile
  <2> QED BY <1>3, <2>1
<1>5. ASSUME NEW i \in DOMAIN signals PROVE signals[i].conv # ids + 1
  <2>1. signals[i] \in DrawnSignal(ids)
    BY <1>5 DEF Drawn, DrawnQueues
  <2>2. signals[i].conv \in Nat /\ signals[i].conv <= ids
    BY <2>1, Constants DEF DrawnSignal, GoodSignal, Signal
  <2> QED BY <1>3, <2>2
<1>6. Openings(jobs', signals', token) = Openings(jobs, signals, token)
  BY <1>1, <1>3, ProceedsCount
<1>7. Consistent(db, jobs, signals, active, history)
        => Consistent(db', jobs', signals', active, history)
  BY <1>1, <1>3, <1>4, <1>5, ConsistentProceeds
<1> QED BY <1>2, <1>6, <1>7 DEF Session

(* The text of a stream, or its end. *)
LEMMA ConsistentStream ==
  ASSUME NEW d, NEW js, NEW q \in Seq(GoodSignal), NEW s \in GoodSignal, s.kind \notin Opens,
         NEW c, NEW h, Consistent(d, js, q, c, h)
  PROVE  Consistent(d, js, Append(q, s), c, h)
<1> DEFINE p == Append(q, s)
<1>1. \A i \in DOMAIN p : (i \in DOMAIN q /\ p[i] = q[i]) \/ p[i] = s
  BY AppendOf
<1>2. \A i \in DOMAIN q : i \in DOMAIN p /\ p[i] = q[i]
  BY AppendOf
<1>3. s.kind \notin Creates /\ s.kind # "load"
  BY DEF Opens, Creates
<1> HIDE DEF p
<1>4. LoadsRead(d, js, p, c) /\ Newborns(d, js, p)
  BY <1>1, <1>3 DEF Consistent, LoadsRead, Newborns
<1>5. Agree(d, js, p, c, h)
  BY <1>2 DEF Consistent, Agree, Loading
<1> QED BY <1>4, <1>5 DEF Consistent, p

LEMMA SessionStream ==
  ASSUME Types, Types', Session, StreamStep, UNCHANGED <<uiVars, ghostVars>>
  PROVE  Session'
<1>1. UNCHANGED <<db, jobs, active, history, token, careful>>
  BY DEF StreamStep, dbVars, uiVars, ghostVars
<1>2. jobs \in Seq(GoodJob) /\ signals \in Seq(GoodSignal) /\ signals' \in Seq(GoodSignal)
  BY DEF Types, Queues
<1>3. CASE signals' = signals
  BY <1>1, <1>3 DEF Session
<1>4. ASSUME NEW s, signals' = Append(signals, s), s.kind \notin Opens
      PROVE  Session'
  <2>1. s \in GoodSignal
    <3>1. signals'[Len(signals')] = s /\ Len(signals') \in DOMAIN signals'
      BY <1>2, <1>4
    <3> QED BY <1>2, <3>1
  <2>2. Openings(jobs, signals', token) = Openings(jobs, signals, token)
    BY <1>2, <1>4, <2>1, OpeningsSame
  <2>3. Consistent(db, jobs, signals, active, history)
          => Consistent(db, jobs, signals', active, history)
    BY <1>2, <1>4, <2>1, ConsistentStream
  <2> QED BY <1>1, <2>2, <2>3 DEF Session
<1>5. signals' = signals \/ \E s : signals' = Append(signals, s) /\ s.kind \notin Opens
  <2>1. \A g, i : [NewSignal("text") EXCEPT !.gen = g, !.index = i].kind \notin Opens
    BY DEF NewSignal, Opens
  <2>2. \A g : [NewSignal("done") EXCEPT !.gen = g].kind \notin Opens
    BY DEF NewSignal, Opens
  <2>3. PICK g \in Gens : EmitChunk(g) \/ StreamEnds(g) \/ CancelLands(g)
    BY DEF StreamStep
  <2> QED BY <2>1, <2>2, <2>3 DEF EmitChunk, StreamEnds, CancelLands
<1> QED BY <1>3, <1>4, <1>5

(* After a restart only the list is loaded, and no conversation is active. *)
LEMMA SessionRestart ==
  ASSUME Types, Restart
  PROVE  Session'
<1> DEFINE j == NewJob("list", 0)
<1>1. active' = 0 /\ token' = 0 /\ jobs' = <<j>> /\ signals' = <<>> /\ db' = durable
  BY DEF Restart, DbRestart, RunnerRestart
<1>2. j.op = "list" /\ j \in GoodJob
  <2>1. 0 \in 0 .. MaxConvs
    BY Constants
  <2> QED BY <2>1, NewIsPlain, Constants DEF Ops
<1>3. durable.convs \subseteq Convs
  BY TypesSplit DEF DbTypeOK, Database
<1> HIDE DEF j
<1>4. \A i \in DOMAIN <<j>> : <<j>>[i] = j
  OBVIOUS
<1>5. Openings(<<j>>, <<>>, 0) <= 1
  <2>1. <<j>> \in Seq(GoodJob) /\ <<>> \in Seq(GoodSignal)
    BY <1>2
  <2>2. Calm(<<j>>, <<>>)
    BY <1>2, <1>4 DEF Calm, Opens
  <2>3. Openings(<<j>>, <<>>, 0) = 0
    BY <2>1, <2>2, OpeningsChange
  <2> QED BY <2>3
<1>6. 0 \notin durable.convs
  BY <1>3 DEF Convs
<1>7. Consistent(durable, <<j>>, <<>>, 0, history')
  <2>1. /\ LoadsLast(<<j>>, 0) /\ Elsewhere(<<j>>, 0) /\ LoadsRead(durable, <<j>>, <<>>, 0)
        /\ Newborns(durable, <<j>>, <<>>)
    BY <1>2, <1>4 DEF LoadsLast, Elsewhere, LoadsRead, Newborns, Creates
  <2> QED BY <1>6, <2>1 DEF Consistent, Agree
<1> QED BY <1>1, <1>5, <1>7 DEF Session

LEMMA RememberedInvariant == Spec => []Remembers
<1>1. Init => Remembers
  <2> SUFFICES ASSUME Init PROVE Emptied(db) /\ Emptied(durable) /\ Session
    BY DEF Remembers
  <2>1. /\ db = EmptyDatabase /\ durable = EmptyDatabase /\ jobs = <<>> /\ signals = <<>>
        /\ token = 0
    BY DEF Init, DbInit, RunnerInit, UiInit
  <2>2. Emptied(db) /\ Emptied(durable)
    BY <2>1 DEF EmptyDatabase, Emptied
  <2>3. Openings(<<>>, <<>>, 0) <= 1
    <3>1. <<>> \in Seq(GoodJob) /\ <<>> \in Seq(GoodSignal) /\ Calm(<<>>, <<>>)
      BY DEF Calm
    <3>2. Openings(<<>>, <<>>, 0) = 0
      BY <3>1, OpeningsChange
    <3> QED BY <3>2
  <2>4. Consistent(db, <<>>, <<>>, active, history)
    BY <2>1 DEF EmptyDatabase, Consistent, LoadsLast, LoadsRead, Elsewhere, Newborns, Agree
  <2> QED BY <2>1, <2>2, <2>3, <2>4 DEF Session
<1>2. Types /\ Types' /\ Drawn /\ Remembers /\ [Next]_vars => Remembers'
  <2> SUFFICES ASSUME Types, Types', Drawn, Emptied(db), Emptied(durable), Session, [Next]_vars
               PROVE  Emptied(db)' /\ Emptied(durable)' /\ Session'
    BY DEF Remembers
  <2>1. ASSUME UNCHANGED <<db, durable>> PROVE Emptied(db)' /\ Emptied(durable)'
    BY <2>1 DEF Emptied
  <2>2. CASE User
    <3>1. UNCHANGED <<db, durable>>
      BY <2>2 DEF User, SendMessage, Resend, Stop, NewConversation, Select, Duplicate, Change1, dbVars
    <3> QED BY <2>1, <2>2, <3>1, SessionUser
  <2>3. CASE OnSignal
    <3>1. UNCHANGED <<db, durable>>
      BY <2>3 DEF OnSignal, OnText, OnStreamDone, OnCreated, OnCreatedToSend, OnLoaded, OnRefresh,
         OnListed, dbVars
    <3> QED BY <2>1, <2>3, <3>1, SessionSignal
  <2>4. CASE Background /\ JobStep
    <3>1. UNCHANGED <<uiVars, ghostVars>>
      BY <2>4 DEF Background
    <3> QED BY <2>4, <3>1, EmptiedStatement, SessionStatement
  <2>5. CASE Background /\ StreamStep
    <3>1. UNCHANGED <<db, durable, uiVars, ghostVars>>
      BY <2>5 DEF Background, StreamStep, dbVars
    <3> QED BY <2>1, <2>5, <3>1, SessionStream
  <2>6. CASE Restart
    <3>1. db' = durable /\ durable' = durable
      BY <2>6 DEF Restart, DbRestart
    <3> QED BY <2>6, <3>1, SessionRestart DEF Emptied
  <2>7. CASE UNCHANGED vars
    <3>1. UNCHANGED <<db, durable, jobs, signals, token, active, history, careful>>
      BY <2>7 DEF vars, dbVars, runnerVars, uiVars, ghostVars
    <3> QED BY <2>1, <3>1 DEF Session
  <2> QED BY <2>2, <2>3, <2>4, <2>5, <2>6, <2>7 DEF Next, Background
<1> QED BY <1>1, <1>2, TypesInvariant, DrawnInvariant, PTL DEF Spec

(* When nothing is in progress, what the next message is sent with is what   *)
(* is stored of the active conversation, whatever streams were stopped,     *)
(* conversations selected, copied or deleted and operations mixed before,    *)
(* if the user has let each answer, load and creation finish.              *)
THEOREM HistoryAgrees == Spec => []HistoryIsConversation
<1>1. Types /\ Remembers => HistoryIsConversation
  <2> SUFFICES ASSUME Types, Remembers, Quiet, active \in db.convs, careful
               PROVE  Spoken(history) = Spoken(db.msgs[active])
    BY DEF HistoryIsConversation
  <2>1. jobs = <<>> /\ signals = <<>> /\ Agree(db, jobs, signals, active, history)
    BY DEF Quiet, Remembers, Session, Consistent
  <2>2. Spoken(history) = Spoken(db.msgs[active] \o Arriving(jobs, active))
    BY <2>1 DEF Agree, Loading
  <2>3. Arriving(jobs, active) = <<>>
    <3>1. <<>> \in Seq(GoodJob) /\ NoAdds(<<>>, active, 0)
      BY DEF NoAdds
    <3> QED BY <2>1, <3>1, ArrivingFacts
  <2>4. db.msgs[active] \in Seq(Message)
    <3>1. db \in Database
      BY TypesSplit DEF DbTypeOK
    <3> QED BY <3>1 DEF Database
  <2>5. db.msgs[active] \o <<>> = db.msgs[active]
    BY <2>4
  <2> QED BY <2>2, <2>3, <2>5
<1> QED BY <1>1, TypesInvariant, RememberedInvariant, PTL
=============================================================================

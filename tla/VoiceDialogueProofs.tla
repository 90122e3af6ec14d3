------------------------- MODULE VoiceDialogueProofs -------------------------
(***************************************************************************)
(* Facts of the voice loop that hold for every value of the constants.     *)
(***************************************************************************)
EXTENDS VoiceDialogue, TLAPS

Gate == GateClosedWhileResponding

LEMMA GateInit == Init => Gate
  BY DEF Init, FsmInit, Gate, GateClosedWhileResponding, InTurn

(* The other loops look at the state or the gate before they move it, so    *)
(* none of them acts on it while a turn is answered; stop() clears running. *)
LEMMA GateOtherLoops ==
  ASSUME Gate,
         \/ DeviceTick \/ PercChunk \/ PercFeed \/ PercDone
         \/ TurnRespond \/ TurnBackchannel \/ Backchannel \/ Filler
         \/ BargeIn \/ WatchdogStarts \/ WatchdogSpeaks \/ Stop
  PROVE  Gate'
<1> USE DEF Gate, GateClosedWhileResponding
<1>1. CASE PercChunk
  BY <1>1 DEF PercChunk, InTurn, Listening, ProcessChunk
<1>2. CASE TurnRespond \/ TurnBackchannel \/ Backchannel
  BY <1>2 DEF TurnRespond, TurnBackchannel, Backchannel, InTurn, Listening
<1>3. CASE DeviceTick \/ PercFeed \/ PercDone \/ Filler
  BY <1>3 DEF DeviceTick, PercFeed, PercDone, Filler, stateVars, ProcessChunk
<1>4. CASE BargeIn \/ WatchdogStarts \/ WatchdogSpeaks
  BY <1>4 DEF BargeIn, WatchdogStarts, WatchdogSpeaks, stateVars
<1>5. CASE Stop
  BY <1>5 DEF Stop
<1> QED BY <1>1, <1>2, <1>3, <1>4, <1>5

(* Accepting a turn closes the gate in the same step, ending it leaves      *)
(* InTurn.                                                                  *)
LEMMA GateResponse ==
  ASSUME Gate,
         \/ BeginTurn \/ CommitDone \/ FillerDone \/ BusGet \/ BusTimeout
         \/ SpeakChunk \/ SpeakDone \/ SpeakInterrupted \/ TrailDone \/ ResponseError
  PROVE  Gate'
<1> USE DEF Gate, GateClosedWhileResponding
<1>1. ASSUME NEW text, NEW commit, Dispatch(text, commit) PROVE Gate'
  BY <1>1 DEF Dispatch, Reject, Accept, SendTranscript, Transition, Enter, Audible, InTurn
<1>2. CASE BeginTurn
  BY <1>1, <1>2 DEF BeginTurn, AwaitFiller, InTurn
<1>3. CASE CommitDone
  BY <1>1, <1>3 DEF CommitDone, AwaitFiller, InTurn
<1>4. CASE FillerDone
  BY <1>1, <1>4 DEF FillerDone
<1>5. CASE BusGet
  <2>1. running' = running /\ respPc = "busGet"
    BY <1>5 DEF BusGet
  <2>2. UNCHANGED stateVars \/ respPc' = "poll"
    BY <1>5 DEF BusGet, EndTurn
  <2> QED BY <2>1, <2>2 DEF InTurn, stateVars
<1>6. CASE BusTimeout
  BY <1>6 DEF BusTimeout, EndTurn, InTurn, stateVars
<1>7. CASE SpeakChunk
  BY <1>7 DEF SpeakChunk, stateVars
<1>8. CASE SpeakDone
  <2>1. running' = running /\ respPc \in {"speak", "resume"}
    BY <1>8 DEF SpeakDone
  <2>2. UNCHANGED stateVars \/ Enter("SPEAKING")
    BY <1>8 DEF SpeakDone, SendTranscript, Transition
  <2> QED BY <2>1, <2>2 DEF Enter, Audible, InTurn, stateVars
<1>9. CASE SpeakInterrupted
  BY <1>9 DEF SpeakInterrupted, InTurn, stateVars
<1>10. CASE TrailDone
  BY <1>10 DEF TrailDone, EndTurn, SendTranscript, Transition, Enter, Audible, InTurn
<1>11. CASE ResponseError
  BY <1>11 DEF ResponseError, InTurn
<1> QED BY <1>2, <1>3, <1>4, <1>5, <1>6, <1>7, <1>8, <1>9, <1>10, <1>11

(* Messages and the agent do not touch the state. *)
LEMMA GateEnvironment ==
  ASSUME Gate, Deliver \/ AgentStep \/ UNCHANGED vars
  PROVE  Gate'
<1> USE DEF Gate, GateClosedWhileResponding
<1>1. CASE Deliver
  <2>1. UNCHANGED fsmVars \/ HandleTts(Head(bus))
    BY <1>1 DEF Deliver
  <2>2. UNCHANGED <<running, stateVars, respPc>>
    BY <2>1 DEF fsmVars, HandleTts
  <2> QED BY <2>2 DEF stateVars
<1>2. CASE AgentStep
  BY <1>2 DEF AgentStep, fsmVars, stateVars
<1>3. CASE UNCHANGED vars
  BY <1>3 DEF vars, fsmVars, stateVars
<1> QED BY <1>1, <1>2, <1>3

(* While a turn is answered the state is SPEAKING and the gate is closed,   *)
(* for any number of turns and sentences and with any engines configured.   *)
THEOREM GateClosed == Spec => []GateClosedWhileResponding
<1>1. Gate /\ [Next]_vars => Gate'
  BY GateOtherLoops, GateResponse, GateEnvironment DEF Next, FsmStep, FsmLocal, FsmSends
<1>2. Init => GateClosedWhileResponding
  BY GateInit DEF Gate
<1>3. GateClosedWhileResponding /\ [Next]_vars => GateClosedWhileResponding'
  BY <1>1 DEF Gate
<1> QED BY <1>2, <1>3, PTL DEF Spec

-----------------------------------------------------------------------------
(* Type correctness.  A turn that is answered has a number: what it sends   *)
(* and what it gives up is one of 1 .. MaxTurns.                            *)
Types == /\ TypeOK
         /\ respPc \in InTurn => turn # 0
         /\ watching => prompts < MaxPrompts

LEMMA TypesInit == Init => Types
<1> SUFFICES ASSUME Init PROVE Types
  OBVIOUS
<1> USE BusConstants, FsmConstants DEF Init
<1>1. FsmTypeOK
  <2>1. ttsQueue \in Seq([turn : 1 .. MaxTurns, index : 0 .. MaxSentences])
    BY DEF FsmInit
  <2>2. SttTypeOK /\ sttAudio <= MaxTurns /\ sttWords <= MaxTurns
    BY DEF FsmInit, SttInit, SttTypeOK
  <2>3. /\ 0 \in 0 .. MaxTurns /\ 0 \in 0 .. HoldoffTicks
        /\ 0 \in 0 .. MaxPrompts /\ 0 \in 0 .. MaxPending
    OBVIOUS
  <2> QED BY <2>1, <2>2, <2>3 DEF FsmInit, FsmTypeOK, States
<1>2. AgentTypeOK
  <2>1. 0 \in 0 .. MaxSentences
    OBVIOUS
  <2> QED BY <2>1 DEF AgentInit, AgentTypeOK
<1>3. bus \in Seq(Messages)
  BY DEF BusInit
<1> QED BY <1>1, <1>2, <1>3 DEF Types, TypeOK, FsmInit, InTurn

LEMMA SendTypes ==
  ASSUME bus \in Seq(Messages),
         NEW type \in {"audio.transcript", "audio.interrupt", "tts.speak", "tts.done"},
         NEW t \in 1 .. MaxTurns, NEW k \in 0 .. MaxSentences, Send(Message(type, t, k))
  PROVE  bus' \in Seq(Messages)
<1>1. Message(type, t, k) \in Messages
  BY DEF Message, Messages
<1> QED BY <1>1 DEF Send

LEMMA TransitionTypes ==
  ASSUME Types, NEW s \in States, UNCHANGED stateVars \/ Transition(s) \/ TransitionWithCooldown(s)
  PROVE  state' \in States /\ emilySpeaking' \in BOOLEAN /\ holdoff' \in 0 .. HoldoffTicks
<1>1. state \in States /\ emilySpeaking \in BOOLEAN /\ holdoff \in 0 .. HoldoffTicks
  BY DEF Types, TypeOK, FsmTypeOK
<1>2. HoldoffTicks \in 0 .. HoldoffTicks
  BY FsmConstants
<1>3. CASE UNCHANGED stateVars
  BY <1>1, <1>3 DEF stateVars
<1>4. CASE Transition(s) \/ TransitionWithCooldown(s)
  BY <1>1, <1>2, <1>4 DEF Transition, TransitionWithCooldown, Enter
<1> QED BY <1>3, <1>4

LEMMA WriteTypes ==
  ASSUME Types, WriteOutput \/ UNCHANGED pending
  PROVE  pending' \in 0 .. MaxPending
  BY FsmConstants DEF WriteOutput, Types, TypeOK, FsmTypeOK

LEMMA TypesPerception ==
  ASSUME Types, PercChunk \/ PercFeed \/ PercDone, UNCHANGED <<bus, agentVars>>
  PROVE  Types'
<1> USE FsmConstants, BusConstants
<1>1. ASSUME NEW chunk \in 0 .. MaxTurns, ProcessChunk(chunk)
      PROVE  /\ SttTypeOK' /\ sttAudio' <= MaxTurns /\ sttWords' <= MaxTurns
             /\ frame' \in 0 .. MaxTurns
             /\ percPc' \in {"ready", "identify", "transcribe"} /\ percHeld' \in 0 .. MaxTurns
  BY <1>1 DEF ProcessChunk, Buffered, Types, TypeOK, FsmTypeOK, SttTypeOK
<1>2. CASE PercChunk
  <2>1. PICK chunk \in 0 .. MaxTurns :
           IF HasSpeakerEngine
           THEN /\ percPc' = "identify" /\ percHeld' = chunk
                /\ UNCHANGED <<frame, sttVars>>
           ELSE ProcessChunk(chunk)
    BY <1>2 DEF PercChunk, NewSpeech
  <2>2. /\ SttTypeOK' /\ sttAudio' <= MaxTurns /\ sttWords' <= MaxTurns
        /\ frame' \in 0 .. MaxTurns
        /\ percPc' \in {"ready", "identify", "transcribe"} /\ percHeld' \in 0 .. MaxTurns
    BY <1>1, <2>1 DEF sttVars, SttTypeOK, Types, TypeOK, FsmTypeOK
  <2>3. state' \in States /\ emilySpeaking' \in BOOLEAN /\ holdoff' \in 0 .. HoldoffTicks
    <3>1. UNCHANGED stateVars \/ Transition("LISTENING")
      BY <1>2 DEF PercChunk
    <3> QED BY <3>1, TransitionTypes DEF States
  <2> QED BY <1>2, <2>2, <2>3
          DEF PercChunk, turnVars, agentVars, AgentTypeOK, Types, TypeOK, FsmTypeOK
<1>3. CASE PercFeed
  <2>1. percHeld \in 0 .. MaxTurns /\ ProcessChunk(percHeld)
    BY <1>3 DEF PercFeed, Types, TypeOK, FsmTypeOK
  <2> QED BY SMTT(30), <1>1, <1>3, <2>1
          DEF PercFeed, stateVars, turnVars, agentVars, AgentTypeOK, Types, TypeOK, FsmTypeOK
<1>4. CASE PercDone
  BY <1>4 DEF PercDone, Hypotheses, stateVars, turnVars, agentVars, AgentTypeOK, Types, TypeOK,
              FsmTypeOK, SttTypeOK
<1> QED BY <1>2, <1>3, <1>4

LEMMA TypesSimple ==
  ASSUME Types, UNCHANGED <<bus, agentVars>>,
         \/ DeviceTick \/ TurnRespond \/ TurnBackchannel \/ Backchannel \/ Filler
         \/ BargeIn \/ WatchdogStarts \/ WatchdogSpeaks \/ Stop \/ SpeakChunk
  PROVE  Types'
<1> DEFINE Rest == UNCHANGED <<bus, agentVars, percVars, respPc, turnVars, frame, sttVars>>
           Moved == /\ running' \in BOOLEAN /\ interrupt' \in BOOLEAN
                    /\ fillerPending' \in BOOLEAN
                    /\ state' \in States /\ emilySpeaking' \in BOOLEAN
                    /\ holdoff' \in 0 .. HoldoffTicks
                    /\ pending' \in 0 .. MaxPending
                    /\ watching' \in BOOLEAN /\ prompts' \in 0 .. MaxPrompts
                    /\ watching' => prompts' < MaxPrompts
<1>1. Rest
  BY DEF DeviceTick, TurnRespond, TurnBackchannel, Backchannel, Filler, BargeIn, WatchdogStarts,
         WatchdogSpeaks, Stop, SpeakChunk
<1>2. ASSUME Moved PROVE Types'
  BY <1>1, <1>2 DEF Types, TypeOK, FsmTypeOK, percVars, turnVars, sttVars, agentVars,
                    AgentTypeOK, SttTypeOK
<1> SUFFICES Moved
  BY <1>2
<1>3. /\ running \in BOOLEAN /\ interrupt \in BOOLEAN /\ fillerPending \in BOOLEAN
      /\ state \in States /\ emilySpeaking \in BOOLEAN /\ holdoff \in 0 .. HoldoffTicks
      /\ pending \in 0 .. MaxPending /\ watching \in BOOLEAN /\ prompts \in 0 .. MaxPrompts
      /\ watching => prompts < MaxPrompts
  BY DEF Types, TypeOK, FsmTypeOK
<1>4. CASE DeviceTick
  BY <1>3, <1>4, FsmConstants DEF DeviceTick
<1>5. CASE TurnRespond \/ TurnBackchannel \/ Stop
  <2>1. \E s \in {"PROCESSING", "BACKCHANNELING", "IDLE"} : Transition(s)
    BY <1>5 DEF TurnRespond, TurnBackchannel, Stop
  <2>2. state' \in States /\ emilySpeaking' \in BOOLEAN /\ holdoff' \in 0 .. HoldoffTicks
    BY <2>1, TransitionTypes DEF States
  <2>3. UNCHANGED <<interrupt, fillerPending, pending, watching, prompts>> /\ running' \in BOOLEAN
    BY <1>3, <1>5 DEF TurnRespond, TurnBackchannel, Stop
  <2> QED BY <1>3, <2>2, <2>3
<1>6. CASE Backchannel
  <2>1. state' \in States /\ emilySpeaking' \in BOOLEAN /\ holdoff' \in 0 .. HoldoffTicks
    BY <1>6, TransitionTypes DEF Backchannel, States
  <2>2. pending' \in 0 .. MaxPending
    BY <1>6, WriteTypes DEF Backchannel
  <2>3. UNCHANGED <<running, interrupt, fillerPending, watching, prompts>>
    BY <1>6 DEF Backchannel
  <2> QED BY <1>3, <2>1, <2>2, <2>3
<1>7. CASE Filler \/ SpeakChunk
  <2>1. pending' \in 0 .. MaxPending
    BY <1>7, WriteTypes DEF Filler, SpeakChunk
  <2>2. UNCHANGED <<running, stateVars, interrupt, watching, prompts>> /\ fillerPending' \in BOOLEAN
    BY <1>3, <1>7 DEF Filler, SpeakChunk
  <2> QED BY <1>3, <2>1, <2>2 DEF stateVars
<1>8. CASE BargeIn
  BY <1>3, <1>8 DEF BargeIn, stateVars
<1>9. CASE WatchdogStarts
  BY <1>3, <1>9 DEF WatchdogStarts, stateVars
<1>10. CASE WatchdogSpeaks
  <2>1. pending' \in 0 .. MaxPending
    BY <1>10, WriteTypes DEF WatchdogSpeaks
  <2>2. prompts' \in 0 .. MaxPrompts
    BY <1>3, <1>10, FsmConstants DEF WatchdogSpeaks
  <2>3. UNCHANGED <<running, stateVars, interrupt, fillerPending>> /\ watching' = FALSE
    BY <1>10 DEF WatchdogSpeaks
  <2> QED BY <1>3, <2>1, <2>2, <2>3 DEF stateVars
<1> HIDE DEF Moved
<1> QED BY <1>4, <1>5, <1>6, <1>7, <1>8, <1>9, <1>10

(* What the response loop writes, and the same for its pieces. *)
RespTypes ==
    /\ interrupt \in BOOLEAN /\ frame \in 0 .. MaxTurns
    /\ respPc \in {"poll", "committing", "awaitFiller"} \cup InTurn
    /\ fillerPending \in BOOLEAN /\ respHeld \in 0 .. MaxTurns
    /\ turn \in 0 .. MaxTurns /\ abandoned \subseteq 1 .. turn
    /\ ttsQueue \in Seq([turn : 1 .. MaxTurns, index : 0 .. MaxSentences])
    /\ preserved \in BOOLEAN
    /\ state \in States /\ emilySpeaking \in BOOLEAN /\ holdoff \in 0 .. HoldoffTicks
    /\ prompts \in 0 .. MaxPrompts /\ pending \in 0 .. MaxPending
    /\ sttAudio \in 0 .. MaxTurns /\ sttWords \in 0 .. MaxTurns
    /\ bus \in Seq(Messages)
    /\ respPc \in InTurn => turn # 0

Idle == UNCHANGED <<running, percVars, watching, agentVars>>

LEMMA TypesSplit == Types => RespTypes
  BY BusConstants DEF Types, TypeOK, FsmTypeOK, RespTypes, SttTypeOK

LEMMA TypesJoined ==
  ASSUME Types, RespTypes', Idle, prompts' \in {0, prompts}
  PROVE  Types'
<1>1. running' \in BOOLEAN /\ watching' \in BOOLEAN
  BY DEF Idle, Types, TypeOK, FsmTypeOK
<1>2. percPc' \in {"ready", "identify", "transcribe"} /\ percHeld' \in 0 .. MaxTurns
  BY DEF Idle, percVars, Types, TypeOK, FsmTypeOK
<1>3. AgentTypeOK'
  BY DEF Idle, agentVars, AgentTypeOK, Types, TypeOK
<1>4. watching' => prompts' < MaxPrompts
  <2>1. MaxPrompts \in Nat /\ prompts \in 0 .. MaxPrompts
    BY FsmConstants DEF Types, TypeOK, FsmTypeOK
  <2> QED BY <2>1 DEF Idle, Types
<1>5. SttTypeOK' /\ sttAudio' <= MaxTurns /\ sttWords' <= MaxTurns
  BY BusConstants DEF RespTypes, SttTypeOK
<1>6. FsmTypeOK'
  BY <1>1, <1>2, <1>5 DEF RespTypes, FsmTypeOK
<1> QED BY <1>3, <1>4, <1>6 DEF RespTypes, Types, TypeOK

LEMMA ResetTypes ==
  ASSUME RespTypes, SttReset \/ UNCHANGED sttVars
  PROVE  sttAudio' \in 0 .. MaxTurns /\ sttWords' \in 0 .. MaxTurns
  BY BusConstants DEF RespTypes, SttReset, sttVars

LEMMA BusLoopTypes ==
  ASSUME RespTypes, NEW t \in Nat, NEW context \in BOOLEAN, BusLoop(t, context)
  PROVE  /\ respPc' \in InTurn /\ preserved' \in BOOLEAN
         /\ abandoned' \subseteq abandoned \cup {t}
  BY DEF BusLoop, Preserve, InTurn

LEMMA SendTranscriptTypes ==
  ASSUME Types, NEW t \in 1 .. MaxTurns, NEW context \in BOOLEAN, NEW commit \in BOOLEAN,
         SendTranscript(t, context, commit)
  PROVE  /\ respPc' \in InTurn /\ preserved' \in BOOLEAN
         /\ abandoned' \subseteq abandoned \cup {t}
         /\ ttsQueue' = <<>> /\ frame' = frame /\ bus' \in Seq(Messages)
         /\ state' \in States /\ emilySpeaking' \in BOOLEAN /\ holdoff' \in 0 .. HoldoffTicks
         /\ sttAudio' \in 0 .. MaxTurns /\ sttWords' \in 0 .. MaxTurns
<1>1. BusLoop(t, context) /\ Transition("SPEAKING") /\ Send(Message("audio.transcript", t, 0))
      /\ (SttReset \/ UNCHANGED sttVars) /\ ttsQueue' = <<>> /\ frame' = frame
  BY DEF SendTranscript, SttAfter
<1>2. RespTypes
  BY TypesSplit
<1>3. bus' \in Seq(Messages)
  <2>1. 0 \in 0 .. MaxSentences
    BY BusConstants
  <2> QED BY <1>1, <1>2, <2>1, SendTypes DEF RespTypes
<1>4. state' \in States /\ emilySpeaking' \in BOOLEAN /\ holdoff' \in 0 .. HoldoffTicks
  BY <1>1, TransitionTypes DEF States
<1>5. t \in Nat
  OBVIOUS
<1> QED BY <1>1, <1>2, <1>3, <1>4, <1>5, BusLoopTypes, ResetTypes

LEMMA DispatchTypes ==
  ASSUME Types, NEW text \in 0 .. MaxTurns, NEW commit \in BOOLEAN, Dispatch(text, commit),
         interrupt' \in BOOLEAN, fillerPending' \in BOOLEAN, pending' = pending, Idle
  PROVE  Types'
<1>1. RespTypes
  BY TypesSplit
<1>2. respHeld' \in 0 .. MaxTurns /\ pending' \in 0 .. MaxPending
  BY <1>1, BusConstants DEF Dispatch, RespTypes
<1>3. CASE Reject(commit)
  <2>1. state' \in States /\ emilySpeaking' \in BOOLEAN /\ holdoff' \in 0 .. HoldoffTicks
    BY <1>3, TransitionTypes DEF Reject, States
  <2>2. sttAudio' \in 0 .. MaxTurns /\ sttWords' \in 0 .. MaxTurns
    BY <1>1, <1>3, ResetTypes DEF Reject, SttAfter
  <2>3. /\ frame' = 0 /\ respPc' = "poll"
        /\ UNCHANGED <<ttsQueue, bus, turn, prompts, preserved, abandoned>>
    BY <1>3 DEF Reject
  <2>4. frame' \in 0 .. MaxTurns /\ respPc' \notin InTurn
    BY <2>3, BusConstants DEF InTurn
  <2>5. RespTypes'
    BY <1>1, <1>2, <2>1, <2>2, <2>3, <2>4 DEF RespTypes
  <2> QED BY <2>3, <2>5, TypesJoined
<1>4. CASE Accept(text, commit)
  <2>1. turn \in Nat /\ turn < MaxTurns /\ turn' = turn + 1 /\ prompts' = 0
    BY <1>1, <1>4 DEF Accept, RespTypes
  <2>2. turn + 1 \in 1 .. MaxTurns /\ turn' \in 0 .. MaxTurns /\ turn' # 0
        /\ prompts' \in 0 .. MaxPrompts
    BY <2>1, BusConstants, FsmConstants
  <2>3. 1 .. turn \subseteq 1 .. turn' /\ turn + 1 \in 1 .. turn'
    BY <2>1
  <2>4. CASE SendTranscript(turn + 1, FALSE, commit)
    <3>1. /\ respPc' \in InTurn /\ preserved' \in BOOLEAN
          /\ abandoned' \subseteq abandoned \cup {turn + 1}
          /\ ttsQueue' = <<>> /\ frame' = frame /\ bus' \in Seq(Messages)
          /\ state' \in States /\ emilySpeaking' \in BOOLEAN /\ holdoff' \in 0 .. HoldoffTicks
          /\ sttAudio' \in 0 .. MaxTurns /\ sttWords' \in 0 .. MaxTurns
      BY <2>2, <2>4, SendTranscriptTypes
    <3>2. abandoned' \subseteq 1 .. turn' /\ frame' \in 0 .. MaxTurns
      BY <1>1, <2>3, <3>1 DEF RespTypes
    <3>3. RespTypes'
      BY <1>2, <2>2, <3>1, <3>2 DEF RespTypes
    <3> QED BY <2>1, <3>3, TypesJoined
  <2>5. CASE /\ Transition("SPEAKING") /\ respPc' = "resume" /\ preserved' = FALSE
             /\ SttAfter(commit) /\ UNCHANGED <<frame, ttsQueue, bus, abandoned>>
    <3>1. state' \in States /\ emilySpeaking' \in BOOLEAN /\ holdoff' \in 0 .. HoldoffTicks
      BY <2>5, TransitionTypes DEF States
    <3>2. sttAudio' \in 0 .. MaxTurns /\ sttWords' \in 0 .. MaxTurns
      BY <1>1, <2>5, ResetTypes DEF SttAfter
    <3>3. abandoned' \subseteq 1 .. turn' /\ respPc' \in InTurn
      BY <1>1, <2>3, <2>5 DEF RespTypes, InTurn
    <3>4. RespTypes'
      BY <1>1, <1>2, <2>2, <2>5, <3>1, <3>2, <3>3 DEF RespTypes
    <3> QED BY <2>1, <3>4, TypesJoined
  <2> QED BY <1>4, <2>4, <2>5 DEF Accept
<1> QED BY <1>3, <1>4 DEF Dispatch

(* The end of a turn. *)
LEMMA EndTurnTypes ==
  ASSUME Types, NEW s \in States, EndTurn(s)
  PROVE  /\ frame' \in 0 .. MaxTurns /\ respPc' = "poll"
         /\ sttAudio' \in 0 .. MaxTurns /\ sttWords' \in 0 .. MaxTurns
         /\ state' \in States /\ emilySpeaking' \in BOOLEAN /\ holdoff' \in 0 .. HoldoffTicks
<1>1. SttReset /\ frame' = 0 /\ TransitionWithCooldown(s) /\ respPc' = "poll"
  BY DEF EndTurn
<1> QED BY <1>1, TransitionTypes, TypesSplit, ResetTypes, BusConstants

LEMMA TypesTurnBegins ==
  ASSUME Types, BeginTurn \/ CommitDone \/ FillerDone, UNCHANGED agentVars
  PROVE  Types'
<1> USE BusConstants, FsmConstants
<1>1. RespTypes
  BY TypesSplit
<1>2. Idle /\ pending' = pending /\ interrupt' \in BOOLEAN /\ fillerPending' \in BOOLEAN
  BY <1>1 DEF BeginTurn, CommitDone, FillerDone, Idle, RespTypes
<1>3. ASSUME NEW text \in 0 .. MaxTurns, AwaitFiller(text),
             UNCHANGED stateVars \/ Transition("FILLING")
      PROVE  Types'
  <2>1. state' \in States /\ emilySpeaking' \in BOOLEAN /\ holdoff' \in 0 .. HoldoffTicks
    BY <1>3, TransitionTypes DEF States
  <2>2. sttAudio' \in 0 .. MaxTurns /\ sttWords' \in 0 .. MaxTurns
    BY <1>1, <1>3, ResetTypes DEF AwaitFiller
  <2>3. /\ respPc' = "awaitFiller" /\ respHeld' = text
        /\ UNCHANGED <<frame, ttsQueue, bus, turn, prompts, preserved, abandoned>>
    BY <1>3 DEF AwaitFiller, choiceVars
  <2>4. respPc' \notin InTurn
    BY <2>3 DEF InTurn
  <2>5. RespTypes'
    BY <1>1, <1>2, <2>1, <2>2, <2>3, <2>4 DEF RespTypes
  <2> QED BY <1>2, <2>3, <2>5, TypesJoined
<1>4. CASE BeginTurn
  <2>1. CASE /\ respPc' = "committing" /\ respHeld' = sttAudio
             /\ UNCHANGED stateVars \/ Transition("FILLING")
             /\ UNCHANGED <<choiceVars, sttVars>>
    <3>1. state' \in States /\ emilySpeaking' \in BOOLEAN /\ holdoff' \in 0 .. HoldoffTicks
      BY <2>1, TransitionTypes DEF States
    <3>2. respPc' \notin InTurn
      BY <2>1 DEF InTurn
    <3>3. RespTypes'
      BY <1>1, <1>2, <2>1, <3>1, <3>2 DEF RespTypes, choiceVars, sttVars
    <3> QED BY <1>2, <2>1, <3>3, TypesJoined DEF choiceVars
  <2>2. sttWords \in 0 .. MaxTurns
    BY <1>1 DEF RespTypes
  <2>3. CASE Transition("FILLING") /\ AwaitFiller(sttWords)
    BY <1>3, <2>2, <2>3
  <2>4. CASE Dispatch(sttWords, TRUE)
    BY <1>2, <2>2, <2>4, DispatchTypes
  <2> QED BY <1>4, <2>1, <2>3, <2>4 DEF BeginTurn
<1>5. CASE CommitDone
  <2>1. PICK text \in Hypotheses(respHeld) :
           IF fillerPending
           THEN AwaitFiller(text) /\ UNCHANGED stateVars
           ELSE Dispatch(text, TRUE)
    BY <1>5 DEF CommitDone
  <2>2. text \in 0 .. MaxTurns
    BY <1>1 DEF Hypotheses, RespTypes
  <2> QED BY <1>2, <1>3, <2>1, <2>2, DispatchTypes
<1>6. CASE FillerDone
  <2>1. Dispatch(respHeld, FALSE) /\ respHeld \in 0 .. MaxTurns
    BY <1>1, <1>6 DEF FillerDone, RespTypes
  <2> QED BY <1>2, <2>1, DispatchTypes
<1> QED BY <1>4, <1>5, <1>6

LEMMA TypesSentence ==
  ASSUME Types, BusGet \/ BusTimeout \/ SpeakInterrupted \/ ResponseError,
         UNCHANGED <<bus, agentVars>>
  PROVE  Types'
<1> USE BusConstants, FsmConstants
<1>1. RespTypes
  BY TypesSplit
<1>2. Idle /\ UNCHANGED <<pending, interrupt, turn, prompts>> /\ fillerPending' \in BOOLEAN
  BY <1>1 DEF BusGet, BusTimeout, SpeakInterrupted, ResponseError, Idle, turnVars, RespTypes
<1>3. (IF state = "SPEAKING" THEN "IDLE" ELSE state) \in States
  BY <1>1 DEF RespTypes, States
<1>4. turn \in Nat /\ (respPc \in InTurn => turn \in 1 .. turn)
  BY <1>1 DEF RespTypes
<1> SUFFICES RespTypes'
  BY <1>2, TypesJoined
<1>5. CASE BusGet
  <2>1. /\ ttsQueue' \in Seq([turn : 1 .. MaxTurns, index : 0 .. MaxSentences])
        /\ UNCHANGED <<respHeld, preserved, abandoned>> /\ respPc \in InTurn
    BY <1>1, <1>5 DEF BusGet, RespTypes, InTurn
  <2>2. CASE respPc' = "speak" /\ UNCHANGED <<stateVars, frame, sttVars>>
    BY <1>1, <1>2, <2>1, <2>2 DEF RespTypes, InTurn, stateVars, sttVars
  <2>3. CASE EndTurn(IF state = "SPEAKING" THEN "IDLE" ELSE state)
    <3>1. /\ frame' \in 0 .. MaxTurns /\ respPc' = "poll"
          /\ sttAudio' \in 0 .. MaxTurns /\ sttWords' \in 0 .. MaxTurns
          /\ state' \in States /\ emilySpeaking' \in BOOLEAN /\ holdoff' \in 0 .. HoldoffTicks
      BY <1>3, <2>3, EndTurnTypes
    <3> QED BY <1>1, <1>2, <2>1, <3>1 DEF RespTypes, InTurn
  <2> QED BY <1>5, <2>2, <2>3 DEF BusGet
<1>6. CASE BusTimeout
  <2>1. UNCHANGED <<respHeld, ttsQueue>> /\ turn \in 1 .. turn
    BY <1>4, <1>6 DEF BusTimeout, InTurn
  <2>2. CASE /\ abandoned' = abandoned \cup {turn} /\ UNCHANGED preserved
             /\ EndTurn(IF state = "SPEAKING" THEN "IDLE" ELSE state)
    <3>1. /\ frame' \in 0 .. MaxTurns /\ respPc' = "poll"
          /\ sttAudio' \in 0 .. MaxTurns /\ sttWords' \in 0 .. MaxTurns
          /\ state' \in States /\ emilySpeaking' \in BOOLEAN /\ holdoff' \in 0 .. HoldoffTicks
      BY <1>3, <2>2, EndTurnTypes
    <3> QED BY <1>1, <1>2, <2>1, <2>2, <3>1 DEF RespTypes, InTurn
  <2>3. CASE BusLoop(turn, preserved) /\ UNCHANGED <<stateVars, frame, sttVars>>
    <3>1. /\ respPc' \in InTurn /\ preserved' \in BOOLEAN
          /\ abandoned' \subseteq abandoned \cup {turn}
      BY <1>1, <1>4, <2>3, BusLoopTypes DEF RespTypes
    <3> QED BY <1>1, <1>2, <2>1, <2>3, <3>1 DEF RespTypes, stateVars, sttVars
  <2> QED BY <1>6, <2>2, <2>3 DEF BusTimeout
<1>7. CASE SpeakInterrupted
  <2>1. /\ respPc \in InTurn /\ respPc' \in InTurn
        /\ abandoned' \subseteq abandoned \cup {turn}
        /\ UNCHANGED <<stateVars, frame, respHeld, ttsQueue, sttVars>>
    BY <1>7 DEF SpeakInterrupted, InTurn
  <2>2. preserved' \in BOOLEAN
    BY <1>1, <1>7 DEF SpeakInterrupted, Preserve, RespTypes
  <2> QED BY <1>1, <1>2, <1>4, <2>1, <2>2 DEF RespTypes, stateVars, sttVars
<1>8. CASE ResponseError
  <2>1. state' \in States /\ emilySpeaking' \in BOOLEAN /\ holdoff' \in 0 .. HoldoffTicks
    BY <1>8, TransitionTypes DEF ResponseError, States
  <2>2. abandoned' \subseteq 1 .. turn
    <3>1. abandoned \subseteq 1 .. turn
      BY <1>1 DEF RespTypes
    <3>2. \/ respPc \in InTurn /\ abandoned' = abandoned \cup {turn}
          \/ abandoned' = abandoned
      BY <1>8 DEF ResponseError
    <3> QED BY <1>4, <3>1, <3>2
  <2>3. /\ respPc' = "poll" /\ respHeld' = 0
        /\ UNCHANGED <<frame, ttsQueue, preserved, sttVars>>
    BY <1>8 DEF ResponseError
  <2> QED BY <1>1, <1>2, <2>1, <2>2, <2>3 DEF RespTypes, InTurn, sttVars
<1> QED BY <1>5, <1>6, <1>7, <1>8

LEMMA TypesSends ==
  ASSUME Types, SpeakDone \/ TrailDone, UNCHANGED agentVars
  PROVE  Types'
<1> USE BusConstants, FsmConstants
<1>1. RespTypes
  BY TypesSplit
<1>2. Idle /\ UNCHANGED <<interrupt, turn, prompts, fillerPending, respHeld>>
  BY DEF SpeakDone, TrailDone, Idle
<1>3. pending' \in 0 .. MaxPending
  BY <1>1, WriteTypes DEF SpeakDone, TrailDone, RespTypes
<1>4. respPc \in InTurn
  BY DEF SpeakDone, TrailDone, InTurn
<1>5. turn \in 1 .. MaxTurns /\ turn \in Nat /\ turn \in 1 .. turn
  BY <1>1, <1>4 DEF RespTypes
<1> SUFFICES RespTypes'
  BY <1>2, TypesJoined
<1>6. CASE SendTranscript(turn, preserved, FALSE)
  <2>1. preserved \in BOOLEAN
    BY <1>1 DEF RespTypes
  <2>2. /\ respPc' \in InTurn /\ preserved' \in BOOLEAN
        /\ abandoned' \subseteq abandoned \cup {turn}
        /\ ttsQueue' = <<>> /\ frame' = frame /\ bus' \in Seq(Messages)
        /\ state' \in States /\ emilySpeaking' \in BOOLEAN /\ holdoff' \in 0 .. HoldoffTicks
        /\ sttAudio' \in 0 .. MaxTurns /\ sttWords' \in 0 .. MaxTurns
    BY <1>5, <1>6, <2>1, SendTranscriptTypes
  <2>3. ttsQueue' \in Seq([turn : 1 .. MaxTurns, index : 0 .. MaxSentences])
    BY <2>2
  <2> QED BY <1>1, <1>2, <1>3, <1>5, <2>2, <2>3 DEF RespTypes
<1>7. CASE /\ BusLoop(turn, preserved)
           /\ UNCHANGED <<stateVars, frame, ttsQueue, bus, sttVars>>
  <2>1. /\ respPc' \in InTurn /\ preserved' \in BOOLEAN
        /\ abandoned' \subseteq abandoned \cup {turn}
    BY <1>1, <1>5, <1>7, BusLoopTypes DEF RespTypes
  <2> QED BY <1>1, <1>2, <1>3, <1>5, <1>7, <2>1 DEF RespTypes, stateVars, sttVars
<1>8. CASE /\ EndTurn("LISTENING")
           /\ Send(Message("audio.interrupt", turn, 0)) \/ UNCHANGED bus
           /\ UNCHANGED <<ttsQueue, preserved, abandoned>>
  <2>1. /\ frame' \in 0 .. MaxTurns /\ respPc' = "poll"
        /\ sttAudio' \in 0 .. MaxTurns /\ sttWords' \in 0 .. MaxTurns
        /\ state' \in States /\ emilySpeaking' \in BOOLEAN /\ holdoff' \in 0 .. HoldoffTicks
    BY <1>8, EndTurnTypes DEF States
  <2>2. bus' \in Seq(Messages)
    <3>1. bus \in Seq(Messages) /\ 0 \in 0 .. MaxSentences
      BY <1>1 DEF RespTypes
    <3> QED BY <1>5, <1>8, <3>1, SendTypes
  <2> QED BY <1>1, <1>2, <1>3, <1>8, <2>1, <2>2 DEF RespTypes, InTurn
<1>9. CASE SpeakDone
  BY <1>6, <1>7, <1>9 DEF SpeakDone
<1>10. CASE TrailDone
  BY <1>6, <1>8, <1>10 DEF TrailDone
<1> QED BY <1>9, <1>10

LEMMA TypesEnvironment ==
  ASSUME Types, Deliver \/ AgentStep \/ UNCHANGED vars
  PROVE  Types'
<1> USE BusConstants
<1>1. bus \in Seq(Messages) /\ AgentTypeOK /\ FsmTypeOK
  BY DEF Types, TypeOK
<1>2. ASSUME UNCHANGED fsmVars PROVE FsmTypeOK' /\ UNCHANGED <<respPc, turn, watching, prompts>>
  BY <1>1, <1>2 DEF fsmVars, stateVars, percVars, turnVars, sttVars, FsmTypeOK, SttTypeOK
<1>3. CASE Deliver
  <2> DEFINE m == Head(bus)
  <2>1. m \in Messages /\ bus' \in Seq(Messages)
    BY <1>1, <1>3 DEF Deliver, Receive
  <2>2. m.turn \in 1 .. MaxTurns /\ m.index \in 0 .. MaxSentences
    BY <2>1 DEF Messages
  <2> HIDE DEF m
  <2>3. \/ HandleTranscript(m) /\ UNCHANGED fsmVars
        \/ HandleInterrupt /\ UNCHANGED fsmVars
        \/ HandleTts(m) /\ UNCHANGED agentVars
    BY <1>3 DEF Deliver, m
  <2>4. CASE HandleTranscript(m) /\ UNCHANGED fsmVars
    <3>1. AgentTypeOK'
      BY <1>1, <2>2, <2>4 DEF HandleTranscript, AgentTypeOK
    <3> QED BY <1>2, <2>1, <2>4, <3>1 DEF Types, TypeOK
  <2>5. CASE HandleInterrupt /\ UNCHANGED fsmVars
    <3>1. AgentTypeOK'
      BY <1>1, <2>5 DEF HandleInterrupt, AgentTypeOK
    <3> QED BY <1>2, <2>1, <2>5, <3>1 DEF Types, TypeOK
  <2>6. CASE HandleTts(m) /\ UNCHANGED agentVars
    <3>1. ttsQueue' \in Seq([turn : 1 .. MaxTurns, index : 0 .. MaxSentences])
      BY <1>1, <2>2, <2>6 DEF HandleTts, FsmTypeOK
    <3>2. RespTypes'
      BY <2>1, <2>6, <3>1, TypesSplit DEF HandleTts, RespTypes, stateVars, sttVars
    <3> QED BY <2>6, <3>2, TypesJoined DEF HandleTts, Idle
  <2> QED BY <2>3, <2>4, <2>5, <2>6
<1>4. CASE AgentStep
  <2>1. PICK t \in 1 .. MaxTurns : Say(t) \/ SayDone(t) \/ GenerationFails(t)
    BY <1>4 DEF AgentStep, AgentNext
  <2>2. UNCHANGED fsmVars
    BY <1>4 DEF AgentStep
  <2>3. AgentTypeOK'
    BY SMTT(30), <1>1, <2>1 DEF Say, SayDone, GenerationFails, AgentTypeOK
  <2>4. bus' \in Seq(Messages)
    <3>1. CASE Say(t)
      <4>1. sentences[t] + 1 \in 0 .. MaxSentences
        BY <1>1, <3>1 DEF Say, AgentTypeOK
      <4> QED BY <1>1, <3>1, <4>1, SendTypes DEF Say
    <3>2. CASE SayDone(t)
      BY <1>1, <3>2, SendTypes DEF SayDone
    <3>3. CASE GenerationFails(t)
      BY <1>1, <3>3 DEF GenerationFails
    <3> QED BY <2>1, <3>1, <3>2, <3>3
  <2> QED BY <1>2, <2>2, <2>3, <2>4 DEF Types, TypeOK
<1>5. CASE UNCHANGED vars
  <2>1. UNCHANGED fsmVars /\ bus' = bus /\ UNCHANGED agentVars
    BY <1>5 DEF vars
  <2> QED BY <1>1, <1>2, <2>1 DEF Types, TypeOK, AgentTypeOK, agentVars
<1> QED BY <1>3, <1>4, <1>5

(* Every message, queue and buffer of the voice loop carries turns that     *)
(* were accepted, and every loop stays at a known suspension point.         *)
THEOREM TypeCorrect == Spec => []TypeOK
<1>1. Types /\ [Next]_vars => Types'
  BY TypesPerception, TypesSimple, TypesTurnBegins, TypesSentence, TypesSends, TypesEnvironment
     DEF Next, FsmStep, FsmLocal, FsmSends
<1>2. Types => TypeOK
  BY DEF Types
<1> QED BY TypesInit, <1>1, <1>2, PTL DEF Spec

-----------------------------------------------------------------------------
(* Interrupts.  What the voice side has announced to the agent is in the    *)
(* bus or has been taken up, in the order of the turns.                     *)
Transcript(m) == m.type = "audio.transcript"
Interruption(m) == m.type = "audio.interrupt"
Answering == {"busGet", "speak", "speakTrail", "busTrail"}

(* Turns that may have been announced. *)
Announced(t) == t <= turn /\ (respPc \in {"resume", "resumeTrail"} => t < turn)

(* The transcript of turn t stands before place i, or was taken up. *)
SentBefore(i, t) == gen[t] # "none" \/ \E j \in 1 .. i - 1 : Transcript(bus[j]) /\ bus[j].turn = t

(* A transcript is of a newer turn than everything before it.               *)
TranscriptFits(i) ==
  /\ Announced(bus[i].turn)
  /\ \A u \in 1 .. MaxTurns : gen[u] # "none" => u < bus[i].turn
  /\ \A j \in 1 .. i - 1 : Transcript(bus[j]) \/ Interruption(bus[j]) => bus[j].turn < bus[i].turn

(* An interrupt is for a turn that was given up, whose transcript stands    *)
(* before it and after which nothing newer does.                            *)
InterruptFits(i) ==
  /\ Announced(bus[i].turn)
  /\ bus[i].turn \in abandoned
  /\ \A u \in 1 .. MaxTurns : gen[u] # "none" => u <= bus[i].turn
  /\ \A j \in 1 .. i - 1 : Transcript(bus[j]) => bus[j].turn <= bus[i].turn
  /\ SentBefore(i, bus[i].turn)

Turns ==
  /\ \A u \in 1 .. MaxTurns : gen[u] # "none" => Announced(u)
  /\ respPc \in Answering => SentBefore(Len(bus) + 1, turn)
  /\ respPc \in {"speakTrail", "busTrail"} => turn \in abandoned

InOrder ==
  /\ Turns
  /\ \A i \in 1 .. Len(bus) : Transcript(bus[i]) => TranscriptFits(i)
  /\ \A i \in 1 .. Len(bus) : Interruption(bus[i]) => InterruptFits(i)
  /\ InterruptHitsItsTurn

-----------------------------------------------------------------------------
(* What a step of the conversation's loops may do to the turns and to the   *)
(* sentences on their way: Moves covers every step of FsmStep, so that the  *)
(* invariants below are proved for eight kinds of step.                     *)
Resuming == {"resume", "resumeTrail"}

Aside ==
  /\ UNCHANGED <<bus, ttsQueue, turn, abandoned, spoken>>
  /\ UNCHANGED <<respPc, current>> \/ (respPc \notin InTurn /\ respPc' \notin InTurn)

ResumeFirst ==
  /\ respPc \notin InTurn /\ respPc' = "resume"
  /\ turn < MaxTurns /\ turn' = turn + 1
  /\ UNCHANGED <<bus, ttsQueue, abandoned, spoken>>

Announce(t) ==
  /\ \/ respPc \in Resuming /\ t = turn
     \/ respPc \notin InTurn /\ turn < MaxTurns /\ t = turn + 1
  /\ turn' = t
  /\ ttsQueue' = <<>>
  /\ bus' = Append(bus, Message("audio.transcript", t, 0))
  /\ \/ respPc' = "busGet" /\ UNCHANGED abandoned
     \/ respPc' = "busTrail" /\ abandoned' = abandoned \cup {t}
  /\ UNCHANGED spoken

TakeItem ==
  /\ respPc = "busGet" /\ ttsQueue # <<>>
  /\ ttsQueue' = Tail(ttsQueue)
  /\ \/ respPc' = "speak" /\ Head(ttsQueue).index # 0 /\ current' = Head(ttsQueue)
     \/ respPc' = "poll" /\ Head(ttsQueue).index = 0
  /\ UNCHANGED <<bus, turn, abandoned, spoken>>

GiveUp ==
  /\ respPc \in InTurn
  /\ \/ respPc' = "poll"
     \/ respPc \in Answering /\ respPc' \in {"speakTrail", "busTrail"}
  /\ abandoned' = abandoned \cup {turn}
  /\ UNCHANGED <<bus, ttsQueue, turn, spoken>>

TrailFirst ==
  /\ respPc = "resume" /\ respPc' = "resumeTrail"
  /\ UNCHANGED <<bus, ttsQueue, turn, abandoned, spoken>>

Spoke ==
  /\ respPc = "speak"
  /\ spoken' = Append(spoken, [turn |-> turn, item |-> current])
  /\ \/ respPc' = "busGet" /\ UNCHANGED abandoned
     \/ respPc' = "busTrail" /\ abandoned' = abandoned \cup {turn}
  /\ UNCHANGED <<bus, ttsQueue, turn>>

TrailEnds ==
  /\ respPc' = "poll"
  /\ \/ respPc = "speakTrail" /\ bus' = bus
     \/ respPc = "busTrail" /\ bus' = Append(bus, Message("audio.interrupt", turn, 0))
  /\ UNCHANGED <<ttsQueue, turn, abandoned, spoken>>

Moves == \/ Aside \/ ResumeFirst \/ TakeItem \/ GiveUp \/ TrailFirst \/ Spoke \/ TrailEnds
         \/ \E t \in 1 .. MaxTurns : Announce(t)

LEMMA MoveOtherLoops ==
  ASSUME \/ DeviceTick \/ PercChunk \/ PercFeed \/ PercDone
         \/ TurnRespond \/ TurnBackchannel \/ Backchannel \/ Filler \/ SpeakChunk
         \/ BargeIn \/ WatchdogStarts \/ WatchdogSpeaks \/ Stop,
         UNCHANGED bus
  PROVE  Aside
<1>1. UNCHANGED <<ttsQueue, turn, abandoned, spoken, respPc, current>>
  BY DEF DeviceTick, PercChunk, PercFeed, PercDone, TurnRespond, TurnBackchannel, Backchannel,
         Filler, SpeakChunk, BargeIn, WatchdogStarts, WatchdogSpeaks, Stop, turnVars
<1> QED BY <1>1 DEF Aside

LEMMA MoveAnnounce ==
  ASSUME Types, NEW t \in 1 .. MaxTurns, NEW context, NEW commit, SendTranscript(t, context, commit),
         UNCHANGED spoken, turn' = t,
         \/ respPc \in Resuming /\ t = turn
         \/ respPc \notin InTurn /\ turn < MaxTurns /\ t = turn + 1
  PROVE  Moves
<1>1. Announce(t)
  BY DEF SendTranscript, BusLoop, Send, Announce
<1> QED BY <1>1 DEF Moves

LEMMA MoveDispatch ==
  ASSUME Types, NEW text, NEW commit, Dispatch(text, commit), respPc \notin InTurn,
         UNCHANGED <<current, spoken>>
  PROVE  Moves
<1>1. turn \in 0 .. MaxTurns /\ MaxTurns \in Nat
  BY BusConstants DEF Types, TypeOK, FsmTypeOK
<1>2. CASE Reject(commit)
  BY <1>2 DEF Reject, Aside, Moves, InTurn
<1>3. CASE Accept(text, commit)
  <2>1. turn < MaxTurns /\ turn' = turn + 1
    BY <1>3 DEF Accept
  <2>2. CASE respPc' = "resume" /\ UNCHANGED <<frame, ttsQueue, bus, abandoned>>
    BY <2>1, <2>2 DEF ResumeFirst, Moves
  <2>3. CASE SendTranscript(turn + 1, FALSE, commit)
    <3>1. turn + 1 \in 1 .. MaxTurns
      BY <1>1, <2>1
    <3> QED BY <2>1, <2>3, <3>1, MoveAnnounce
  <2> QED BY <1>3, <2>2, <2>3 DEF Accept
<1> QED BY <1>2, <1>3 DEF Dispatch

LEMMA MoveTurnBegins ==
  ASSUME Types, BeginTurn \/ CommitDone \/ FillerDone
  PROVE  Moves
<1>1. UNCHANGED <<current, spoken>> /\ respPc \notin InTurn
  BY DEF BeginTurn, CommitDone, FillerDone, InTurn
<1>2. ASSUME NEW text, AwaitFiller(text) PROVE Moves
  BY <1>1, <1>2 DEF AwaitFiller, choiceVars, Aside, Moves, InTurn
<1>3. CASE BeginTurn
  <2>1. CASE respPc' = "committing" /\ UNCHANGED choiceVars
    BY <1>1, <2>1 DEF choiceVars, Aside, Moves, InTurn
  <2>2. CASE AwaitFiller(sttWords) \/ Dispatch(sttWords, TRUE)
    BY <1>1, <1>2, <2>2, MoveDispatch
  <2> QED BY <1>3, <2>1, <2>2 DEF BeginTurn
<1>4. CASE CommitDone
  <2>1. PICK text \in Hypotheses(respHeld) : AwaitFiller(text) \/ Dispatch(text, TRUE)
    BY <1>4 DEF CommitDone
  <2> QED BY <1>1, <1>2, <2>1, MoveDispatch
<1>5. CASE FillerDone
  BY <1>1, <1>5, MoveDispatch DEF FillerDone
<1> QED BY <1>3, <1>4, <1>5

LEMMA MoveSentence ==
  ASSUME Types, BusGet \/ BusTimeout \/ SpeakInterrupted \/ ResponseError, UNCHANGED bus
  PROVE  Moves
<1>1. CASE BusGet
  <2>1. TakeItem
    BY <1>1 DEF BusGet, EndTurn, TakeItem
  <2> QED BY <2>1 DEF Moves
<1>2. CASE BusTimeout
  <2>1. UNCHANGED <<interrupt, turn, ttsQueue, spoken>> /\ respPc = "busGet"
    BY <1>2 DEF BusTimeout
  <2>2. \/ abandoned' = abandoned \cup {turn} /\ respPc' = "poll"
        \/ interrupt /\ BusLoop(turn, preserved)
    BY <1>2 DEF BusTimeout, EndTurn
  <2>3. GiveUp
    BY <2>1, <2>2 DEF BusLoop, GiveUp, InTurn, Answering
  <2> QED BY <2>3 DEF Moves
<1>3. CASE SpeakInterrupted
  <2>1. GiveUp \/ TrailFirst
    BY <1>3 DEF SpeakInterrupted, GiveUp, TrailFirst, InTurn, Answering
  <2> QED BY <2>1 DEF Moves
<1>4. CASE ResponseError
  <2>1. GiveUp \/ Aside
    BY <1>4 DEF ResponseError, GiveUp, Aside, InTurn
  <2> QED BY <2>1 DEF Moves
<1> QED BY <1>1, <1>2, <1>3, <1>4

LEMMA MoveSends ==
  ASSUME Types, SpeakDone \/ TrailDone
  PROVE  Moves
<1>1. respPc \in InTurn => turn \in 1 .. MaxTurns
  BY BusConstants DEF Types, TypeOK, FsmTypeOK
<1>2. CASE SpeakDone
  <2>1. CASE /\ respPc = "speak" /\ spoken' = Append(spoken, [turn |-> turn, item |-> current])
             /\ BusLoop(turn, preserved) /\ UNCHANGED <<ttsQueue, bus>>
    <3>1. Spoke
      BY <1>2, <2>1 DEF SpeakDone, BusLoop, Spoke
    <3> QED BY <3>1 DEF Moves
  <2>2. CASE respPc = "resume" /\ SendTranscript(turn, preserved, FALSE) /\ UNCHANGED spoken
    <3>1. turn \in 1 .. MaxTurns /\ turn' = turn
      BY <1>1, <1>2, <2>2 DEF SpeakDone, InTurn
    <3> QED BY <2>2, <3>1, MoveAnnounce DEF Resuming
  <2> QED BY <1>2, <2>1, <2>2 DEF SpeakDone
<1>3. CASE TrailDone
  <2>1. UNCHANGED <<turn, spoken>>
    BY <1>3 DEF TrailDone
  <2>2. CASE respPc = "resumeTrail" /\ SendTranscript(turn, preserved, FALSE)
    <3>1. turn \in 1 .. MaxTurns
      BY <1>1, <2>2 DEF InTurn
    <3> QED BY <2>1, <2>2, <3>1, MoveAnnounce DEF Resuming
  <2>3. CASE respPc # "resumeTrail"
    <3>1. TrailEnds
      BY <1>3, <2>3 DEF TrailDone, EndTurn, Send, TrailEnds
    <3> QED BY <3>1 DEF Moves
  <2> QED BY <1>3, <2>2, <2>3 DEF TrailDone
<1> QED BY <1>2, <1>3

LEMMA MovesOnly ==
  ASSUME Types, FsmStep
  PROVE  Moves /\ UNCHANGED agentVars
<1>1. CASE FsmLocal /\ UNCHANGED <<bus, agentVars>>
  BY <1>1, MoveOtherLoops, MoveSentence DEF FsmLocal, Moves
<1>2. CASE FsmSends /\ UNCHANGED agentVars
  BY <1>2, MoveTurnBegins, MoveSends DEF FsmSends
<1> QED BY <1>1, <1>2 DEF FsmStep

(* What Types says of the variables the order is about.                     *)
LEMMA OrderTypes ==
  ASSUME Types
  PROVE  /\ bus \in Seq(Messages) /\ Len(bus) \in Nat
         /\ \A i \in 1 .. Len(bus) : bus[i].turn \in 1 .. MaxTurns
         /\ MaxTurns \in Nat /\ turn \in 0 .. MaxTurns /\ (respPc \in InTurn => turn \in 1 .. MaxTurns)
         /\ abandoned \subseteq 1 .. turn
         /\ gen \in [1 .. MaxTurns -> {"none", "generating", "done", "failed"}]
<1>1. bus \in Seq(Messages) /\ FsmTypeOK /\ AgentTypeOK /\ (respPc \in InTurn => turn # 0)
  BY DEF Types, TypeOK
<1>2. \A i \in 1 .. Len(bus) : bus[i] \in Messages
  BY <1>1
<1>3. \A i \in 1 .. Len(bus) : bus[i].turn \in 1 .. MaxTurns
  BY <1>2 DEF Messages
<1>4. Len(bus) \in Nat
  BY <1>1
<1>5. /\ turn \in 0 .. MaxTurns /\ abandoned \subseteq 1 .. turn
      /\ gen \in [1 .. MaxTurns -> {"none", "generating", "done", "failed"}]
  BY <1>1 DEF FsmTypeOK, AgentTypeOK
<1>6. respPc \in InTurn => turn \in 1 .. MaxTurns
  BY <1>1, <1>5, BusConstants
<1> QED BY <1>1, <1>3, <1>4, <1>5, <1>6, BusConstants

(* Without a message, announcements and what was given up only grow.        *)
LEMMA OrderKept ==
  ASSUME Types, InOrder, UNCHANGED <<bus, agentVars>>, abandoned \subseteq abandoned',
         \A t \in 1 .. MaxTurns : Announced(t) => Announced(t)', Turns'
  PROVE  InOrder'
<1>1. UNCHANGED <<gen, interrupted>> /\ bus' = bus
  BY DEF agentVars
<1>2. ASSUME NEW i \in 1 .. Len(bus)', Transcript(bus'[i]) PROVE TranscriptFits(i)'
  <2>1. TranscriptFits(i) /\ bus[i].turn \in 1 .. MaxTurns
    BY <1>1, <1>2, OrderTypes DEF InOrder
  <2> QED BY <1>1, <2>1 DEF TranscriptFits
<1>3. ASSUME NEW i \in 1 .. Len(bus)', Interruption(bus'[i]) PROVE InterruptFits(i)'
  <2>1. InterruptFits(i) /\ bus[i].turn \in 1 .. MaxTurns
    BY <1>1, <1>3, OrderTypes DEF InOrder
  <2> QED BY <1>1, <2>1 DEF InterruptFits, SentBefore
<1>4. InterruptHitsItsTurn'
  BY <1>1 DEF InOrder, InterruptHitsItsTurn
<1>5. Turns'
  OBVIOUS
<1>6. (\A i \in 1 .. Len(bus) : Transcript(bus[i]) => TranscriptFits(i))'
  BY <1>2, <1>1
<1>7. (\A i \in 1 .. Len(bus) : Interruption(bus[i]) => InterruptFits(i))'
  BY <1>3, <1>1
<1> QED BY <1>4, <1>5, <1>6, <1>7 DEF InOrder

(* One message more: the old ones stand as they stood. *)
LEMMA OrderAppended ==
  ASSUME Types, InOrder, NEW m \in Messages, bus' = Append(bus, m), Turns',
         UNCHANGED interrupted, abandoned \subseteq abandoned',
         \A t \in 1 .. MaxTurns : Announced(t) => Announced(t)',
         \A t \in 1 .. MaxTurns : (gen[t] # "none") <=> (gen'[t] # "none"),
         Transcript(m) => TranscriptFits(Len(bus))',
         Interruption(m) => InterruptFits(Len(bus))'
  PROVE  InOrder'
<1>1. /\ Len(bus') = Len(bus) + 1 /\ bus'[Len(bus) + 1] = m
      /\ \A i \in 1 .. Len(bus) : bus'[i] = bus[i]
      /\ Len(bus) \in Nat
  BY OrderTypes
<1>2. ASSUME NEW i \in 1 .. Len(bus), Transcript(bus[i]) PROVE TranscriptFits(i)'
  <2>1. TranscriptFits(i) /\ bus[i].turn \in 1 .. MaxTurns
    BY <1>2, OrderTypes DEF InOrder
  <2>2. bus'[i] = bus[i] /\ \A j \in 1 .. i - 1 : bus'[j] = bus[j]
    BY <1>1
  <2> QED BY <2>1, <2>2 DEF TranscriptFits
<1>3. ASSUME NEW i \in 1 .. Len(bus), Interruption(bus[i]) PROVE InterruptFits(i)'
  <2>1. InterruptFits(i) /\ bus[i].turn \in 1 .. MaxTurns
    BY <1>3, OrderTypes DEF InOrder
  <2>2. bus'[i] = bus[i] /\ \A j \in 1 .. i - 1 : bus'[j] = bus[j]
    BY <1>1
  <2>3. SentBefore(i, bus[i].turn)'
    BY <2>1, <2>2 DEF InterruptFits, SentBefore
  <2> QED BY <2>1, <2>2, <2>3 DEF InterruptFits, SentBefore
<1>4. ASSUME NEW i \in 1 .. Len(bus'), i \notin 1 .. Len(bus) PROVE i = Len(bus) + 1
  BY <1>1, <1>4
<1>5. (\A i \in 1 .. Len(bus) : Transcript(bus[i]) => TranscriptFits(i))'
  <2> SUFFICES ASSUME NEW i \in 1 .. Len(bus'), Transcript(bus'[i]) PROVE TranscriptFits(i)'
    OBVIOUS
  <2>1. CASE i \in 1 .. Len(bus)
    BY <1>1, <1>2, <2>1
  <2>2. CASE i = Len(bus) + 1
    BY <1>1, <2>2
  <2> QED BY <1>4, <2>1, <2>2
<1>6. (\A i \in 1 .. Len(bus) : Interruption(bus[i]) => InterruptFits(i))'
  <2> SUFFICES ASSUME NEW i \in 1 .. Len(bus'), Interruption(bus'[i]) PROVE InterruptFits(i)'
    OBVIOUS
  <2>1. CASE i \in 1 .. Len(bus)
    BY <1>1, <1>3, <2>1
  <2>2. CASE i = Len(bus) + 1
    BY <1>1, <2>2
  <2> QED BY <1>4, <2>1, <2>2
<1>7. InterruptHitsItsTurn'
  <2>1. abandoned \subseteq 1 .. MaxTurns
    BY OrderTypes
  <2> QED BY <2>1 DEF InOrder, InterruptHitsItsTurn
<1> QED BY <1>5, <1>6, <1>7 DEF InOrder

(* A turn is announced when nothing of it or of a newer one has been, and   *)
(* told off only after its transcript.                                      *)
LEMMA OrderMoves ==
  ASSUME Types, InOrder, Moves, UNCHANGED agentVars
  PROVE  InOrder'
<1>1. Turns /\ UNCHANGED <<gen, interrupted>>
  BY DEF InOrder, agentVars
<1>2. CASE UNCHANGED <<bus, turn>> /\ abandoned \subseteq abandoned'
           /\ (respPc' \in Resuming => respPc \in Resuming)
           /\ (respPc' \in Answering => respPc \in Answering)
           /\ (respPc' \in {"speakTrail", "busTrail"} => turn \in abandoned')
  <2>1. \A t : Announced(t) => Announced(t)'
    BY <1>2 DEF Announced, Resuming
  <2>2. Turns'
    BY <1>1, <1>2, <2>1 DEF Turns, SentBefore
  <2> QED BY <1>2, <2>1, <2>2, OrderKept
<1>3. CASE ResumeFirst
  <2>1. \A t \in 1 .. MaxTurns : Announced(t) => Announced(t)'
    BY <1>3, OrderTypes DEF ResumeFirst, Announced
  <2>2. Turns'
    BY <1>1, <1>3, <2>1 DEF ResumeFirst, Turns, Answering
  <2> QED BY <1>3, <2>1, <2>2, OrderKept DEF ResumeFirst
<1>4. ASSUME NEW t \in 1 .. MaxTurns, Announce(t) PROVE InOrder'
  <2> DEFINE m == Message("audio.transcript", t, 0)
  <2>1. m \in Messages /\ m.turn = t /\ Transcript(m) /\ ~ Interruption(m)
    BY BusConstants DEF Message, Messages, Transcript, Interruption
  <2> HIDE DEF m
  <2>2. bus' = Append(bus, m) /\ turn' = t /\ respPc' \in {"busGet", "busTrail"}
        /\ abandoned \subseteq abandoned' /\ (respPc' = "busTrail" => t \in abandoned')
    BY <1>4 DEF Announce, m
  <2>3. \A u \in 1 .. MaxTurns : Announced(u) => u < t /\ Announced(u)'
    BY <1>4, <2>2, OrderTypes DEF Announce, Announced, Resuming
  <2>4. /\ Len(bus') = Len(bus) + 1 /\ bus'[Len(bus) + 1] = m
        /\ \A i \in 1 .. Len(bus) : bus'[i] = bus[i]
        /\ Len(bus) \in Nat
    BY <2>2, OrderTypes
  <2>5. TranscriptFits(Len(bus))'
    <3>1. Announced(t)'
      BY <2>2 DEF Announced
    <3>2. \A u \in 1 .. MaxTurns : gen'[u] # "none" => u < t
      BY <1>1, <2>3 DEF Turns
    <3>3. ASSUME NEW j \in 1 .. Len(bus), Transcript(bus[j]) \/ Interruption(bus[j])
          PROVE  bus[j].turn < t
      <4>1. Announced(bus[j].turn) /\ bus[j].turn \in 1 .. MaxTurns
        BY <3>3, OrderTypes DEF InOrder, TranscriptFits, InterruptFits
      <4> QED BY <2>3, <4>1
    <3>4. Len(bus) + 1 - 1 = Len(bus)
      BY <2>4
    <3> QED BY <2>1, <2>4, <3>1, <3>2, <3>3, <3>4 DEF TranscriptFits
  <2>6. Turns'
    <3>1. SentBefore(Len(bus) + 1, turn)'
      <4>1. Len(bus) + 1 \in 1 .. Len(bus') + 1 - 1
        BY <2>4
      <4> QED BY <2>1, <2>2, <2>4, <4>1 DEF SentBefore
    <3> QED BY <1>1, <2>2, <2>3, <3>1 DEF Turns, Answering
  <2> QED BY <1>1, <2>1, <2>2, <2>3, <2>5, <2>6, OrderAppended
<1>5. CASE TrailEnds /\ respPc = "busTrail"
  <2> DEFINE m == Message("audio.interrupt", turn, 0)
  <2>1. turn \in 1 .. MaxTurns /\ turn \in abandoned /\ SentBefore(Len(bus) + 1, turn)
    BY <1>1, <1>5, OrderTypes DEF Turns, Answering, InTurn
  <2>2. m \in Messages /\ m.turn = turn /\ ~ Transcript(m) /\ Interruption(m)
    BY <2>1, BusConstants DEF Message, Messages, Transcript, Interruption
  <2>3. bus' = Append(bus, m) /\ turn' = turn /\ respPc' = "poll" /\ abandoned' = abandoned
    BY <1>5 DEF TrailEnds
  <2> HIDE DEF m
  <2>4. /\ Len(bus') = Len(bus) + 1 /\ bus'[Len(bus) + 1] = m
        /\ \A i \in 1 .. Len(bus) : bus'[i] = bus[i]
        /\ Len(bus) \in Nat
    BY <2>3, OrderTypes
  <2>5. \A u \in 1 .. MaxTurns : Announced(u) => u <= turn /\ Announced(u)'
    BY <2>3 DEF Announced
  <2>6. InterruptFits(Len(bus))'
    <3>1. Announced(turn)'
      BY <2>1, <2>3 DEF Announced
    <3>2. \A u \in 1 .. MaxTurns : gen'[u] # "none" => u <= turn
      BY <1>1, <2>5 DEF Turns
    <3>3. ASSUME NEW j \in 1 .. Len(bus), Transcript(bus[j])
          PROVE  bus[j].turn <= turn
      <4>1. Announced(bus[j].turn) /\ bus[j].turn \in 1 .. MaxTurns
        BY <3>3, OrderTypes DEF InOrder, TranscriptFits
      <4> QED BY <2>5, <4>1
    <3>4. Len(bus) + 1 - 1 = Len(bus)
      BY <2>4
    <3>5. SentBefore(Len(bus), turn)'
      BY <1>1, <2>1, <2>3, <2>4, <3>4 DEF SentBefore
    <3> QED BY <2>1, <2>2, <2>3, <2>4, <3>1, <3>2, <3>3, <3>4, <3>5 DEF InterruptFits, SentBefore
  <2>7. Turns'
    BY <1>1, <2>3, <2>5 DEF Turns, Answering
  <2> QED BY <1>1, <2>2, <2>3, <2>5, <2>6, <2>7, OrderAppended
<1>6. CASE Aside
  BY <1>1, <1>2, <1>6 DEF Aside, Turns, Resuming, Answering, InTurn
<1>7. CASE TakeItem \/ TrailFirst \/ Spoke \/ (TrailEnds /\ respPc = "speakTrail")
  BY <1>1, <1>2, <1>7 DEF TakeItem, TrailFirst, Spoke, TrailEnds, Turns, Resuming, Answering
<1>8. CASE GiveUp
  BY <1>2, <1>8 DEF GiveUp, Resuming, Answering
<1> QED BY <1>3, <1>4, <1>5, <1>6, <1>7, <1>8 DEF Moves, TrailEnds

(* The agent sends sentences, which the order is not about.                 *)
LEMMA OrderAgent ==
  ASSUME Types, InOrder, AgentStep
  PROVE  InOrder'
<1>1. PICK t \in 1 .. MaxTurns : Say(t) \/ SayDone(t) \/ GenerationFails(t)
  BY DEF AgentStep, AgentNext
<1>2. UNCHANGED <<turn, respPc, abandoned>>
  BY DEF AgentStep, fsmVars, turnVars
<1>3. \A u \in 1 .. MaxTurns : (gen[u] # "none") <=> (gen'[u] # "none")
  BY <1>1, OrderTypes DEF Say, SayDone, GenerationFails
<1>4. interrupted' = interrupted
  BY <1>1 DEF Say, SayDone, GenerationFails
<1>5. \A u : Announced(u) <=> Announced(u)'
  BY <1>2 DEF Announced
<1>6. turn \in 1 .. MaxTurns \/ respPc \notin Answering
  BY OrderTypes DEF Answering, InTurn
<1>7. CASE bus' = bus
  <2>1. Turns'
    BY <1>2, <1>3, <1>5, <1>6, <1>7 DEF InOrder, Turns, SentBefore
  <2>2. ASSUME NEW i \in 1 .. Len(bus), Transcript(bus[i]) PROVE TranscriptFits(i)'
    BY <1>3, <1>5, <1>7, <2>2 DEF InOrder, TranscriptFits
  <2>3. ASSUME NEW i \in 1 .. Len(bus), Interruption(bus[i]) PROVE InterruptFits(i)'
    <3>1. InterruptFits(i) /\ bus[i].turn \in 1 .. MaxTurns
      BY <2>3, OrderTypes DEF InOrder
    <3> QED BY <1>2, <1>3, <1>5, <1>7, <3>1 DEF InterruptFits, SentBefore
  <2>4. InterruptHitsItsTurn'
    <3>1. abandoned \subseteq 1 .. MaxTurns
      BY OrderTypes
    <3> QED BY <1>2, <1>3, <1>4, <3>1 DEF InOrder, InterruptHitsItsTurn
  <2>5. (\A i \in 1 .. Len(bus) : Transcript(bus[i]) => TranscriptFits(i))'
    BY <1>7, <2>2
  <2>6. (\A i \in 1 .. Len(bus) : Interruption(bus[i]) => InterruptFits(i))'
    BY <1>7, <2>3
  <2> QED BY <2>1, <2>4, <2>5, <2>6 DEF InOrder
<1>8. CASE \E m \in Messages : bus' = Append(bus, m) /\ ~ Transcript(m) /\ ~ Interruption(m)
  <2>1. PICK m \in Messages : bus' = Append(bus, m) /\ ~ Transcript(m) /\ ~ Interruption(m)
    BY <1>8
  <2>2. /\ Len(bus') = Len(bus) + 1 /\ Len(bus) \in Nat
        /\ \A i \in 1 .. Len(bus) : bus'[i] = bus[i]
    BY <2>1, OrderTypes
  <2>3. Turns'
    <3>1. \A u \in 1 .. MaxTurns : gen'[u] # "none" => Announced(u)'
      BY <1>3, <1>5 DEF InOrder, Turns
    <3>2. respPc \in Answering => SentBefore(Len(bus) + 1, turn)'
      <4> SUFFICES ASSUME respPc \in Answering PROVE SentBefore(Len(bus) + 1, turn)'
        OBVIOUS
      <4>1. SentBefore(Len(bus) + 1, turn) /\ turn \in 1 .. MaxTurns
        BY <1>6 DEF InOrder, Turns
      <4>2. \A j \in 1 .. Len(bus) + 1 - 1 : j \in 1 .. Len(bus') + 1 - 1 /\ bus'[j] = bus[j]
        BY <2>2
      <4> QED BY <1>2, <1>3, <4>1, <4>2 DEF SentBefore
    <3> QED BY <1>2, <3>1, <3>2 DEF InOrder, Turns
  <2> QED BY <1>2, <1>4, <1>3, <1>5, <2>1, <2>3, OrderAppended
<1>9. CASE Say(t)
  <2>1. sentences[t] + 1 \in 0 .. MaxSentences
    BY <1>9, BusConstants DEF Say, Types, TypeOK, AgentTypeOK
  <2>2. Message("tts.speak", t, sentences[t] + 1) \in Messages
    BY <2>1 DEF Message, Messages
  <2> QED BY <1>8, <1>9, <2>2 DEF Say, Send, Message, Transcript, Interruption
<1>10. CASE SayDone(t)
  <2>1. Message("tts.done", t, 0) \in Messages
    BY BusConstants DEF Message, Messages
  <2> QED BY <1>8, <1>10, <2>1 DEF SayDone, Send, Message, Transcript, Interruption
<1>11. CASE GenerationFails(t)
  BY <1>7, <1>11 DEF GenerationFails
<1> QED BY <1>1, <1>9, <1>10, <1>11

(* The oldest message is handled; the others move up by one place.          *)
LEMMA OrderDelivered ==
  ASSUME Types, InOrder, Deliver
  PROVE  InOrder'
<1> DEFINE m == Head(bus)
<1>1. /\ bus # <<>> /\ bus' = Tail(bus) /\ m = bus[1] /\ 1 \in 1 .. Len(bus)
      /\ Len(bus') = Len(bus) - 1 /\ Len(bus) \in Nat
      /\ \A i \in 1 .. Len(bus') : i + 1 \in 1 .. Len(bus) /\ bus'[i] = bus[i + 1]
  BY OrderTypes DEF Deliver, Receive
<1>2. m \in Messages /\ m.turn \in 1 .. MaxTurns
  BY <1>1, OrderTypes
<1>3. \/ Transcript(m) /\ HandleTranscript(m) /\ UNCHANGED fsmVars
      \/ Interruption(m) /\ HandleInterrupt /\ UNCHANGED fsmVars
      \/ ~ Transcript(m) /\ ~ Interruption(m) /\ HandleTts(m) /\ UNCHANGED agentVars
  BY DEF Deliver, Transcript, Interruption
<1> HIDE DEF m
<1>4. UNCHANGED <<turn, respPc, abandoned>>
  BY <1>3 DEF fsmVars, turnVars, HandleTts
<1>5. \A u : Announced(u) <=> Announced(u)'
  BY <1>4 DEF Announced
<1>6. \A u \in 1 .. MaxTurns : gen'[u] # "none" => gen[u] # "none" \/ (Transcript(m) /\ u = m.turn)
  BY <1>2, <1>3, OrderTypes DEF HandleTranscript, HandleInterrupt, agentVars
<1>7. \A u \in 1 .. MaxTurns : gen[u] # "none" \/ (Transcript(m) /\ u = m.turn) => gen'[u] # "none"
  <2>1. CASE Transcript(m) /\ HandleTranscript(m)
    BY <1>2, <2>1, OrderTypes DEF HandleTranscript
  <2>2. CASE ~ Transcript(m) /\ gen' = gen
    BY <2>2
  <2> QED BY <1>3, <2>1, <2>2 DEF HandleInterrupt, agentVars, Transcript, Interruption
<1>8. Transcript(m) => TranscriptFits(1)
  BY <1>1 DEF InOrder
<1>9. Interruption(m) => InterruptFits(1)
  BY <1>1 DEF InOrder
<1>10. ASSUME NEW i \in 1 .. Len(bus), NEW u \in 1 .. MaxTurns, SentBefore(i + 1, u)
       PROVE  gen'[u] # "none" \/ \E j \in 1 .. i - 1 : Transcript(bus'[j]) /\ bus'[j].turn = u
  <2>1. CASE gen[u] # "none"
    BY <1>7, <2>1 DEF SentBefore
  <2>2. CASE \E j \in 1 .. i + 1 - 1 : Transcript(bus[j]) /\ bus[j].turn = u
    <3>1. PICK j \in 1 .. i + 1 - 1 : Transcript(bus[j]) /\ bus[j].turn = u
      BY <2>2
    <3>2. CASE j = 1
      BY <1>1, <1>7, <3>1, <3>2 DEF SentBefore
    <3>3. CASE j # 1
      <4>1. j - 1 \in 1 .. i - 1 /\ j - 1 \in 1 .. Len(bus') /\ j - 1 + 1 = j
        BY <1>1, <3>3
      <4> QED BY <1>1, <3>1, <4>1 DEF SentBefore
    <3> QED BY <3>2, <3>3
  <2> QED BY <1>10, <2>1, <2>2 DEF SentBefore
<1>11. Turns'
  <2>1. \A u \in 1 .. MaxTurns : gen'[u] # "none" => Announced(u)'
    BY <1>1, <1>5, <1>6, <1>8 DEF InOrder, Turns, TranscriptFits
  <2>2. respPc \in Answering => SentBefore(Len(bus) + 1, turn)'
    <3> SUFFICES ASSUME respPc \in Answering PROVE SentBefore(Len(bus) + 1, turn)'
      OBVIOUS
    <3>1. SentBefore(Len(bus) + 1, turn) /\ turn \in 1 .. MaxTurns
      BY OrderTypes DEF InOrder, Turns, Answering, InTurn
    <3>2. Len(bus) \in 1 .. Len(bus) /\ Len(bus') + 1 = Len(bus)
      BY <1>1
    <3>3. turn' = turn
      BY <1>4
    <3>4. \/ gen'[turn] # "none"
          \/ \E j \in 1 .. Len(bus) - 1 : Transcript(bus'[j]) /\ bus'[j].turn = turn
      BY <1>10, <3>1, <3>2
    <3> QED BY <1>1, <3>2, <3>3, <3>4 DEF SentBefore
  <2> QED BY <1>4, <2>1, <2>2 DEF InOrder, Turns
<1>12. ASSUME NEW i \in 1 .. Len(bus'), Transcript(bus'[i]) PROVE TranscriptFits(i)'
  <2>1. TranscriptFits(i + 1) /\ bus[i + 1].turn \in 1 .. MaxTurns /\ bus'[i] = bus[i + 1]
    BY <1>1, <1>12, OrderTypes DEF InOrder
  <2>2. 1 \in 1 .. i + 1 - 1
    OBVIOUS
  <2>3. \A u \in 1 .. MaxTurns : gen'[u] # "none" => u < bus'[i].turn
    BY <1>1, <1>6, <2>1, <2>2 DEF TranscriptFits
  <2>4. ASSUME NEW j \in 1 .. i - 1, Transcript(bus'[j]) \/ Interruption(bus'[j])
        PROVE  bus'[j].turn < bus'[i].turn
    <3>1. j + 1 \in 1 .. i + 1 - 1 /\ j \in 1 .. Len(bus')
      BY <1>1
    <3> QED BY <1>1, <2>1, <2>4, <3>1 DEF TranscriptFits
  <2>5. Announced(bus[i].turn)'
    BY <1>5, <2>1 DEF TranscriptFits
  <2> QED BY <2>1, <2>3, <2>4, <2>5 DEF TranscriptFits
<1>13. ASSUME NEW i \in 1 .. Len(bus'), Interruption(bus'[i]) PROVE InterruptFits(i)'
  <2>1. InterruptFits(i + 1) /\ bus[i + 1].turn \in 1 .. MaxTurns /\ bus'[i] = bus[i + 1]
    BY <1>1, <1>13, OrderTypes DEF InOrder
  <2>2. 1 \in 1 .. i + 1 - 1
    OBVIOUS
  <2>3. \A u \in 1 .. MaxTurns : gen'[u] # "none" => u <= bus'[i].turn
    BY <1>1, <1>6, <2>1, <2>2 DEF InterruptFits
  <2>4. ASSUME NEW j \in 1 .. i - 1, Transcript(bus'[j]) PROVE bus'[j].turn <= bus'[i].turn
    <3>1. j + 1 \in 1 .. i + 1 - 1 /\ j \in 1 .. Len(bus')
      BY <1>1
    <3> QED BY <1>1, <2>1, <2>4, <3>1 DEF InterruptFits
  <2>5. Announced(bus[i].turn)' /\ bus'[i].turn \in abandoned'
    BY <1>4, <1>5, <2>1 DEF InterruptFits
  <2>6. SentBefore(i, bus[i].turn)'
    <3>1. i \in 1 .. Len(bus)
      BY <1>1
    <3>2. SentBefore(i + 1, bus[i + 1].turn)
      BY <2>1 DEF InterruptFits
    <3> QED BY <1>10, <2>1, <3>1, <3>2 DEF SentBefore
  <2> QED BY <2>1, <2>3, <2>4, <2>5, <2>6 DEF InterruptFits
<1>14. InterruptHitsItsTurn'
  <2>1. CASE Transcript(m)
    BY <1>3, <2>1 DEF HandleTranscript, InterruptHitsItsTurn, Transcript, Interruption
  <2>2. CASE Interruption(m)
    <3>1. SentBefore(1, m.turn) /\ m.turn \in abandoned
          /\ \A u \in 1 .. MaxTurns : gen[u] # "none" => u <= m.turn
      BY <1>1, <1>9, <2>2 DEF InterruptFits
    <3>2. gen[m.turn] # "none"
      BY <3>1 DEF SentBefore
    <3>3. gen' = gen
      BY <1>3, <2>2 DEF HandleInterrupt, Transcript, Interruption
    <3> QED BY <1>4, <3>1, <3>2, <3>3 DEF InterruptHitsItsTurn
  <2>3. CASE ~ Transcript(m) /\ ~ Interruption(m)
    BY <1>3, <1>4, <2>3 DEF agentVars, InOrder, InterruptHitsItsTurn
  <2> QED BY <2>1, <2>2, <2>3
<1>15. (\A i \in 1 .. Len(bus) : Transcript(bus[i]) => TranscriptFits(i))'
  BY <1>12
<1>16. (\A i \in 1 .. Len(bus) : Interruption(bus[i]) => InterruptFits(i))'
  BY <1>13
<1> QED BY <1>11, <1>14, <1>15, <1>16 DEF InOrder

LEMMA OrderInit == Init => InOrder
<1> SUFFICES ASSUME Init PROVE InOrder
  OBVIOUS
<1>1. Len(bus) = 0 /\ \A u \in 1 .. MaxTurns : gen[u] = "none"
  BY DEF Init, BusInit, AgentInit
<1> QED BY <1>1 DEF Init, FsmInit, AgentInit, InOrder, Turns, Answering, InterruptHitsItsTurn

LEMMA TypesStep == Types /\ [Next]_vars => Types'
  BY TypesPerception, TypesSimple, TypesTurnBegins, TypesSentence, TypesSends, TypesEnvironment
     DEF Next, FsmStep, FsmLocal, FsmSends

LEMMA OrderStep == Types /\ InOrder /\ [Next]_vars => InOrder'
<1> SUFFICES ASSUME Types, InOrder, [Next]_vars PROVE InOrder'
  OBVIOUS
<1>1. CASE FsmStep
  BY <1>1, MovesOnly, OrderMoves
<1>2. CASE AgentStep
  BY <1>2, OrderAgent
<1>3. CASE Deliver
  BY <1>3, OrderDelivered
<1>4. CASE UNCHANGED vars
  <2>1. Aside /\ UNCHANGED agentVars
    BY <1>4 DEF vars, fsmVars, turnVars, Aside
  <2> QED BY <2>1, OrderMoves DEF Moves
<1> QED BY <1>1, <1>2, <1>3, <1>4 DEF Next

(* For any number of turns and of messages under way the event of an        *)
(* interrupt only stands against a generation whose turn was given up: the  *)
(* agent has taken up nothing newer.                                        *)
THEOREM InterruptsHit == Spec => []InterruptHitsItsTurn
<1>1. InOrder => InterruptHitsItsTurn
  BY DEF InOrder
<1> QED BY <1>1, TypesInit, TypesStep, OrderInit, OrderStep, PTL DEF Spec

-----------------------------------------------------------------------------
(* Sentences.  When a turn is over and neither it nor one before it was     *)
(* given up, nothing of it is left: its end mark was the last it got.       *)
Tts(m) == m.type \in {"tts.speak", "tts.done"}
Unabandoned(t) == \A a \in abandoned : a > t
Over(t) == t < turn \/ (t = turn /\ respPc \notin InTurn)

Gone(t) ==
  /\ gen[t] = "done"
  /\ \A i \in 1 .. Len(bus) : Tts(bus[i]) => bus[i].turn # t
  /\ \A i \in 1 .. Len(ttsQueue) : ttsQueue[i].turn # t
  /\ respPc = "speak" => current.turn # t

(* Nothing of the present turn comes after its end mark.                    *)
EndsLast ==
  /\ \A i \in 1 .. Len(bus) : bus[i].type = "tts.done" /\ bus[i].turn = turn =>
       /\ gen[turn] = "done"
       /\ \A j \in i + 1 .. Len(bus) : Tts(bus[j]) => bus[j].turn # turn
  /\ \A i \in 1 .. Len(ttsQueue) : ttsQueue[i].index = 0 /\ ttsQueue[i].turn = turn =>
       /\ gen[turn] = "done"
       /\ i = Len(ttsQueue)
       /\ \A j \in 1 .. Len(bus) : Tts(bus[j]) => bus[j].turn # turn

(* What is under way was said by an agent that took up its turn.            *)
Items ==
  /\ \A i \in 1 .. Len(bus) :
       /\ bus[i].type = "tts.speak" => bus[i].index # 0
       /\ bus[i].type = "tts.done" => bus[i].index = 0
       /\ Tts(bus[i]) => gen[bus[i].turn] # "none"
  /\ \A i \in 1 .. Len(ttsQueue) : gen[ttsQueue[i].turn] # "none"
  /\ respPc = "speak" => /\ current \in [turn : 1 .. MaxTurns, index : 0 .. MaxSentences]
                         /\ gen[current.turn] # "none"

Carried ==
  /\ Items
  /\ \A t \in 1 .. MaxTurns : Over(t) /\ Unabandoned(t) => Gone(t)
  /\ respPc \in InTurn /\ Unabandoned(turn) => EndsLast

Faithful ==
  /\ Carried
  /\ spoken \in Seq([turn : Nat, item : [turn : Nat, index : Nat]])
  /\ FaithfulSpeech

LEMMA QueueTypes ==
  ASSUME Types
  PROVE  /\ ttsQueue \in Seq([turn : 1 .. MaxTurns, index : 0 .. MaxSentences])
         /\ Len(ttsQueue) \in Nat
         /\ \A i \in 1 .. Len(ttsQueue) : /\ ttsQueue[i] \in [turn : 1 .. MaxTurns, index : 0 .. MaxSentences]
                                           /\ ttsQueue[i].turn \in 1 .. MaxTurns
<1>1. ttsQueue \in Seq([turn : 1 .. MaxTurns, index : 0 .. MaxSentences])
  BY DEF Types, TypeOK, FsmTypeOK
<1>2. \A i \in 1 .. Len(ttsQueue) : ttsQueue[i] \in [turn : 1 .. MaxTurns, index : 0 .. MaxSentences]
  <2> DEFINE S == [turn : 1 .. MaxTurns, index : 0 .. MaxSentences]
  <2>1. ttsQueue \in Seq(S)
    BY <1>1
  <2> HIDE DEF S
  <2>2. \A i \in 1 .. Len(ttsQueue) : ttsQueue[i] \in S
    BY <2>1
  <2> QED BY <2>2 DEF S
<1>3. \A i \in 1 .. Len(ttsQueue) : ttsQueue[i].turn \in 1 .. MaxTurns
  BY <1>2
<1> QED BY <1>1, <1>2, <1>3

(* The sentences in the bus are those that were there. *)
SameTts == \A i \in 1 .. Len(bus') : Tts(bus'[i]) => i \in 1 .. Len(bus) /\ bus'[i] = bus[i]

LEMMA SameAppended ==
  ASSUME bus \in Seq(Messages), NEW m, m \in Messages, ~ Tts(m), bus' = Append(bus, m)
  PROVE  SameTts
<1>1. Len(bus') = Len(bus) + 1 /\ bus'[Len(bus) + 1] = m /\ Len(bus) \in Nat
  OBVIOUS
<1>2. \A i \in 1 .. Len(bus) : bus'[i] = bus[i]
  OBVIOUS
<1>3. \A i \in 1 .. Len(bus') : i \in 1 .. Len(bus) \/ i = Len(bus) + 1
  BY <1>1
<1> QED BY <1>1, <1>2, <1>3 DEF SameTts

(* A step that hands on no sentence, and gives the turn up if it leaves it. *)
LEMMA CarriedKept ==
  ASSUME Types, Carried, SameTts, UNCHANGED <<gen, ttsQueue, turn>>, abandoned \subseteq abandoned',
         respPc' = "speak" => respPc = "speak" /\ current' = current,
         respPc' \in InTurn => respPc \in InTurn,
         respPc' \in InTurn \/ respPc \notin InTurn \/ turn \in abandoned'
  PROVE  Carried'
<1>1. Items'
  <2>1. ASSUME NEW i \in 1 .. Len(bus')
        PROVE  /\ bus'[i].type = "tts.speak" => bus'[i].index # 0
               /\ bus'[i].type = "tts.done" => bus'[i].index = 0
               /\ Tts(bus'[i]) => gen[bus'[i].turn] # "none"
    BY DEF Carried, Items, SameTts, Tts
  <2> QED BY <2>1 DEF Carried, Items
<1>2. \A t \in 1 .. MaxTurns : Unabandoned(t)' => Unabandoned(t)
  BY DEF Unabandoned
<1>3. ASSUME NEW t \in 1 .. MaxTurns, Over(t)', Unabandoned(t)' PROVE Gone(t)'
  <2>1. Over(t)
    <3>1. ~ (turn \in abandoned' /\ t = turn)
      BY <1>3, OrderTypes DEF Unabandoned
    <3> QED BY <1>3, <3>1 DEF Over
  <2>2. Gone(t)
    BY <1>2, <1>3, <2>1 DEF Carried
  <2> QED BY <2>2 DEF Gone, SameTts
<1>4. ASSUME respPc' \in InTurn, Unabandoned(turn)' PROVE EndsLast'
  <2>1. EndsLast
    BY <1>2, <1>4, OrderTypes DEF Carried, Unabandoned
  <2>2. ASSUME NEW i \in 1 .. Len(bus'), bus'[i].type = "tts.done", bus'[i].turn = turn
        PROVE  /\ gen[turn] = "done"
               /\ \A j \in i + 1 .. Len(bus') : Tts(bus'[j]) => bus'[j].turn # turn
    <3>1. i \in 1 .. Len(bus) /\ bus'[i] = bus[i]
      BY <2>2 DEF SameTts, Tts
    <3>2. \A j \in i + 1 .. Len(bus') : j \in 1 .. Len(bus')
      BY <2>2
    <3>3. \A j \in i + 1 .. Len(bus') : Tts(bus'[j]) => j \in 1 .. Len(bus) /\ bus'[j] = bus[j]
      BY <3>2 DEF SameTts
    <3>4. \A j \in i + 1 .. Len(bus') : j \in 1 .. Len(bus) => j \in i + 1 .. Len(bus)
      BY <2>2
    <3> QED BY <2>1, <2>2, <3>1, <3>3, <3>4 DEF EndsLast
  <2>3. ASSUME NEW i \in 1 .. Len(ttsQueue), ttsQueue[i].index = 0, ttsQueue[i].turn = turn
        PROVE  /\ gen[turn] = "done" /\ i = Len(ttsQueue)
               /\ \A j \in 1 .. Len(bus') : Tts(bus'[j]) => bus'[j].turn # turn
    BY <2>1, <2>3 DEF EndsLast, SameTts
  <2> QED BY <2>2, <2>3 DEF EndsLast
<1> QED BY <1>1, <1>3, <1>4 DEF Carried

(* Before a turn is announced nobody has said anything for it. *)
LEMMA CarriedNew ==
  ASSUME Types, InOrder, Carried, SameTts, UNCHANGED gen, abandoned \subseteq abandoned',
         turn' \in 1 .. MaxTurns, ~ Announced(turn'), \A t \in 1 .. MaxTurns : t < turn' => Over(t),
         \A i \in 1 .. Len(ttsQueue') : i \in 1 .. Len(ttsQueue) /\ ttsQueue'[i] = ttsQueue[i],
         respPc' \in InTurn, respPc' # "speak"
  PROVE  Carried'
<1>1. gen[turn'] = "none"
  BY OrderTypes DEF InOrder, Turns
<1>2. ASSUME NEW i \in 1 .. Len(bus')
      PROVE  /\ bus'[i].type = "tts.speak" => bus'[i].index # 0
             /\ bus'[i].type = "tts.done" => bus'[i].index = 0
             /\ Tts(bus'[i]) => gen[bus'[i].turn] # "none"
  BY DEF Carried, Items, SameTts, Tts
<1>3. \A i \in 1 .. Len(ttsQueue') : gen[ttsQueue'[i].turn] # "none"
  BY DEF Carried, Items
<1>4. Items'
  BY <1>2, <1>3 DEF Items
<1>5. ASSUME NEW t \in 1 .. MaxTurns, Over(t)', Unabandoned(t)' PROVE Gone(t)'
  <2>1. Over(t) /\ Unabandoned(t)
    BY <1>5 DEF Over, Unabandoned
  <2>2. Gone(t)
    BY <2>1 DEF Carried
  <2> QED BY <2>2 DEF Gone, SameTts
<1>6. EndsLast'
  BY <1>1, <1>2, <1>3 DEF EndsLast, Tts
<1> QED BY <1>4, <1>5, <1>6 DEF Carried

(* The end mark that ends a turn is its own: another turn's could only be   *)
(* there had that turn, or one before it, been given up.                    *)
LEMMA CarriedTaken ==
  ASSUME Types, InOrder, Carried, TakeItem, UNCHANGED gen
  PROVE  Carried'
<1>1. /\ respPc = "busGet" /\ UNCHANGED <<bus, turn, abandoned>> /\ turn \in 1 .. MaxTurns
      /\ respPc \in InTurn
  BY OrderTypes DEF TakeItem, InTurn
<1>2. /\ Head(ttsQueue) = ttsQueue[1] /\ 1 \in 1 .. Len(ttsQueue) /\ Len(ttsQueue) \in Nat
      /\ Len(ttsQueue') = Len(ttsQueue) - 1
      /\ \A i \in 1 .. Len(ttsQueue') : i + 1 \in 1 .. Len(ttsQueue) /\ ttsQueue'[i] = ttsQueue[i + 1]
      /\ Head(ttsQueue) \in [turn : 1 .. MaxTurns, index : 0 .. MaxSentences]
  <2> DEFINE S == [turn : 1 .. MaxTurns, index : 0 .. MaxSentences]
  <2>1. ttsQueue \in Seq(S) /\ ttsQueue # <<>> /\ ttsQueue' = Tail(ttsQueue)
    BY QueueTypes DEF TakeItem
  <2> HIDE DEF S
  <2>2. /\ Head(ttsQueue) = ttsQueue[1] /\ 1 \in 1 .. Len(ttsQueue) /\ Len(ttsQueue) \in Nat
        /\ Len(ttsQueue') = Len(ttsQueue) - 1
        /\ \A i \in 1 .. Len(ttsQueue') : i + 1 \in 1 .. Len(ttsQueue) /\ ttsQueue'[i] = ttsQueue[i + 1]
        /\ Head(ttsQueue) \in S
    BY <2>1
  <2> QED BY <2>2 DEF S
<1>3. \A t \in 1 .. MaxTurns : Unabandoned(t)' = Unabandoned(t)
  BY <1>1 DEF Unabandoned
<1>4. gen[Head(ttsQueue).turn] # "none"
  BY <1>2 DEF Carried, Items
<1>5. Items'
  <2>1. \A i \in 1 .. Len(ttsQueue') : gen[ttsQueue'[i].turn] # "none"
    BY <1>2 DEF Carried, Items
  <2>2. respPc' = "speak" => current' = Head(ttsQueue)
    BY DEF TakeItem
  <2> QED BY <1>1, <1>2, <1>4, <2>1, <2>2 DEF Carried, Items
<1>6. ASSUME NEW t \in 1 .. MaxTurns, Over(t), Unabandoned(t) PROVE Gone(t)'
  <2>1. Gone(t)
    BY <1>6 DEF Carried
  <2>2. respPc' = "speak" => current'.turn # t
    BY <1>2, <2>1 DEF Gone, TakeItem
  <2> QED BY <1>1, <1>2, <2>1, <2>2 DEF Gone
<1>7. ASSUME Unabandoned(turn) PROVE EndsLast /\ Head(ttsQueue).turn = turn
  <2>1. EndsLast
    BY <1>1, <1>7 DEF Carried
  <2> DEFINE u == Head(ttsQueue).turn
  <2>2. u \in 1 .. MaxTurns /\ u <= turn
    BY <1>2, <1>4 DEF InOrder, Turns, Announced
  <2>3. u < turn => Over(u) /\ Unabandoned(u)
    BY <1>1, <1>7, <2>2, OrderTypes DEF Over, Unabandoned
  <2>4. ~ (u < turn)
    BY <1>2, <2>2, <2>3 DEF Carried, Gone
  <2> QED BY <1>1, <2>1, <2>2, <2>4
<1>8. CASE respPc' = "speak"
  <2>1. \A t \in 1 .. MaxTurns : Over(t)' => Over(t)
    BY <1>1, <1>8 DEF Over, InTurn
  <2>2. ASSUME Unabandoned(turn) PROVE EndsLast'
    <3>1. EndsLast
      BY <1>7, <2>2
    <3>2. ASSUME NEW i \in 1 .. Len(ttsQueue'), ttsQueue'[i].index = 0, ttsQueue'[i].turn = turn
          PROVE  /\ gen[turn] = "done" /\ i = Len(ttsQueue')
                 /\ \A j \in 1 .. Len(bus) : Tts(bus[j]) => bus[j].turn # turn
      <4>1. i + 1 \in 1 .. Len(ttsQueue) /\ ttsQueue[i + 1].index = 0 /\ ttsQueue[i + 1].turn = turn
        BY <1>2, <3>2
      <4> QED BY <1>2, <3>1, <4>1 DEF EndsLast
    <3> QED BY <1>1, <3>1, <3>2 DEF EndsLast
  <2> QED BY <1>1, <1>3, <1>5, <1>6, <2>1, <2>2 DEF Carried
<1>9. CASE respPc' = "poll"
  <2>1. Head(ttsQueue).index = 0
    BY <1>9 DEF TakeItem
  <2>2. ASSUME Unabandoned(turn) PROVE Gone(turn)'
    <3>1. /\ gen[turn] = "done" /\ 1 = Len(ttsQueue)
          /\ \A j \in 1 .. Len(bus) : Tts(bus[j]) => bus[j].turn # turn
      BY <1>2, <1>7, <2>1, <2>2 DEF EndsLast
    <3>2. Len(ttsQueue') = 0
      <4>1. Len(ttsQueue') = Len(ttsQueue) - 1
        BY <1>2
      <4>2. 1 - 1 = 0
        OBVIOUS
      <4> QED BY <3>1, <4>1, <4>2
    <3> QED BY <1>1, <1>9, <3>1, <3>2 DEF Gone
  <2>3. ASSUME NEW t \in 1 .. MaxTurns, Over(t)', Unabandoned(t)' PROVE Gone(t)'
    <3>1. Unabandoned(t)
      BY <1>3, <2>3
    <3>2. Over(t) \/ t = turn
      BY <1>1, <2>3 DEF Over
    <3>3. CASE t = turn
      <4>1. Gone(turn)'
        BY <2>2, <3>1, <3>3
      <4> QED BY <1>1, <3>3, <4>1 DEF Gone
    <3> QED BY <1>6, <3>1, <3>2, <3>3
  <2> QED BY <1>5, <1>9, <2>3 DEF Carried, InTurn
<1> QED BY <1>8, <1>9 DEF TakeItem

LEMMA CarriedMoves ==
  ASSUME Types, InOrder, Carried, Moves, UNCHANGED agentVars
  PROVE  Carried'
<1>1. gen' = gen
  BY DEF agentVars
<1>2. CASE bus' = bus
  <2>1. SameTts
    BY <1>2 DEF SameTts
  <2>2. CASE Aside \/ GiveUp \/ TrailFirst \/ Spoke \/ TrailEnds
    <3>1. respPc \in {"speakTrail"} => turn \in abandoned
      BY DEF InOrder, Turns
    <3>2. UNCHANGED <<ttsQueue, turn>> /\ abandoned \subseteq abandoned'
      BY <2>2 DEF Aside, GiveUp, TrailFirst, Spoke, TrailEnds
    <3>3. respPc' = "speak" => respPc = "speak" /\ current' = current
      BY <2>2 DEF Aside, GiveUp, TrailFirst, Spoke, TrailEnds, InTurn
    <3>4. respPc' \in InTurn => respPc \in InTurn
      BY <2>2 DEF Aside, GiveUp, TrailFirst, Spoke, TrailEnds, InTurn
    <3>5. respPc' \in InTurn \/ respPc \notin InTurn \/ turn \in abandoned'
      BY <2>2, <3>1 DEF Aside, GiveUp, TrailFirst, Spoke, TrailEnds, InTurn, InOrder, Turns
    <3> QED BY <1>1, <2>1, <3>2, <3>3, <3>4, <3>5, CarriedKept
  <2>3. CASE ResumeFirst
    <3>1. turn' \in 1 .. MaxTurns /\ ~ Announced(turn')
      BY <2>3, OrderTypes DEF ResumeFirst, Announced
    <3>2. \A t \in 1 .. MaxTurns : t < turn' => Over(t)
      BY <2>3, OrderTypes DEF ResumeFirst, Over
    <3> QED BY <1>1, <2>1, <2>3, <3>1, <3>2, CarriedNew DEF ResumeFirst, InTurn
  <2> QED BY <1>1, <1>2, <2>2, <2>3, CarriedTaken DEF Moves, Announce, TakeItem
<1>3. CASE TakeItem \/ Aside \/ GiveUp \/ TrailFirst \/ Spoke \/ ResumeFirst
  BY <1>2, <1>3 DEF TakeItem, Aside, GiveUp, TrailFirst, Spoke, ResumeFirst
<1>4. ASSUME NEW t \in 1 .. MaxTurns, Announce(t) PROVE Carried'
  <2> DEFINE m == Message("audio.transcript", t, 0)
  <2>1. m \in Messages /\ ~ Tts(m)
    BY BusConstants DEF Message, Messages, Tts
  <2>2. bus' = Append(bus, m)
    BY <1>4 DEF Announce
  <2> HIDE DEF m
  <2>3. SameTts
    BY <2>1, <2>2, OrderTypes, SameAppended
  <2>4. turn' = t /\ ~ Announced(t)
    BY <1>4, OrderTypes DEF Announce, Announced, Resuming
  <2>5. \A u \in 1 .. MaxTurns : u < t => Over(u)
    BY <1>4, OrderTypes DEF Announce, Over
  <2>6. ttsQueue' = <<>> /\ abandoned \subseteq abandoned' /\ respPc' \in {"busGet", "busTrail"}
    BY <1>4 DEF Announce
  <2> QED BY <1>1, <2>3, <2>4, <2>5, <2>6, CarriedNew DEF InTurn
<1>5. CASE TrailEnds /\ respPc = "busTrail"
  <2> DEFINE m == Message("audio.interrupt", turn, 0)
  <2>1. turn \in 1 .. MaxTurns /\ turn \in abandoned
    BY <1>5, OrderTypes DEF InOrder, Turns, InTurn
  <2>2. m \in Messages /\ ~ Tts(m) /\ bus' = Append(bus, m)
    BY <1>5, <2>1, BusConstants DEF Message, Messages, Tts, TrailEnds
  <2> HIDE DEF m
  <2>3. SameTts
    BY <2>2, OrderTypes, SameAppended
  <2> QED BY <1>1, <1>5, <2>1, <2>3, CarriedKept DEF TrailEnds, InTurn
<1>6. CASE TrailEnds /\ respPc # "busTrail"
  BY <1>2, <1>6 DEF TrailEnds
<1> QED BY <1>3, <1>4, <1>5, <1>6 DEF Moves

(* An agent speaks only while its turn has no end mark.                     *)
LEMMA CarriedAgent ==
  ASSUME Types, InOrder, Carried, AgentStep
  PROVE  Carried'
<1>1. PICK t \in 1 .. MaxTurns : Say(t) \/ SayDone(t) \/ GenerationFails(t)
  BY DEF AgentStep, AgentNext
<1>2. UNCHANGED <<turn, respPc, abandoned, ttsQueue, current>>
  BY DEF AgentStep, fsmVars, turnVars
<1>3. gen[t] = "generating" /\ \A u \in 1 .. MaxTurns : u # t => gen'[u] = gen[u]
  BY <1>1, OrderTypes DEF Say, SayDone, GenerationFails
<1>4. gen'[t] # "none"
  BY <1>1, OrderTypes DEF Say, SayDone, GenerationFails
<1>5. \A u : /\ Over(u)' <=> Over(u)
             /\ Unabandoned(u)' <=> Unabandoned(u)
  BY <1>2 DEF Over, Unabandoned
<1>6. \/ bus' = bus /\ gen'[t] = "failed"
      \/ \E m \in Messages : /\ bus' = Append(bus, m) /\ m.turn = t
                             /\ \/ m.type = "tts.speak" /\ m.index # 0
                                \/ m.type = "tts.done" /\ m.index = 0 /\ gen'[t] = "done"
  <2>1. CASE Say(t)
    <3>1. sentences[t] + 1 \in 0 .. MaxSentences /\ sentences[t] + 1 # 0
      BY <2>1, BusConstants DEF Say, Types, TypeOK, AgentTypeOK
    <3>2. Message("tts.speak", t, sentences[t] + 1) \in Messages
      BY <3>1 DEF Message, Messages
    <3> QED BY <2>1, <3>1, <3>2 DEF Say, Send, Message
  <2>2. CASE SayDone(t)
    <3>1. Message("tts.done", t, 0) \in Messages
      BY BusConstants DEF Message, Messages
    <3>2. gen'[t] = "done"
      BY <2>2, OrderTypes DEF SayDone
    <3> QED BY <2>2, <3>1, <3>2 DEF SayDone, Send, Message
  <2>3. CASE GenerationFails(t)
    BY <2>3, OrderTypes DEF GenerationFails
  <2> QED BY <1>1, <2>1, <2>2, <2>3
<1>7. /\ Len(bus) \in Nat /\ Len(bus') \in Nat /\ Len(bus) <= Len(bus')
      /\ \A i \in 1 .. Len(bus) : bus'[i] = bus[i]
      /\ \A i \in 1 .. Len(bus') : i \in 1 .. Len(bus) \/
            /\ i = Len(bus') /\ bus'[i].turn = t
            /\ \/ bus'[i].type = "tts.speak" /\ bus'[i].index # 0
               \/ bus'[i].type = "tts.done" /\ bus'[i].index = 0 /\ gen'[t] = "done"
  <2>1. CASE bus' = bus
    BY <2>1, OrderTypes
  <2>2. ASSUME NEW m \in Messages, bus' = Append(bus, m), m.turn = t,
               \/ m.type = "tts.speak" /\ m.index # 0
               \/ m.type = "tts.done" /\ m.index = 0 /\ gen'[t] = "done"
        PROVE  /\ Len(bus) \in Nat /\ Len(bus') \in Nat /\ Len(bus) <= Len(bus')
               /\ \A i \in 1 .. Len(bus) : bus'[i] = bus[i]
               /\ \A i \in 1 .. Len(bus') : i \in 1 .. Len(bus) \/
                     /\ i = Len(bus') /\ bus'[i].turn = t
                     /\ \/ bus'[i].type = "tts.speak" /\ bus'[i].index # 0
                        \/ bus'[i].type = "tts.done" /\ bus'[i].index = 0 /\ gen'[t] = "done"
    <3>1. /\ Len(bus') = Len(bus) + 1 /\ bus'[Len(bus) + 1] = m /\ Len(bus) \in Nat
          /\ \A i \in 1 .. Len(bus) : bus'[i] = bus[i]
      BY <2>2, OrderTypes
    <3>2. \A i \in 1 .. Len(bus') : i \in 1 .. Len(bus) \/ i = Len(bus) + 1
      BY <3>1
    <3>3. Len(bus') \in Nat /\ Len(bus) <= Len(bus')
      BY <3>1
    <3>4. ASSUME NEW i \in 1 .. Len(bus'), i \notin 1 .. Len(bus)
          PROVE  /\ i = Len(bus') /\ bus'[i].turn = t
                 /\ \/ bus'[i].type = "tts.speak" /\ bus'[i].index # 0
                    \/ bus'[i].type = "tts.done" /\ bus'[i].index = 0 /\ gen'[t] = "done"
      <4>1. i = Len(bus) + 1 /\ bus'[i] = m
        BY <3>1, <3>2, <3>4
      <4> QED BY <2>2, <3>1, <4>1
    <3> QED BY <3>1, <3>3, <3>4
  <2> QED BY <1>6, <2>1, <2>2
<1>8. Items'
  <2>1. ASSUME NEW i \in 1 .. Len(bus')
        PROVE  /\ bus'[i].type = "tts.speak" => bus'[i].index # 0
               /\ bus'[i].type = "tts.done" => bus'[i].index = 0
               /\ Tts(bus'[i]) => gen'[bus'[i].turn] # "none"
    <3>1. CASE i \in 1 .. Len(bus)
      <4>1. bus'[i] = bus[i] /\ bus[i].turn \in 1 .. MaxTurns
        BY <1>7, <3>1, OrderTypes
      <4> QED BY <1>3, <1>4, <3>1, <4>1 DEF Carried, Items
    <3>2. CASE i \notin 1 .. Len(bus)
      BY <1>4, <1>7, <3>2
    <3> QED BY <3>1, <3>2
  <2>2. \A i \in 1 .. Len(ttsQueue) : gen'[ttsQueue[i].turn] # "none"
    BY <1>3, <1>4, QueueTypes DEF Carried, Items
  <2>3. respPc = "speak" => gen'[current.turn] # "none"
    BY <1>3, <1>4 DEF Carried, Items
  <2> QED BY <1>2, <2>1, <2>2, <2>3 DEF Carried, Items
<1>9. ASSUME NEW u \in 1 .. MaxTurns, Over(u), Unabandoned(u) PROVE Gone(u)'
  <2>1. Gone(u) /\ u # t
    BY <1>3, <1>9 DEF Carried, Gone
  <2>2. \A i \in 1 .. Len(bus') : Tts(bus'[i]) => bus'[i].turn # u
    BY <1>7, <2>1 DEF Gone
  <2> QED BY <1>2, <1>3, <2>1, <2>2 DEF Gone
<1>10. ASSUME respPc \in InTurn, Unabandoned(turn) PROVE EndsLast'
  <2>1. EndsLast /\ turn \in 1 .. MaxTurns
    BY <1>10, OrderTypes DEF Carried
  <2>2. CASE t = turn
    <3>1. /\ \A i \in 1 .. Len(bus) : bus[i].type = "tts.done" => bus[i].turn # turn
          /\ \A i \in 1 .. Len(ttsQueue) : ttsQueue[i].index = 0 => ttsQueue[i].turn # turn
      BY <1>3, <2>1, <2>2 DEF EndsLast
    <3>2. ASSUME NEW i \in 1 .. Len(bus'), bus'[i].type = "tts.done", bus'[i].turn = turn
          PROVE  /\ gen'[turn] = "done"
                 /\ \A j \in i + 1 .. Len(bus') : Tts(bus'[j]) => bus'[j].turn # turn
      <4>1. i \notin 1 .. Len(bus)
        BY <1>7, <3>1, <3>2
      <4>2. i = Len(bus') /\ gen'[t] = "done"
        BY <1>7, <3>2, <4>1
      <4>3. \A j \in i + 1 .. Len(bus') : FALSE
        BY <1>7, <4>2
      <4> QED BY <2>2, <4>2, <4>3
    <3> QED BY <1>2, <3>1, <3>2 DEF EndsLast
  <2>3. CASE t # turn
    <3>1. gen'[turn] = gen[turn]
      BY <1>3, <2>1, <2>3
    <3>2. \A i \in 1 .. Len(bus') : bus'[i].turn = turn => i \in 1 .. Len(bus) /\ bus'[i] = bus[i]
      BY <1>7, <2>3
    <3>3. ASSUME NEW i \in 1 .. Len(bus'), bus'[i].type = "tts.done", bus'[i].turn = turn
          PROVE  \A j \in i + 1 .. Len(bus') : Tts(bus'[j]) => bus'[j].turn # turn
      <4>1. i \in 1 .. Len(bus) /\ bus'[i] = bus[i]
        BY <3>2, <3>3
      <4>2. \A j \in i + 1 .. Len(bus') : j \in 1 .. Len(bus')
        BY <3>3
      <4>3. \A j \in i + 1 .. Len(bus') : j \in 1 .. Len(bus) => j \in i + 1 .. Len(bus)
        BY <3>3
      <4> QED BY <2>1, <3>2, <3>3, <4>1, <4>2, <4>3 DEF EndsLast
    <3>4. \A i \in 1 .. Len(bus') : bus'[i].type = "tts.done" /\ bus'[i].turn = turn => gen'[turn] = "done"
      BY <2>1, <3>1, <3>2 DEF EndsLast
    <3>5. ASSUME NEW i \in 1 .. Len(ttsQueue), ttsQueue[i].index = 0, ttsQueue[i].turn = turn
          PROVE  /\ gen'[turn] = "done" /\ i = Len(ttsQueue)
                 /\ \A j \in 1 .. Len(bus') : Tts(bus'[j]) => bus'[j].turn # turn
      BY <2>1, <3>1, <3>2, <3>5 DEF EndsLast
    <3> QED BY <1>2, <3>3, <3>4, <3>5 DEF EndsLast
  <2> QED BY <2>2, <2>3
<1>11. \A u \in 1 .. MaxTurns : Over(u)' /\ Unabandoned(u)' => Gone(u)'
  BY <1>5, <1>9
<1>12. respPc' \in InTurn /\ Unabandoned(turn)' => EndsLast'
  BY <1>2, <1>10 DEF Unabandoned
<1> QED BY <1>8, <1>11, <1>12 DEF Carried

(* A message moves from the front of the bus to the end of the queue.       *)
LEMMA CarriedDelivered ==
  ASSUME Types, InOrder, Carried, Deliver
  PROVE  Carried'
<1> DEFINE m == Head(bus)
<1>1. /\ bus # <<>> /\ bus' = Tail(bus) /\ m = bus[1] /\ 1 \in 1 .. Len(bus)
      /\ Len(bus') = Len(bus) - 1 /\ Len(bus) \in Nat
      /\ \A i \in 1 .. Len(bus') : i + 1 \in 1 .. Len(bus) /\ bus'[i] = bus[i + 1]
  BY OrderTypes DEF Deliver, Receive
<1>2. m \in Messages /\ m.turn \in 1 .. MaxTurns
  BY <1>1, OrderTypes
<1>3. \/ Transcript(m) /\ HandleTranscript(m) /\ UNCHANGED fsmVars
      \/ Interruption(m) /\ HandleInterrupt /\ UNCHANGED fsmVars
      \/ Tts(m) /\ HandleTts(m) /\ UNCHANGED agentVars
  BY DEF Deliver, Transcript, Interruption, Tts
<1>4. Tts(m) => gen[m.turn] # "none" /\ (m.type = "tts.speak" => m.index # 0)
                /\ (m.type = "tts.done" => m.index = 0)
  BY <1>1 DEF Carried, Items
<1> HIDE DEF m
<1>5. UNCHANGED <<turn, respPc, abandoned, current>>
  BY <1>3 DEF fsmVars, turnVars, HandleTts
<1>6. \A u : /\ Over(u)' <=> Over(u)
             /\ Unabandoned(u)' <=> Unabandoned(u)
  BY <1>5 DEF Over, Unabandoned
<1>7. \A u \in 1 .. MaxTurns : gen[u] # "none" => gen'[u] = gen[u]
  <2>1. CASE Transcript(m) /\ HandleTranscript(m)
    <3>1. gen[m.turn] = "none"
      BY <1>1, <1>2, <2>1, OrderTypes DEF InOrder, TranscriptFits
    <3> QED BY <1>2, <2>1, <3>1, OrderTypes DEF HandleTranscript
  <2>2. CASE gen' = gen
    BY <2>2
  <2> QED BY <1>3, <2>1, <2>2 DEF HandleInterrupt, agentVars
<1>8. \/ ~ Tts(m) /\ ttsQueue' = ttsQueue
      \/ Tts(m) /\ ttsQueue' = Append(ttsQueue, [turn |-> m.turn, index |-> m.index])
  BY <1>3 DEF fsmVars, turnVars, HandleTts, Transcript, Interruption, Tts
<1>9. /\ Len(ttsQueue) \in Nat /\ Len(ttsQueue') \in Nat /\ Len(ttsQueue) <= Len(ttsQueue')
      /\ ~ Tts(m) => Len(ttsQueue') = Len(ttsQueue)
      /\ \A i \in 1 .. Len(ttsQueue) : ttsQueue'[i] = ttsQueue[i]
      /\ \A i \in 1 .. Len(ttsQueue') : i \in 1 .. Len(ttsQueue) \/
            /\ i = Len(ttsQueue') /\ Tts(m)
            /\ ttsQueue'[i].turn = m.turn /\ ttsQueue'[i].index = m.index
  <2>1. CASE ~ Tts(m) /\ ttsQueue' = ttsQueue
    BY <2>1, QueueTypes
  <2>2. CASE Tts(m) /\ ttsQueue' = Append(ttsQueue, [turn |-> m.turn, index |-> m.index])
    <3> DEFINE S == [turn : 1 .. MaxTurns, index : 0 .. MaxSentences]
               x == [turn |-> m.turn, index |-> m.index]
    <3>1. ttsQueue \in Seq(S) /\ x \in S /\ x.turn = m.turn /\ x.index = m.index
      BY <1>2, QueueTypes DEF Messages
    <3>2. ttsQueue' = Append(ttsQueue, x)
      BY <2>2
    <3> HIDE DEF S, x
    <3>3. /\ Len(ttsQueue') = Len(ttsQueue) + 1 /\ ttsQueue'[Len(ttsQueue) + 1] = x
          /\ \A i \in 1 .. Len(ttsQueue) : ttsQueue'[i] = ttsQueue[i]
          /\ Len(ttsQueue) \in Nat
      BY <3>1, <3>2
    <3>4. ASSUME NEW i \in 1 .. Len(ttsQueue'), i \notin 1 .. Len(ttsQueue)
          PROVE  i = Len(ttsQueue') /\ ttsQueue'[i] = x
      <4>1. i = Len(ttsQueue) + 1
        BY <3>3, <3>4
      <4> QED BY <3>3, <4>1
    <3>5. Len(ttsQueue') \in Nat /\ Len(ttsQueue) <= Len(ttsQueue')
      BY <3>3
    <3> QED BY <2>2, <3>1, <3>3, <3>4, <3>5
  <2> QED BY <1>8, <2>1, <2>2
<1>10. Items'
  <2>1. ASSUME NEW i \in 1 .. Len(bus')
        PROVE  /\ bus'[i].type = "tts.speak" => bus'[i].index # 0
               /\ bus'[i].type = "tts.done" => bus'[i].index = 0
               /\ Tts(bus'[i]) => gen'[bus'[i].turn] # "none"
    <3>1. i + 1 \in 1 .. Len(bus) /\ bus'[i] = bus[i + 1]
      BY <1>1
    <3>2. bus[i + 1].turn \in 1 .. MaxTurns
      BY <3>1, OrderTypes
    <3> QED BY <1>7, <3>1, <3>2 DEF Carried, Items
  <2>2. ASSUME NEW i \in 1 .. Len(ttsQueue') PROVE gen'[ttsQueue'[i].turn] # "none"
    <3>1. CASE i \in 1 .. Len(ttsQueue)
      <4>1. ttsQueue'[i] = ttsQueue[i] /\ ttsQueue[i].turn \in 1 .. MaxTurns
            /\ gen[ttsQueue[i].turn] # "none"
        BY <1>9, <3>1, QueueTypes DEF Carried, Items
      <4> QED BY <1>7, <4>1
    <3>2. CASE i \notin 1 .. Len(ttsQueue)
      BY <1>2, <1>4, <1>7, <1>9, <3>2
    <3> QED BY <3>1, <3>2
  <2>3. respPc = "speak" => gen'[current.turn] # "none"
    BY <1>7 DEF Carried, Items
  <2> QED BY <1>5, <2>1, <2>2, <2>3 DEF Carried, Items
<1>11. ASSUME NEW u \in 1 .. MaxTurns, Over(u), Unabandoned(u) PROVE Gone(u)'
  <2>1. Gone(u)
    BY <1>11 DEF Carried
  <2>2. Tts(m) => m.turn # u
    BY <1>1, <2>1 DEF Gone
  <2>3. \A i \in 1 .. Len(bus') : Tts(bus'[i]) => bus'[i].turn # u
    BY <1>1, <2>1 DEF Gone
  <2>4. \A i \in 1 .. Len(ttsQueue') : ttsQueue'[i].turn # u
    BY <1>9, <2>1, <2>2 DEF Gone
  <2>5. gen'[u] = "done"
    BY <1>7, <2>1 DEF Gone
  <2> QED BY <1>5, <2>1, <2>3, <2>4, <2>5 DEF Gone
<1>12. ASSUME respPc \in InTurn, Unabandoned(turn) PROVE EndsLast'
  <2>1. EndsLast /\ turn \in 1 .. MaxTurns
    BY <1>12, OrderTypes DEF Carried
  <2>2. Tts(m) => m.turn = turn
    <3> SUFFICES ASSUME Tts(m) PROVE m.turn = turn
      OBVIOUS
    <3>1. m.turn <= turn
      BY <1>2, <1>4 DEF InOrder, Turns, Announced
    <3>2. m.turn < turn => Over(m.turn) /\ Unabandoned(m.turn)
      BY <1>2, <1>12, <2>1, OrderTypes DEF Over, Unabandoned
    <3>3. ~ (m.turn < turn)
      BY <1>1, <1>2, <3>2 DEF Carried, Gone
    <3> QED BY <1>2, <2>1, <3>1, <3>3
  <2>3. gen[turn] = "done" => gen'[turn] = "done"
    BY <1>7, <2>1
  <2>4. ASSUME NEW i \in 1 .. Len(bus'), bus'[i].type = "tts.done", bus'[i].turn = turn
        PROVE  /\ gen'[turn] = "done"
               /\ \A j \in i + 1 .. Len(bus') : Tts(bus'[j]) => bus'[j].turn # turn
    <3>1. i + 1 \in 1 .. Len(bus) /\ bus[i + 1].type = "tts.done" /\ bus[i + 1].turn = turn
      BY <1>1, <2>4
    <3>2. \A j \in i + 1 .. Len(bus') : j \in 1 .. Len(bus') /\ j + 1 \in i + 1 + 1 .. Len(bus)
      BY <1>1, <2>4
    <3> QED BY <1>1, <2>1, <2>3, <3>1, <3>2 DEF EndsLast
  <2>5. ASSUME NEW i \in 1 .. Len(ttsQueue'), ttsQueue'[i].index = 0, ttsQueue'[i].turn = turn
        PROVE  /\ gen'[turn] = "done" /\ i = Len(ttsQueue')
               /\ \A j \in 1 .. Len(bus') : Tts(bus'[j]) => bus'[j].turn # turn
    <3>1. CASE i \in 1 .. Len(ttsQueue)
      <4>1. ttsQueue[i].index = 0 /\ ttsQueue[i].turn = turn
        BY <1>9, <2>5, <3>1
      <4>2. /\ gen[turn] = "done" /\ i = Len(ttsQueue)
            /\ \A j \in 1 .. Len(bus) : Tts(bus[j]) => bus[j].turn # turn
        BY <2>1, <3>1, <4>1 DEF EndsLast
      <4>3. ~ Tts(m)
        BY <1>1, <2>2, <4>2
      <4> QED BY <1>1, <1>9, <2>3, <4>2, <4>3
    <3>2. CASE i \notin 1 .. Len(ttsQueue)
      <4>1. i = Len(ttsQueue') /\ Tts(m) /\ m.index = 0
        BY <1>9, <2>5, <3>2
      <4>2. m.type = "tts.done" /\ bus[1] = m /\ m.turn = turn
        BY <1>1, <1>4, <2>2, <4>1 DEF Tts, m
      <4>3. gen[turn] = "done" /\ \A j \in 1 + 1 .. Len(bus) : Tts(bus[j]) => bus[j].turn # turn
        BY <1>1, <2>1, <4>2 DEF EndsLast
      <4>4. \A j \in 1 .. Len(bus') : j + 1 \in 1 + 1 .. Len(bus)
        BY <1>1
      <4> QED BY <1>1, <2>3, <4>1, <4>3, <4>4
    <3> QED BY <3>1, <3>2
  <2> QED BY <1>5, <2>4, <2>5 DEF EndsLast
<1>13. \A u \in 1 .. MaxTurns : Over(u)' /\ Unabandoned(u)' => Gone(u)'
  BY <1>6, <1>11
<1>14. respPc' \in InTurn /\ Unabandoned(turn)' => EndsLast'
  BY <1>5, <1>12 DEF Unabandoned
<1> QED BY <1>10, <1>13, <1>14 DEF Carried

-----------------------------------------------------------------------------
LEMMA FaithfulInit == Init => Faithful
<1> SUFFICES ASSUME Init PROVE Faithful
  OBVIOUS
<1>1. Len(bus) = 0 /\ Len(ttsQueue) = 0 /\ Len(spoken) = 0 /\ respPc = "poll" /\ turn = 0
  BY DEF Init, BusInit, FsmInit
<1>2. Items
  BY <1>1 DEF Items
<1>3. \A t \in 1 .. MaxTurns : ~ Over(t)
  BY <1>1 DEF Over
<1>4. Carried
  BY <1>1, <1>2, <1>3 DEF Carried, InTurn
<1>5. spoken \in Seq([turn : Nat, item : [turn : Nat, index : Nat]])
  BY DEF Init, FsmInit
<1>6. FaithfulSpeech
  BY <1>1 DEF FaithfulSpeech
<1> QED BY <1>4, <1>5, <1>6 DEF Faithful

LEMMA SpeechKept ==
  ASSUME Faithful, UNCHANGED spoken, abandoned \subseteq abandoned'
  PROVE  /\ spoken' \in Seq([turn : Nat, item : [turn : Nat, index : Nat]])
         /\ FaithfulSpeech'
  BY DEF Faithful, FaithfulSpeech

(* What is being spoken is of the turn that is answered, or of an older one *)
(* that was given up or followed one that was.                              *)
LEMMA SpeechGrows ==
  ASSUME Types, InOrder, Faithful, Spoke
  PROVE  /\ spoken' \in Seq([turn : Nat, item : [turn : Nat, index : Nat]])
         /\ FaithfulSpeech'
<1> DEFINE R == [turn : Nat, item : [turn : Nat, index : Nat]]
           x == [turn |-> turn, item |-> current]
<1>1. /\ current.turn \in 1 .. MaxTurns /\ current.index \in 0 .. MaxSentences
      /\ current \in [turn : 1 .. MaxTurns, index : 0 .. MaxSentences]
      /\ gen[current.turn] # "none" /\ turn \in 1 .. MaxTurns /\ respPc = "speak"
  BY OrderTypes DEF Spoke, Faithful, Carried, Items, InTurn
<1>2. current.turn <= turn
  BY <1>1 DEF InOrder, Turns, Announced
<1>3. current.turn # turn => /\ current.turn < turn
                             /\ \E a \in abandoned : a <= current.turn
  <2> SUFFICES ASSUME current.turn # turn
               PROVE  current.turn < turn /\ \E a \in abandoned : a <= current.turn
    OBVIOUS
  <2>1. Over(current.turn) /\ current.turn < turn
    BY <1>1, <1>2 DEF Over
  <2>2. ~ Unabandoned(current.turn)
    BY <1>1, <2>1 DEF Faithful, Carried, Gone
  <2> QED BY <1>1, <2>1, <2>2, OrderTypes DEF Unabandoned
<1>4. x \in R /\ spoken \in Seq(R) /\ spoken' = Append(spoken, x)
  BY <1>1, BusConstants DEF Faithful, Spoke
<1>5. x.turn = turn /\ x.item = current
  OBVIOUS
<1> HIDE DEF R, x
<1>6. /\ spoken' \in Seq(R) /\ Len(spoken') = Len(spoken) + 1 /\ Len(spoken) \in Nat
      /\ spoken'[Len(spoken) + 1] = x
      /\ \A i \in 1 .. Len(spoken) : spoken'[i] = spoken[i]
  BY <1>4
<1>7. abandoned \subseteq abandoned'
  BY DEF Spoke
<1>8. ASSUME NEW i \in 1 .. Len(spoken'), spoken'[i].turn # spoken'[i].item.turn
      PROVE  /\ spoken'[i].item.turn < spoken'[i].turn
             /\ \E a \in abandoned' : a <= spoken'[i].item.turn
  <2>1. CASE i \in 1 .. Len(spoken)
    BY <1>6, <1>7, <1>8, <2>1 DEF Faithful, FaithfulSpeech
  <2>2. CASE i \notin 1 .. Len(spoken)
    <3>1. i = Len(spoken) + 1
      BY <1>6, <2>2
    <3>2. spoken'[i] = x
      BY <1>6, <3>1
    <3> QED BY <1>3, <1>5, <1>7, <1>8, <3>2
  <2> QED BY <2>1, <2>2
<1>9. FaithfulSpeech'
  BY <1>8 DEF FaithfulSpeech
<1> QED BY <1>6, <1>9 DEF R

LEMMA FaithfulStep == Types /\ InOrder /\ Faithful /\ [Next]_vars => Faithful'
<1> SUFFICES ASSUME Types, InOrder, Faithful, [Next]_vars PROVE Faithful'
  OBVIOUS
<1>1. Carried
  BY DEF Faithful
<1>2. ASSUME Moves, UNCHANGED agentVars PROVE Faithful'
  <2>1. Carried'
    BY <1>1, <1>2, CarriedMoves
  <2>2. CASE Spoke
    BY <2>1, <2>2, SpeechGrows DEF Faithful
  <2>3. CASE spoken' = spoken /\ abandoned \subseteq abandoned'
    BY <2>1, <2>3, SpeechKept DEF Faithful
  <2> QED BY <1>2, <2>2, <2>3 DEF Moves, Aside, ResumeFirst, TakeItem, GiveUp, TrailFirst,
                                  TrailEnds, Announce
<1>3. CASE FsmStep
  BY <1>2, <1>3, MovesOnly
<1>4. CASE AgentStep
  <2>1. UNCHANGED <<spoken, abandoned>>
    BY <1>4 DEF AgentStep, fsmVars, turnVars
  <2> QED BY <1>1, <1>4, <2>1, CarriedAgent, SpeechKept DEF Faithful
<1>5. CASE Deliver
  <2>1. UNCHANGED <<spoken, abandoned>>
    BY <1>5 DEF Deliver, fsmVars, turnVars, HandleTts
  <2> QED BY <1>1, <1>5, <2>1, CarriedDelivered, SpeechKept DEF Faithful
<1>6. CASE UNCHANGED vars
  <2>1. Aside /\ UNCHANGED agentVars
    BY <1>6 DEF vars, fsmVars, turnVars, Aside
  <2> QED BY <1>2, <2>1 DEF Moves
<1> QED BY <1>3, <1>4, <1>5, <1>6 DEF Next

(* For any number of turns and sentences: a sentence of another turn is     *)
(* spoken only if that turn, or one before it, was given up.                *)
THEOREM SpeechIsFaithful == Spec => []FaithfulSpeech
<1>1. Faithful => FaithfulSpeech
  BY DEF Faithful
<1> QED BY <1>1, TypesInit, TypesStep, OrderInit, OrderStep, FaithfulInit, FaithfulStep, PTL DEF Spec

-----------------------------------------------------------------------------
(* Completeness.  Every sentence of a turn that was not lost is said, or    *)
(* being said, or queued, or in the bus.                                    *)
Sentence(t, k) == [turn |-> t, index |-> k]

Said(t, k) == \E i \in 1 .. Len(spoken) : spoken[i] = [turn |-> t, item |-> Sentence(t, k)]
Speaking(t, k) == respPc = "speak" /\ current = Sentence(t, k)
Queued(t, k) == \E i \in 1 .. Len(ttsQueue) : ttsQueue[i] = Sentence(t, k)
OnBus(t, k) == \E i \in 1 .. Len(bus) : bus[i] = Message("tts.speak", t, k)

Whole(t) == \A k \in 1 .. sentences[t] : Said(t, k) \/ Speaking(t, k) \/ Queued(t, k) \/ OnBus(t, k)

(* The stations of the sentences of turn t, from the last to the first: up  *)
(* to p they are said, up to q the one that is spoken, up to r queued.      *)
Layers(t, p, q, r) ==
  /\ p <= q /\ q <= r /\ r <= sentences[t]
  /\ \A i \in 1 .. Len(spoken) : spoken[i].turn = t =>
       /\ spoken[i].item.index <= p
       /\ \A j \in 1 .. i - 1 : spoken[j].turn = t => spoken[j].item.index < spoken[i].item.index
  /\ respPc = "speak" /\ current.turn = t => p < current.index /\ current.index <= q
  /\ \A i \in 1 .. Len(ttsQueue) : ttsQueue[i].turn = t /\ ttsQueue[i].index # 0 =>
       /\ q < ttsQueue[i].index /\ ttsQueue[i].index <= r
       /\ \A j \in 1 .. i - 1 : ttsQueue[j].turn = t => ttsQueue[j].index < ttsQueue[i].index
  /\ \A i \in 1 .. Len(bus) : bus[i].turn = t /\ bus[i].type = "tts.speak" =>
       /\ r < bus[i].index /\ bus[i].index <= sentences[t]
       /\ \A j \in 1 .. i - 1 :
            bus[j].turn = t /\ bus[j].type = "tts.speak" => bus[j].index < bus[i].index

Layered(t) == \E p, q, r \in Nat : Layers(t, p, q, r)

Complete == \A t \in 1 .. MaxTurns : Unabandoned(t) => Whole(t) /\ Layered(t)

LEMMA SentenceTypes ==
  ASSUME Types, InOrder, Faithful
  PROVE  /\ \A i \in 1 .. Len(bus) : bus[i].type = "tts.speak" => gen[bus[i].turn] # "none"
         /\ \A i \in 1 .. Len(ttsQueue) : gen[ttsQueue[i].turn] # "none"
         /\ \A i \in 1 .. Len(bus) : bus[i] \in Messages
         /\ \A i \in 1 .. Len(ttsQueue) : ttsQueue[i] \in [turn : 1 .. MaxTurns, index : 0 .. MaxSentences]
         /\ spoken \in Seq([turn : Nat, item : [turn : Nat, index : Nat]])
         /\ \A i \in 1 .. Len(spoken) : spoken[i] \in [turn : Nat, item : [turn : Nat, index : Nat]]
         /\ Len(spoken) \in Nat
         /\ \A t \in 1 .. MaxTurns : sentences[t] \in 0 .. MaxSentences
         /\ respPc = "speak" => current \in [turn : 1 .. MaxTurns, index : 0 .. MaxSentences]
<1> DEFINE R == [turn : Nat, item : [turn : Nat, index : Nat]]
<1>1. spoken \in Seq(R)
  BY DEF Faithful
<1>2. /\ \A i \in 1 .. Len(bus) : bus[i].type = "tts.speak" => gen[bus[i].turn] # "none"
      /\ \A i \in 1 .. Len(ttsQueue) : gen[ttsQueue[i].turn] # "none"
      /\ respPc = "speak" => current \in [turn : 1 .. MaxTurns, index : 0 .. MaxSentences]
  BY DEF Faithful, Carried, Items, Tts
<1>3. \A i \in 1 .. Len(bus) : bus[i] \in Messages
  BY OrderTypes
<1>4. \A t \in 1 .. MaxTurns : sentences[t] \in 0 .. MaxSentences
  BY DEF Types, TypeOK, AgentTypeOK
<1> HIDE DEF R
<1>5. Len(spoken) \in Nat /\ \A i \in 1 .. Len(spoken) : spoken[i] \in R
  BY <1>1
<1> QED BY <1>1, <1>2, <1>3, <1>4, <1>5, QueueTypes DEF R

(* The bus holds the same sentences, perhaps with another end mark.         *)
SameSpeak == \A i \in 1 .. Len(bus') :
               bus'[i].type = "tts.speak" => i \in 1 .. Len(bus) /\ bus'[i] = bus[i]

LEMMA CompleteKept ==
  ASSUME Types, NEW t \in 1 .. MaxTurns, Whole(t), Layered(t), SameSpeak,
         \A i \in 1 .. Len(bus) : i \in 1 .. Len(bus') /\ bus'[i] = bus[i],
         UNCHANGED <<spoken, ttsQueue, sentences>>,
         respPc' = "speak" => respPc = "speak" /\ current' = current,
         respPc = "speak" /\ current.turn = t => respPc' = "speak"
  PROVE  Whole(t)' /\ Layered(t)'
<1>1. Whole(t)'
  <2> SUFFICES ASSUME NEW k \in 1 .. sentences[t]
               PROVE  Said(t, k)' \/ Speaking(t, k)' \/ Queued(t, k)' \/ OnBus(t, k)'
    BY DEF Whole
  <2>1. Said(t, k) \/ Speaking(t, k) \/ Queued(t, k) \/ OnBus(t, k)
    BY DEF Whole
  <2>2. Speaking(t, k) => Speaking(t, k)'
    BY DEF Speaking, Sentence
  <2>3. OnBus(t, k) => OnBus(t, k)'
    BY DEF OnBus
  <2> QED BY <2>1, <2>2, <2>3 DEF Said, Queued
<1>2. PICK p, q, r \in Nat : Layers(t, p, q, r)
  BY DEF Layered
<1>3. Layers(t, p, q, r)'
  <2>1. ASSUME NEW i \in 1 .. Len(bus'), bus'[i].turn = t, bus'[i].type = "tts.speak"
        PROVE  /\ r < bus'[i].index /\ bus'[i].index <= sentences[t]
               /\ \A j \in 1 .. i - 1 :
                     bus'[j].turn = t /\ bus'[j].type = "tts.speak" => bus'[j].index < bus'[i].index
    <3>1. i \in 1 .. Len(bus) /\ bus'[i] = bus[i]
      BY <2>1 DEF SameSpeak
    <3>2. \A j \in 1 .. i - 1 : j \in 1 .. Len(bus) /\ bus'[j] = bus[j]
      BY <3>1, OrderTypes
    <3> QED BY <1>2, <2>1, <3>1, <3>2 DEF Layers
  <2> QED BY <1>2, <2>1 DEF Layers
<1> QED BY <1>1, <1>3 DEF Layered

(* A queue may be emptied of the sentences of other turns. *)
LEMMA CompleteEmptied ==
  ASSUME Types, NEW t \in 1 .. MaxTurns, Whole(t), Layered(t), SameTts,
         \A i \in 1 .. Len(bus) : i \in 1 .. Len(bus') /\ bus'[i] = bus[i],
         UNCHANGED <<spoken, sentences>>, ttsQueue' = <<>>,
         \A i \in 1 .. Len(ttsQueue) : ttsQueue[i].turn # t,
         respPc' # "speak", respPc # "speak"
  PROVE  Whole(t)' /\ Layered(t)'
<1>1. Whole(t)'
  <2> SUFFICES ASSUME NEW k \in 1 .. sentences[t]
               PROVE  Said(t, k)' \/ OnBus(t, k)'
    BY DEF Whole
  <2>1. Said(t, k) \/ Speaking(t, k) \/ Queued(t, k) \/ OnBus(t, k)
    BY DEF Whole
  <2>2. ~ Speaking(t, k) /\ ~ Queued(t, k)
    BY DEF Speaking, Queued, Sentence
  <2>3. OnBus(t, k) => OnBus(t, k)'
    BY DEF OnBus
  <2> QED BY <2>1, <2>2, <2>3 DEF Said
<1>2. PICK p, q, r \in Nat : Layers(t, p, q, r)
  BY DEF Layered
<1>3. Layers(t, p, q, r)'
  <2>1. ASSUME NEW i \in 1 .. Len(bus'), bus'[i].turn = t, bus'[i].type = "tts.speak"
        PROVE  /\ r < bus'[i].index /\ bus'[i].index <= sentences[t]
               /\ \A j \in 1 .. i - 1 :
                     bus'[j].turn = t /\ bus'[j].type = "tts.speak" => bus'[j].index < bus'[i].index
    <3>1. i \in 1 .. Len(bus) /\ bus'[i] = bus[i]
      BY <2>1 DEF SameTts, Tts
    <3>2. \A j \in 1 .. i - 1 : j \in 1 .. Len(bus) /\ bus'[j] = bus[j]
      BY <3>1, OrderTypes
    <3> QED BY <1>2, <2>1, <3>1, <3>2 DEF Layers
  <2>2. Len(ttsQueue') = 0
    OBVIOUS
  <2> QED BY <1>2, <2>1, <2>2 DEF Layers
<1> QED BY <1>1, <1>3 DEF Layered

(* The oldest of the queue is spoken next.                                  *)
LEMMA CompleteTaken ==
  ASSUME Types, InOrder, Faithful, TakeItem, UNCHANGED agentVars,
         NEW t \in 1 .. MaxTurns, Whole(t), Layered(t)
  PROVE  Whole(t)' /\ Layered(t)'
<1>1. UNCHANGED <<spoken, bus, sentences>> /\ respPc = "busGet"
  BY DEF TakeItem, agentVars
<1>2. /\ Head(ttsQueue) = ttsQueue[1] /\ 1 \in 1 .. Len(ttsQueue) /\ Len(ttsQueue) \in Nat
      /\ Len(ttsQueue') = Len(ttsQueue) - 1
      /\ \A i \in 1 .. Len(ttsQueue') : i + 1 \in 1 .. Len(ttsQueue) /\ ttsQueue'[i] = ttsQueue[i + 1]
      /\ Head(ttsQueue) \in [turn : 1 .. MaxTurns, index : 0 .. MaxSentences]
  <2> DEFINE S == [turn : 1 .. MaxTurns, index : 0 .. MaxSentences]
  <2>1. ttsQueue \in Seq(S) /\ ttsQueue # <<>> /\ ttsQueue' = Tail(ttsQueue)
    BY QueueTypes DEF TakeItem
  <2> HIDE DEF S
  <2>2. /\ Head(ttsQueue) = ttsQueue[1] /\ 1 \in 1 .. Len(ttsQueue) /\ Len(ttsQueue) \in Nat
        /\ Len(ttsQueue') = Len(ttsQueue) - 1
        /\ \A i \in 1 .. Len(ttsQueue') : i + 1 \in 1 .. Len(ttsQueue) /\ ttsQueue'[i] = ttsQueue[i + 1]
        /\ Head(ttsQueue) \in S
    BY <2>1
  <2> QED BY <2>2 DEF S
<1> DEFINE h == Head(ttsQueue)
<1>3. \/ respPc' = "speak" /\ h.index # 0 /\ current' = h
      \/ respPc' = "poll" /\ h.index = 0
  BY DEF TakeItem
<1> HIDE DEF h
<1>4. h = ttsQueue[1] /\ h.turn \in 1 .. MaxTurns /\ h.index \in Nat
  BY <1>2 DEF h
<1>5. Whole(t)'
  <2> SUFFICES ASSUME NEW k \in 1 .. sentences[t]
               PROVE  Said(t, k)' \/ Speaking(t, k)' \/ Queued(t, k)' \/ OnBus(t, k)'
    BY <1>1 DEF Whole
  <2>1. Said(t, k) \/ Queued(t, k) \/ OnBus(t, k)
    BY <1>1 DEF Whole, Speaking
  <2>2. CASE Queued(t, k)
    <3>1. PICK i \in 1 .. Len(ttsQueue) : ttsQueue[i] = Sentence(t, k)
      BY <2>2 DEF Queued
    <3>2. CASE i = 1
      <4>1. h = Sentence(t, k) /\ h.index = k
        BY <1>4, <3>1, <3>2 DEF Sentence
      <4>2. k # 0
        OBVIOUS
      <4> QED BY <1>3, <4>1, <4>2 DEF Speaking
    <3>3. CASE i # 1
      <4>1. i - 1 \in 1 .. Len(ttsQueue') /\ i - 1 + 1 = i
        BY <1>2, <3>3
      <4> QED BY <1>2, <3>1, <4>1 DEF Queued
    <3> QED BY <3>2, <3>3
  <2> QED BY <1>1, <2>1, <2>2 DEF Said, OnBus
<1>6. PICK p, q, r \in Nat : Layers(t, p, q, r)
  BY DEF Layered
<1>7. ASSUME NEW i \in 1 .. Len(ttsQueue'), ttsQueue'[i].turn = t, ttsQueue'[i].index # 0
      PROVE  /\ q < ttsQueue'[i].index /\ ttsQueue'[i].index <= r
             /\ h.turn = t => h.index < ttsQueue'[i].index
             /\ \A j \in 1 .. i - 1 : ttsQueue'[j].turn = t => ttsQueue'[j].index < ttsQueue'[i].index
  <2>1. i + 1 \in 1 .. Len(ttsQueue) /\ ttsQueue'[i] = ttsQueue[i + 1] /\ 1 \in 1 .. i + 1 - 1
    BY <1>2
  <2>2. \A j \in 1 .. i - 1 : j + 1 \in 1 .. i + 1 - 1 /\ ttsQueue'[j] = ttsQueue[j + 1]
    BY <1>2
  <2>3. /\ q < ttsQueue[i + 1].index /\ ttsQueue[i + 1].index <= r
        /\ \A j \in 1 .. i + 1 - 1 : ttsQueue[j].turn = t => ttsQueue[j].index < ttsQueue[i + 1].index
    BY <1>6, <1>7, <2>1 DEF Layers
  <2>4. h.turn = t => h.index < ttsQueue[i + 1].index
    BY <1>4, <2>1, <2>3
  <2>5. \A j \in 1 .. i - 1 : ttsQueue'[j].turn = t => ttsQueue'[j].index < ttsQueue[i + 1].index
    BY <2>2, <2>3
  <2> QED BY <2>1, <2>3, <2>4, <2>5
<1>8. sentences[t] \in Nat
  BY BusConstants, SentenceTypes
<1>9. CASE respPc' = "speak" /\ h.index # 0 /\ h.turn = t
  <2>1. q < h.index /\ h.index <= r
    <3>1. 1 \in 1 .. Len(ttsQueue) /\ ttsQueue[1].turn = t /\ ttsQueue[1].index # 0
      BY <1>2, <1>4, <1>9
    <3>2. q < ttsQueue[1].index /\ ttsQueue[1].index <= r
      BY <1>6, <3>1 DEF Layers
    <3> QED BY <1>4, <3>2
  <2>2. PICK n \in Nat : n = h.index
    BY <1>4
  <2>3. current' = h /\ p < n /\ p <= n /\ n <= r
    BY <1>3, <1>6, <1>9, <2>1, <2>2 DEF Layers
  <2>4. \A i \in 1 .. Len(ttsQueue') : ttsQueue'[i].turn = t /\ ttsQueue'[i].index # 0 =>
          /\ n < ttsQueue'[i].index /\ ttsQueue'[i].index <= r
          /\ \A j \in 1 .. i - 1 : ttsQueue'[j].turn = t => ttsQueue'[j].index < ttsQueue'[i].index
    BY <1>7, <1>9, <2>2
  <2>5. current'.turn = t => p < current'.index /\ current'.index <= n
    BY <2>2, <2>3
  <2>6. Layers(t, p, n, r)'
    BY <1>1, <1>6, <2>3, <2>4, <2>5 DEF Layers
  <2> QED BY <1>5, <2>6 DEF Layered
<1>10. CASE ~ (respPc' = "speak" /\ h.turn = t)
  <2>1. ~ (respPc' = "speak" /\ current'.turn = t)
    BY <1>3, <1>10
  <2>2. Layers(t, p, q, r)'
    BY <1>1, <1>6, <1>7, <2>1 DEF Layers
  <2> QED BY <1>5, <2>2 DEF Layered
<1> QED BY <1>3, <1>9, <1>10

(* What was spoken is of the present turn, unless that one is lost anyway.  *)
LEMMA CompleteSpoke ==
  ASSUME Types, InOrder, Faithful, Spoke, UNCHANGED agentVars,
         NEW t \in 1 .. MaxTurns, Unabandoned(t), Whole(t), Layered(t)
  PROVE  Whole(t)' /\ Layered(t)'
<1>1. UNCHANGED <<ttsQueue, bus, sentences, turn>> /\ respPc = "speak" /\ respPc' # "speak"
  BY DEF Spoke, agentVars
<1>2. /\ current \in [turn : 1 .. MaxTurns, index : 0 .. MaxSentences]
      /\ gen[current.turn] # "none" /\ turn \in 1 .. MaxTurns
  BY <1>1, OrderTypes DEF Faithful, Carried, Items, InTurn
<1>3. current.turn \in 1 .. MaxTurns /\ current.turn <= turn /\ current.index \in Nat
  BY <1>2 DEF InOrder, Turns, Announced
<1>4. turn = t \/ current.turn = t => turn = t /\ current.turn = t
  <2> SUFFICES ASSUME turn = t \/ current.turn = t, current.turn # turn PROVE FALSE
    BY <1>3
  <2>1. current.turn < turn /\ current.turn <= t
    BY <1>2, <1>3
  <2>2. Over(current.turn)
    BY <2>1 DEF Over
  <2>3. Unabandoned(current.turn)
    BY <1>3, <2>1, OrderTypes DEF Unabandoned
  <2>4. Gone(current.turn)
    BY <1>3, <2>2, <2>3 DEF Faithful, Carried
  <2> QED BY <1>1, <2>4 DEF Gone
<1> DEFINE R == [turn : Nat, item : [turn : Nat, index : Nat]]
           x == [turn |-> turn, item |-> current]
<1>5. x \in R /\ spoken \in Seq(R) /\ spoken' = Append(spoken, x)
  BY <1>2, <1>3, BusConstants DEF Faithful, Spoke
<1>6. x.turn = turn /\ x.item = current
  OBVIOUS
<1> HIDE DEF R
<1>7. /\ Len(spoken') = Len(spoken) + 1 /\ Len(spoken) \in Nat
      /\ spoken'[Len(spoken) + 1] = x
      /\ \A i \in 1 .. Len(spoken) : i \in 1 .. Len(spoken') /\ spoken'[i] = spoken[i]
  <2> HIDE DEF x
  <2> QED BY <1>5
<1>8. \A i \in 1 .. Len(spoken') : i \in 1 .. Len(spoken) \/ i = Len(spoken) + 1
  BY <1>7
<1>9. Whole(t)'
  <2> SUFFICES ASSUME NEW k \in 1 .. sentences[t]
               PROVE  Said(t, k)' \/ Speaking(t, k)' \/ Queued(t, k)' \/ OnBus(t, k)'
    BY <1>1 DEF Whole
  <2>1. Said(t, k) \/ Speaking(t, k) \/ Queued(t, k) \/ OnBus(t, k)
    BY DEF Whole
  <2>2. Said(t, k) => Said(t, k)'
    BY <1>7 DEF Said
  <2>3. CASE Speaking(t, k)
    <3>1. current = Sentence(t, k) /\ turn = t
      BY <1>4, <2>3 DEF Speaking, Sentence
    <3>2. x = [turn |-> t, item |-> Sentence(t, k)]
      BY <3>1
    <3>3. Len(spoken) + 1 \in 1 .. Len(spoken')
      BY <1>7
    <3> QED BY <1>7, <3>2, <3>3 DEF Said
  <2> QED BY <1>1, <2>1, <2>2, <2>3 DEF Queued, OnBus
<1>10. PICK p, q, r \in Nat : Layers(t, p, q, r)
  BY DEF Layered
<1>11. CASE turn = t
  <2>1. current.turn = t /\ p < current.index /\ current.index <= q
    BY <1>1, <1>4, <1>10, <1>11 DEF Layers
  <2>2. ASSUME NEW i \in 1 .. Len(spoken'), spoken'[i].turn = t
        PROVE  /\ spoken'[i].item.index <= q
               /\ \A j \in 1 .. i - 1 : spoken'[j].turn = t => spoken'[j].item.index < spoken'[i].item.index
    <3>1. CASE i \in 1 .. Len(spoken)
      <4>1. \A j \in 1 .. i - 1 : j \in 1 .. Len(spoken) /\ spoken'[j] = spoken[j]
        BY <1>7, <3>1
      <4>2. spoken'[i] = spoken[i] /\ spoken[i].item.index <= p
        BY <1>7, <1>10, <2>2, <3>1 DEF Layers
      <4>3. spoken[i].item.index \in Nat
        BY <3>1, SentenceTypes
      <4>4. spoken[i].item.index <= q
        BY <1>3, <2>1, <4>2, <4>3
      <4> QED BY <1>10, <2>2, <3>1, <4>1, <4>2, <4>4 DEF Layers
    <3>2. CASE i = Len(spoken) + 1
      <4>1. spoken'[i] = x /\ x.item.index = current.index
        BY <1>7, <3>2
      <4>2. ASSUME NEW j \in 1 .. i - 1, spoken'[j].turn = t PROVE spoken'[j].item.index < current.index
        <5>1. j \in 1 .. Len(spoken)
          BY <1>7, <3>2
        <5>2. spoken'[j] = spoken[j] /\ spoken[j].item.index <= p /\ spoken[j].item.index \in Nat
          BY <1>7, <1>10, <4>2, <5>1, SentenceTypes DEF Layers
        <5> QED BY <1>3, <2>1, <5>2
      <4> QED BY <2>1, <4>1, <4>2
    <3> QED BY <1>8, <3>1, <3>2
  <2>3. Layers(t, q, q, r)'
    BY <1>1, <1>10, <2>2 DEF Layers
  <2> QED BY <1>9, <2>3 DEF Layered
<1>12. CASE turn # t
  <2>1. \A i \in 1 .. Len(spoken') : spoken'[i].turn = t => i \in 1 .. Len(spoken)
    BY <1>6, <1>7, <1>8, <1>12
  <2>2. ASSUME NEW i \in 1 .. Len(spoken'), spoken'[i].turn = t
        PROVE  /\ spoken'[i].item.index <= p
               /\ \A j \in 1 .. i - 1 : spoken'[j].turn = t => spoken'[j].item.index < spoken'[i].item.index
    <3>1. i \in 1 .. Len(spoken)
      BY <2>1, <2>2
    <3>2. \A j \in 1 .. i - 1 : j \in 1 .. Len(spoken) /\ spoken'[j] = spoken[j]
      BY <1>7, <3>1
    <3> QED BY <1>7, <1>10, <2>2, <3>1, <3>2 DEF Layers
  <2>3. Layers(t, p, q, r)'
    BY <1>1, <1>10, <2>2 DEF Layers
  <2> QED BY <1>9, <2>3 DEF Layered
<1> QED BY <1>11, <1>12

(* Only a turn that is given up loses a sentence.                           *)
LEMMA CompleteMoves ==
  ASSUME Types, InOrder, Faithful, Complete, Moves, UNCHANGED agentVars
  PROVE  Complete'
<1> SUFFICES ASSUME NEW t \in 1 .. MaxTurns, Unabandoned(t)' PROVE Whole(t)' /\ Layered(t)'
  BY DEF Complete
<1>1. abandoned \subseteq abandoned'
  BY DEF Moves, Aside, ResumeFirst, TakeItem, GiveUp, TrailFirst, Spoke, TrailEnds, Announce
<1>2. Unabandoned(t) /\ Whole(t) /\ Layered(t)
  BY <1>1 DEF Complete, Unabandoned
<1>3. sentences' = sentences /\ gen' = gen
  BY DEF agentVars
<1>4. CASE TakeItem
  BY <1>2, <1>4, CompleteTaken
<1>5. CASE Spoke
  BY <1>2, <1>5, CompleteSpoke
<1>6. CASE Aside \/ ResumeFirst \/ GiveUp \/ TrailFirst \/ (TrailEnds /\ bus' = bus)
  <2>1. UNCHANGED <<bus, ttsQueue, spoken>>
    BY <1>6 DEF Aside, ResumeFirst, GiveUp, TrailFirst, TrailEnds
  <2>2. respPc' = "speak" => respPc = "speak" /\ current' = current
    BY <1>6 DEF Aside, ResumeFirst, GiveUp, TrailFirst, TrailEnds, InTurn
  <2>3. respPc = "speak" /\ current.turn = t => respPc' = "speak"
    <3>1. CASE GiveUp
      <4> SUFFICES ASSUME respPc = "speak", current.turn = t PROVE FALSE
        OBVIOUS
      <4>1. turn \in abandoned' /\ turn \in 1 .. MaxTurns
        BY <3>1, OrderTypes DEF GiveUp
      <4>2. t < turn
        BY <4>1, OrderTypes DEF Unabandoned
      <4>3. Gone(t)
        BY <1>2, <4>2 DEF Over, Faithful, Carried
      <4> QED BY <4>3 DEF Gone
    <3> QED BY <1>6, <3>1 DEF Aside, ResumeFirst, TrailFirst, TrailEnds, InTurn
  <2>4. SameSpeak
    BY <2>1 DEF SameSpeak
  <2> QED BY <1>2, <1>3, <2>1, <2>2, <2>3, <2>4, CompleteKept
<1>7. CASE TrailEnds /\ respPc = "busTrail"
  <2> DEFINE m == Message("audio.interrupt", turn, 0)
  <2>1. turn \in 1 .. MaxTurns
    BY <1>7, OrderTypes DEF InTurn
  <2>2. m \in Messages /\ ~ Tts(m) /\ bus' = Append(bus, m)
    BY <1>7, <2>1, BusConstants DEF Message, Messages, Tts, TrailEnds
  <2> HIDE DEF m
  <2>3. SameTts /\ \A i \in 1 .. Len(bus) : i \in 1 .. Len(bus') /\ bus'[i] = bus[i]
    BY <2>2, OrderTypes, SameAppended
  <2>4. SameSpeak
    BY <2>3 DEF SameTts, SameSpeak, Tts
  <2> QED BY <1>2, <1>3, <1>7, <2>3, <2>4, CompleteKept DEF TrailEnds
<1>8. ASSUME NEW u \in 1 .. MaxTurns, Announce(u) PROVE Whole(t)' /\ Layered(t)'
  <2> DEFINE m == Message("audio.transcript", u, 0)
  <2>1. m \in Messages /\ ~ Tts(m)
    BY BusConstants DEF Message, Messages, Tts
  <2>2. bus' = Append(bus, m)
    BY <1>8 DEF Announce
  <2> HIDE DEF m
  <2>3. SameTts /\ \A i \in 1 .. Len(bus) : i \in 1 .. Len(bus') /\ bus'[i] = bus[i]
    BY <2>1, <2>2, OrderTypes, SameAppended
  <2>4. respPc # "speak" /\ respPc' # "speak" /\ ttsQueue' = <<>> /\ spoken' = spoken
    BY <1>8 DEF Announce, Resuming, InTurn
  <2>5. \A v \in 1 .. MaxTurns : v < u => Over(v)
    BY <1>8, OrderTypes DEF Announce, Over
  <2>6. \A v \in 1 .. MaxTurns : ~ (v < u) => ~ Announced(v)
    BY <1>8, OrderTypes DEF Announce, Announced, Resuming
  <2>7. \A i \in 1 .. Len(ttsQueue) : ttsQueue[i].turn # t
    <3>1. CASE t < u
      BY <1>2, <2>5, <3>1 DEF Faithful, Carried, Gone
    <3>2. CASE ~ (t < u)
      <4>1. gen[t] = "none"
        BY <2>6, <3>2 DEF InOrder, Turns
      <4> QED BY <4>1, SentenceTypes
    <3> QED BY <3>1, <3>2
  <2> QED BY <1>2, <1>3, <2>3, <2>4, <2>7, CompleteEmptied
<1> QED BY <1>4, <1>5, <1>6, <1>7, <1>8 DEF Moves, TrailEnds

(* A new sentence gets the next number and the last place.                  *)
LEMMA CompleteAgent ==
  ASSUME Types, InOrder, Faithful, Complete, AgentStep
  PROVE  Complete'
<1>1. UNCHANGED <<respPc, abandoned, ttsQueue, current, spoken>>
  BY DEF AgentStep, fsmVars, turnVars
<1> SUFFICES ASSUME NEW t \in 1 .. MaxTurns, Unabandoned(t)' PROVE Whole(t)' /\ Layered(t)'
  BY DEF Complete
<1>2. Whole(t) /\ Layered(t)
  BY <1>1 DEF Complete, Unabandoned
<1>3. PICK u \in 1 .. MaxTurns : Say(u) \/ SayDone(u) \/ GenerationFails(u)
  BY DEF AgentStep, AgentNext
<1>4. sentences \in [1 .. MaxTurns -> 0 .. MaxSentences]
  BY DEF Types, TypeOK, AgentTypeOK
<1>5. CASE GenerationFails(u)
  <2>1. UNCHANGED <<bus, sentences>>
    BY <1>5 DEF GenerationFails
  <2>2. SameSpeak
    BY <2>1 DEF SameSpeak
  <2> QED BY <1>1, <1>2, <2>1, <2>2, CompleteKept
<1>6. CASE SayDone(u)
  <2> DEFINE m == Message("tts.done", u, 0)
  <2>1. m \in Messages /\ m.type # "tts.speak"
    BY BusConstants DEF Message, Messages
  <2>2. bus' = Append(bus, m) /\ sentences' = sentences
    BY <1>6 DEF SayDone, Send
  <2> HIDE DEF m
  <2>3. /\ Len(bus') = Len(bus) + 1 /\ Len(bus) \in Nat /\ bus'[Len(bus) + 1] = m
        /\ \A i \in 1 .. Len(bus) : i \in 1 .. Len(bus') /\ bus'[i] = bus[i]
    BY <2>1, <2>2, OrderTypes
  <2>4. \A i \in 1 .. Len(bus') : i \in 1 .. Len(bus) \/ i = Len(bus) + 1
    BY <2>3
  <2>5. SameSpeak
    BY <2>1, <2>3, <2>4 DEF SameSpeak
  <2> QED BY <1>1, <1>2, <2>2, <2>3, <2>5, CompleteKept
<1>7. CASE Say(u)
  <2> DEFINE n == sentences[u] + 1
             m == Message("tts.speak", u, n)
  <2>1. n \in Nat /\ n \in 0 .. MaxSentences /\ sentences[u] \in Nat /\ sentences[u] < n
    BY <1>4, <1>7, BusConstants DEF Say
  <2>2. bus' = Append(bus, m) /\ sentences'[u] = n
        /\ \A v \in 1 .. MaxTurns : v # u => sentences'[v] = sentences[v]
    BY <1>4, <1>7 DEF Say, Send
  <2>3. \A k : k \in 1 .. n => k \in 1 .. sentences[u] \/ k = n
    BY <2>1
  <2> HIDE DEF n
  <2>4. m \in Messages /\ m.turn = u /\ m.index = n /\ m.type = "tts.speak"
    BY <2>1 DEF Message, Messages
  <2>5. m = Message("tts.speak", u, n)
    OBVIOUS
  <2> HIDE DEF m
  <2>6. /\ Len(bus') = Len(bus) + 1 /\ Len(bus) \in Nat /\ bus'[Len(bus) + 1] = m
        /\ \A i \in 1 .. Len(bus) : i \in 1 .. Len(bus') /\ bus'[i] = bus[i]
    BY <2>2, <2>4, OrderTypes
  <2>7. \A i \in 1 .. Len(bus') : i \in 1 .. Len(bus) \/ i = Len(bus) + 1
    BY <2>6
  <2>8. Whole(t)'
    <3> SUFFICES ASSUME NEW k \in 1 .. sentences'[t]
                 PROVE  Said(t, k)' \/ Speaking(t, k)' \/ Queued(t, k)' \/ OnBus(t, k)'
      BY DEF Whole
    <3>1. CASE k \in 1 .. sentences[t]
      <4>1. Said(t, k) \/ Speaking(t, k) \/ Queued(t, k) \/ OnBus(t, k)
        BY <1>2, <3>1 DEF Whole
      <4>2. OnBus(t, k) => OnBus(t, k)'
        BY <2>6 DEF OnBus
      <4> QED BY <1>1, <4>1, <4>2 DEF Said, Speaking, Queued
    <3>2. CASE t = u /\ k = n
      <4>1. Len(bus) + 1 \in 1 .. Len(bus') /\ bus'[Len(bus) + 1] = Message("tts.speak", t, k)
        BY <2>5, <2>6, <3>2
      <4> QED BY <4>1 DEF OnBus
    <3>3. t = u => k \in 1 .. n
      BY <2>2
    <3> QED BY <2>2, <2>3, <3>1, <3>2, <3>3
  <2>9. PICK p, q, r \in Nat : Layers(t, p, q, r)
    BY <1>2 DEF Layered
  <2>10. ASSUME NEW i \in 1 .. Len(bus'), bus'[i].turn = t, bus'[i].type = "tts.speak"
         PROVE  /\ r < bus'[i].index /\ bus'[i].index <= sentences'[t]
                /\ \A j \in 1 .. i - 1 :
                      bus'[j].turn = t /\ bus'[j].type = "tts.speak" => bus'[j].index < bus'[i].index
    <3>1. CASE i \in 1 .. Len(bus)
      <4>1. \A j \in 1 .. i - 1 : j \in 1 .. Len(bus) /\ bus'[j] = bus[j]
        BY <2>6, <3>1
      <4>2. bus'[i] = bus[i] /\ bus[i].index \in Nat
        BY <2>6, <3>1, SentenceTypes DEF Messages
      <4>3. /\ r < bus[i].index /\ bus[i].index <= sentences[t]
            /\ \A j \in 1 .. i - 1 :
                  bus[j].turn = t /\ bus[j].type = "tts.speak" => bus[j].index < bus[i].index
        BY <2>9, <2>10, <3>1, <4>2 DEF Layers
      <4>4. bus[i].index <= sentences'[t]
        BY <2>1, <2>2, <4>2, <4>3
      <4> QED BY <4>1, <4>2, <4>3, <4>4
    <3>2. CASE i = Len(bus) + 1
      <4>1. t = u /\ bus'[i].index = n /\ sentences'[t] = n
        BY <2>2, <2>4, <2>6, <2>10, <3>2
      <4>2. r < n
        BY <2>1, <2>9, <4>1 DEF Layers
      <4>3. ASSUME NEW j \in 1 .. i - 1, bus'[j].turn = t, bus'[j].type = "tts.speak"
            PROVE  bus'[j].index < n
        <5>1. j \in 1 .. Len(bus)
          BY <2>6, <3>2
        <5>2. bus'[j] = bus[j] /\ bus[j].index \in Nat
          BY <2>6, <5>1, SentenceTypes DEF Messages
        <5>3. bus[j].index <= sentences[t]
          BY <2>9, <4>3, <5>1, <5>2 DEF Layers
        <5> QED BY <2>1, <4>1, <5>2, <5>3
      <4> QED BY <2>1, <4>1, <4>2, <4>3
    <3> QED BY <2>7, <3>1, <3>2
  <2>11. r <= sentences'[t]
    BY <2>1, <2>2, <2>9 DEF Layers
  <2>12. Layers(t, p, q, r)'
    BY <1>1, <2>9, <2>10, <2>11 DEF Layers
  <2> QED BY <2>8, <2>12 DEF Layered
<1> QED BY <1>3, <1>5, <1>6, <1>7

(* The oldest sentence of the bus becomes the newest of the queue.          *)
LEMMA CompleteDelivered ==
  ASSUME Types, InOrder, Faithful, Complete, Deliver
  PROVE  Complete'
<1> DEFINE m == Head(bus)
<1>1. /\ bus # <<>> /\ bus' = Tail(bus) /\ m = bus[1] /\ 1 \in 1 .. Len(bus)
      /\ Len(bus') = Len(bus) - 1 /\ Len(bus) \in Nat
      /\ \A i \in 1 .. Len(bus') : i + 1 \in 1 .. Len(bus) /\ bus'[i] = bus[i + 1]
  BY OrderTypes DEF Deliver, Receive
<1>2. m \in Messages /\ m.turn \in 1 .. MaxTurns /\ m.index \in Nat
  <2>1. m \in Messages
    BY <1>1, SentenceTypes
  <2> HIDE DEF m
  <2> QED BY <2>1, BusConstants DEF Messages
<1>3. \/ ~ Tts(m) /\ (HandleTranscript(m) \/ HandleInterrupt) /\ UNCHANGED fsmVars
      \/ Tts(m) /\ HandleTts(m) /\ UNCHANGED agentVars
  BY DEF Deliver, Tts
<1>4. m.type = "tts.done" => m.index = 0
  BY <1>1 DEF Faithful, Carried, Items
<1>5. m.type = "tts.speak" => m.index # 0
  BY <1>1 DEF Faithful, Carried, Items
<1> HIDE DEF m
<1>6. UNCHANGED <<respPc, abandoned, current, spoken, sentences>>
  <2>1. CASE (HandleTranscript(m) \/ HandleInterrupt) /\ UNCHANGED fsmVars
    BY <2>1 DEF fsmVars, turnVars, HandleTranscript, HandleInterrupt
  <2>2. CASE HandleTts(m) /\ UNCHANGED agentVars
    BY <2>2 DEF HandleTts, agentVars
  <2> QED BY <1>3, <2>1, <2>2
<1> SUFFICES ASSUME NEW t \in 1 .. MaxTurns, Unabandoned(t)' PROVE Whole(t)' /\ Layered(t)'
  BY DEF Complete
<1>7. Whole(t) /\ Layered(t)
  BY <1>6 DEF Complete, Unabandoned
<1>8. \/ ~ Tts(m) /\ ttsQueue' = ttsQueue
      \/ Tts(m) /\ ttsQueue' = Append(ttsQueue, Sentence(m.turn, m.index))
  BY <1>3 DEF fsmVars, turnVars, HandleTts, Sentence
<1>9. /\ \A i \in 1 .. Len(ttsQueue) : i \in 1 .. Len(ttsQueue') /\ ttsQueue'[i] = ttsQueue[i]
      /\ \A i \in 1 .. Len(ttsQueue') : i \in 1 .. Len(ttsQueue) \/
            /\ i = Len(ttsQueue) + 1 /\ Tts(m)
            /\ ttsQueue'[i].turn = m.turn /\ ttsQueue'[i].index = m.index
      /\ Tts(m) => /\ Len(ttsQueue) + 1 \in 1 .. Len(ttsQueue')
                   /\ ttsQueue'[Len(ttsQueue) + 1] = Sentence(m.turn, m.index)
      /\ Len(ttsQueue) \in Nat
  <2>1. CASE ~ Tts(m) /\ ttsQueue' = ttsQueue
    BY <2>1, QueueTypes
  <2>2. CASE Tts(m) /\ ttsQueue' = Append(ttsQueue, Sentence(m.turn, m.index))
    <3> DEFINE S == [turn : 1 .. MaxTurns, index : 0 .. MaxSentences]
               x == Sentence(m.turn, m.index)
    <3>1. ttsQueue \in Seq(S) /\ x \in S /\ x.turn = m.turn /\ x.index = m.index
      BY <1>2, QueueTypes DEF Messages, Sentence
    <3>2. ttsQueue' = Append(ttsQueue, x)
      BY <2>2
    <3> HIDE DEF S, x
    <3>3. /\ Len(ttsQueue') = Len(ttsQueue) + 1 /\ ttsQueue'[Len(ttsQueue) + 1] = x
          /\ \A i \in 1 .. Len(ttsQueue) : i \in 1 .. Len(ttsQueue') /\ ttsQueue'[i] = ttsQueue[i]
          /\ Len(ttsQueue) \in Nat
      BY <3>1, <3>2
    <3>4. \A i \in 1 .. Len(ttsQueue') : i \in 1 .. Len(ttsQueue) \/ i = Len(ttsQueue) + 1
      BY <3>3
    <3>5. Len(ttsQueue) + 1 \in 1 .. Len(ttsQueue')
      BY <3>3
    <3> QED BY <2>2, <3>1, <3>3, <3>4, <3>5 DEF x
  <2> QED BY <1>8, <2>1, <2>2
<1>10. Whole(t)'
  <2> SUFFICES ASSUME NEW k \in 1 .. sentences[t]
               PROVE  Said(t, k)' \/ Speaking(t, k)' \/ Queued(t, k)' \/ OnBus(t, k)'
    BY <1>6 DEF Whole
  <2>1. Said(t, k) \/ Speaking(t, k) \/ Queued(t, k) \/ OnBus(t, k)
    BY <1>7 DEF Whole
  <2>2. Queued(t, k) => Queued(t, k)'
    BY <1>9 DEF Queued
  <2>3. CASE OnBus(t, k)
    <3>1. PICK i \in 1 .. Len(bus) : bus[i] = Message("tts.speak", t, k)
      BY <2>3 DEF OnBus
    <3>2. CASE i = 1
      <4>1. Tts(m) /\ m.turn = t /\ m.index = k
        BY <1>1, <3>1, <3>2 DEF Message, Tts
      <4> QED BY <1>9, <4>1 DEF Queued
    <3>3. CASE i # 1
      <4>1. i - 1 \in 1 .. Len(bus') /\ i - 1 + 1 = i
        BY <1>1, <3>3
      <4> QED BY <1>1, <3>1, <4>1 DEF OnBus
    <3> QED BY <3>2, <3>3
  <2> QED BY <1>6, <2>1, <2>2, <2>3 DEF Said, Speaking
<1>11. PICK p, q, r \in Nat : Layers(t, p, q, r)
  BY <1>7 DEF Layered
<1>12. sentences[t] \in Nat
  BY SentenceTypes, BusConstants
<1>13. ASSUME NEW i \in 1 .. Len(bus'), bus'[i].turn = t, bus'[i].type = "tts.speak"
       PROVE  /\ r < bus'[i].index /\ bus'[i].index <= sentences[t]
              /\ m.turn = t /\ m.type = "tts.speak" => m.index < bus'[i].index
              /\ \A j \in 1 .. i - 1 :
                    bus'[j].turn = t /\ bus'[j].type = "tts.speak" => bus'[j].index < bus'[i].index
  <2>1. i + 1 \in 1 .. Len(bus) /\ bus'[i] = bus[i + 1] /\ 1 \in 1 .. i + 1 - 1
    BY <1>1
  <2>2. \A j \in 1 .. i - 1 : j + 1 \in 1 .. i + 1 - 1 /\ bus'[j] = bus[j + 1]
    BY <1>1
  <2>3. /\ r < bus[i + 1].index /\ bus[i + 1].index <= sentences[t]
        /\ \A j \in 1 .. i + 1 - 1 :
              bus[j].turn = t /\ bus[j].type = "tts.speak" => bus[j].index < bus[i + 1].index
    BY <1>11, <1>13, <2>1 DEF Layers
  <2>4. m.turn = t /\ m.type = "tts.speak" => m.index < bus[i + 1].index
    BY <1>1, <2>1, <2>3
  <2>5. \A j \in 1 .. i - 1 :
           bus'[j].turn = t /\ bus'[j].type = "tts.speak" => bus'[j].index < bus[i + 1].index
    BY <2>2, <2>3
  <2> QED BY <2>1, <2>3, <2>4, <2>5
<1>14. ASSUME NEW i \in 1 .. Len(ttsQueue), ttsQueue[i].turn = t, ttsQueue[i].index # 0
       PROVE  /\ q < ttsQueue[i].index /\ ttsQueue[i].index <= r
              /\ \A j \in 1 .. i - 1 : ttsQueue'[j].turn = t => ttsQueue'[j].index < ttsQueue[i].index
  <2>1. \A j \in 1 .. i - 1 : j \in 1 .. Len(ttsQueue) /\ ttsQueue'[j] = ttsQueue[j]
    BY <1>9
  <2> QED BY <1>11, <1>14, <2>1 DEF Layers
<1>15. CASE m.turn = t /\ m.type = "tts.speak"
  <2>1. r < m.index /\ m.index <= sentences[t]
    BY <1>1, <1>11, <1>15 DEF Layers
  <2>2. PICK n \in Nat : n = m.index
    BY <1>2
  <2>3. q <= n /\ q < n /\ n <= sentences[t] /\ p <= q
    BY <1>11, <2>1, <2>2 DEF Layers
  <2>4. ASSUME NEW i \in 1 .. Len(ttsQueue'), ttsQueue'[i].turn = t, ttsQueue'[i].index # 0
        PROVE  /\ q < ttsQueue'[i].index /\ ttsQueue'[i].index <= n
               /\ \A j \in 1 .. i - 1 : ttsQueue'[j].turn = t => ttsQueue'[j].index < ttsQueue'[i].index
    <3>1. CASE i \in 1 .. Len(ttsQueue)
      <4>1. ttsQueue'[i] = ttsQueue[i] /\ ttsQueue[i].index \in Nat
        BY <1>9, <3>1, SentenceTypes
      <4>2. /\ q < ttsQueue[i].index /\ ttsQueue[i].index <= r
            /\ \A j \in 1 .. i - 1 : ttsQueue'[j].turn = t => ttsQueue'[j].index < ttsQueue[i].index
        BY <1>14, <2>4, <3>1, <4>1
      <4>3. ttsQueue[i].index <= n
        BY <2>1, <2>2, <4>1, <4>2
      <4> QED BY <4>1, <4>2, <4>3
    <3>2. CASE i = Len(ttsQueue) + 1 /\ ttsQueue'[i].index = m.index
      <4>1. ASSUME NEW j \in 1 .. i - 1, ttsQueue'[j].turn = t PROVE ttsQueue'[j].index < n
        <5>1. j \in 1 .. Len(ttsQueue) /\ ttsQueue'[j] = ttsQueue[j] /\ ttsQueue[j].index \in Nat
          BY <1>9, <3>2, SentenceTypes
        <5>2. CASE ttsQueue[j].index = 0
          BY <1>5, <1>15, <2>2, <5>1, <5>2
        <5>3. CASE ttsQueue[j].index # 0
          <6>1. ttsQueue[j].index <= r
            BY <1>14, <4>1, <5>1, <5>3
          <6> QED BY <2>1, <2>2, <5>1, <6>1
        <5> QED BY <5>2, <5>3
      <4> QED BY <2>2, <2>3, <3>2, <4>1
    <3> QED BY <1>9, <3>1, <3>2
  <2>5. ASSUME NEW i \in 1 .. Len(bus'), bus'[i].turn = t, bus'[i].type = "tts.speak"
        PROVE  /\ n < bus'[i].index /\ bus'[i].index <= sentences[t]
               /\ \A j \in 1 .. i - 1 :
                    bus'[j].turn = t /\ bus'[j].type = "tts.speak" => bus'[j].index < bus'[i].index
    BY <1>13, <1>15, <2>2, <2>5
  <2>6. Layers(t, p, q, n)'
    BY <1>6, <1>11, <2>3, <2>4, <2>5 DEF Layers
  <2> QED BY <1>10, <2>6 DEF Layered
<1>16. CASE ~ (m.turn = t /\ m.type = "tts.speak")
  <2>1. ASSUME NEW i \in 1 .. Len(ttsQueue'), ttsQueue'[i].turn = t, ttsQueue'[i].index # 0
        PROVE  i \in 1 .. Len(ttsQueue) /\ ttsQueue'[i] = ttsQueue[i]
    BY <1>4, <1>9, <1>16, <2>1 DEF Tts
  <2>2. ASSUME NEW i \in 1 .. Len(ttsQueue'), ttsQueue'[i].turn = t, ttsQueue'[i].index # 0
        PROVE  /\ q < ttsQueue'[i].index /\ ttsQueue'[i].index <= r
               /\ \A j \in 1 .. i - 1 : ttsQueue'[j].turn = t => ttsQueue'[j].index < ttsQueue'[i].index
    BY <1>14, <2>1, <2>2
  <2>3. Layers(t, p, q, r)'
    BY <1>6, <1>11, <1>13, <2>2 DEF Layers
  <2> QED BY <1>10, <2>3 DEF Layered
<1> QED BY <1>15, <1>16

LEMMA CompleteInit == Init => Complete
<1> SUFFICES ASSUME Init, NEW t \in 1 .. MaxTurns PROVE Whole(t) /\ Layered(t)
  BY DEF Complete
<1>1. /\ Len(bus) = 0 /\ Len(ttsQueue) = 0 /\ Len(spoken) = 0 /\ respPc = "poll"
      /\ sentences[t] = 0
  BY DEF Init, BusInit, FsmInit, AgentInit
<1>2. Whole(t)
  BY <1>1 DEF Whole
<1>3. Layers(t, 0, 0, 0)
  BY <1>1 DEF Layers
<1> QED BY <1>2, <1>3 DEF Layered

LEMMA CompleteStep == Types /\ InOrder /\ Faithful /\ Complete /\ [Next]_vars => Complete'
<1> SUFFICES ASSUME Types, InOrder, Faithful, Complete, [Next]_vars PROVE Complete'
  OBVIOUS
<1>1. CASE FsmStep
  BY <1>1, MovesOnly, CompleteMoves
<1>2. CASE AgentStep
  BY <1>2, CompleteAgent
<1>3. CASE Deliver
  BY <1>3, CompleteDelivered
<1>4. CASE UNCHANGED vars
  <2>1. Aside /\ UNCHANGED agentVars
    BY <1>4 DEF vars, fsmVars, turnVars, Aside
  <2> QED BY <2>1, CompleteMoves DEF Moves
<1> QED BY <1>1, <1>2, <1>3, <1>4 DEF Next

(* When nothing of a turn is under way, all of it has been said.            *)
LEMMA CompleteMeans ==
  ASSUME Types, InOrder, Faithful, Complete
  PROVE  CompleteAnswers
<1> SUFFICES ASSUME NEW t \in 1 .. turn, Finished(t), Unabandoned(t)
             PROVE  /\ \A k \in 1 .. sentences[t] : \E i \in 1 .. Len(spoken) :
                          spoken[i] = [turn |-> t, item |-> [turn |-> t, index |-> k]]
                    /\ \A i, j \in 1 .. Len(spoken) :
                          i < j /\ spoken[i].turn = t /\ spoken[j].turn = t =>
                            spoken[i].item.index < spoken[j].item.index
  BY DEF CompleteAnswers, Unabandoned
<1>1. t \in 1 .. MaxTurns
  BY OrderTypes
<1>2. Gone(t)
  BY <1>1 DEF Finished, Over, Faithful, Carried
<1>3. Whole(t) /\ Layered(t)
  BY <1>1 DEF Complete
<1>4. ASSUME NEW k \in 1 .. sentences[t] PROVE Said(t, k)
  <2>1. ~ Speaking(t, k)
    BY <1>2 DEF Gone, Speaking, Sentence
  <2>2. ~ Queued(t, k)
    BY <1>2 DEF Gone, Queued, Sentence
  <2>3. ~ OnBus(t, k)
    BY <1>2 DEF Gone, OnBus, Message, Tts
  <2> QED BY <1>3, <2>1, <2>2, <2>3 DEF Whole
<1>5. ASSUME NEW i \in 1 .. Len(spoken), NEW j \in 1 .. Len(spoken), i < j,
             spoken[i].turn = t, spoken[j].turn = t
      PROVE  spoken[i].item.index < spoken[j].item.index
  <2>1. PICK p, q, r \in Nat : Layers(t, p, q, r)
    BY <1>3 DEF Layered
  <2>2. i \in 1 .. j - 1
    BY <1>5
  <2> QED BY <1>5, <2>1, <2>2 DEF Layers
<1> QED BY <1>4, <1>5 DEF Said, Sentence

(* For any number of turns and sentences: while no turn up to it was given  *)
(* up, an answered turn has spoken every sentence generated for it, once    *)
(* and in order.                                                            *)
THEOREM AnswersAreComplete == Spec => []CompleteAnswers
<1>1. Types /\ InOrder /\ Faithful /\ Complete => CompleteAnswers
  BY CompleteMeans
<1> QED BY <1>1, TypesInit, TypesStep, OrderInit, OrderStep, FaithfulInit, FaithfulStep,
           CompleteInit, CompleteStep, PTL DEF Spec
=============================================================================

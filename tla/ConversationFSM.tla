--------------------------- MODULE ConversationFSM ---------------------------
(***************************************************************************)
(* conversation/fsm.py, class ConversationFSM: the asyncio loops that turn *)
(* user speech into spoken answers.  The loops run on one event loop, so   *)
(* an action is one segment of one loop from a suspension to the next;     *)
(* awaits that never suspend (brain hub, filler choice, interrupt          *)
(* classification, a bus send on an open socket) do not end a segment.     *)
(* Modelled: normal conversation over the agent bus, fast mode off (its    *)
(* default).                                                               *)
(***************************************************************************)
EXTENDS AgentBus, StreamingSTT

CONSTANTS
    HasSpeakerEngine, \* a speaker engine is configured: its await suspends
    HasFiller,        \* a filler engine is configured
    HasBackchannel,   \* a backchannel engine is configured
    MaxPrompts,       \* _MAX_SILENCE_PROMPTS
    Blocks,           \* blocks of playback time in one write_output()
    MaxPending,       \* bound on blocks waiting in the output ring
    HoldoffTicks      \* hold-off after speech, in blocks of playback time

ASSUME FsmConstants ==
    /\ HasSpeakerEngine \in BOOLEAN /\ HasFiller \in BOOLEAN /\ HasBackchannel \in BOOLEAN
    /\ MaxPrompts \in Nat /\ Blocks \in Nat
    /\ MaxPending \in Nat /\ HoldoffTicks \in Nat

VARIABLES
    running,         \* _running
    state,           \* _state
    emilySpeaking,   \* _emily_speaking
    holdoff,         \* time left of _post_speech_holdoff/cooldown_until
    interrupt,       \* _interrupt_event
    frame,           \* text of _current_stt_frame
    percPc,          \* where the perception loop is suspended
    percHeld,        \* the chunk or buffer snapshot it holds there
    respPc,          \* where the response loop is suspended
    fillerPending,   \* the filler task has not run yet
    respHeld,        \* the buffer snapshot or the transcript it holds there
    turn,            \* history: number of turns accepted so far
    current,         \* the sentence _speak_sentence is speaking
    ttsQueue,        \* _tts_queue
    preserved,       \* the interrupt handler's _preserved_context is set
    watching,        \* the silence watchdog is synthesising a prompt
    prompts,         \* _silence_prompt_count
    pending,         \* blocks written to the output ring and not yet played
    spoken,          \* history: sentences spoken to the end, with their turn
    abandoned        \* history: turns given up before their tts.done

stateVars == <<state, emilySpeaking, holdoff>>
percVars == <<percPc, percHeld>>
turnVars == <<respHeld, turn, current, ttsQueue, preserved, spoken, abandoned>>
fsmVars == <<running, stateVars, interrupt, frame, percVars, respPc, fillerPending,
             turnVars, watching, prompts, pending, sttVars>>

choiceVars == <<frame, ttsQueue, bus, turn, prompts, preserved, abandoned>>

States == {"IDLE", "LISTENING", "BACKCHANNELING", "PROCESSING", "FILLING", "SPEAKING"}
Audible == {"SPEAKING", "FILLING"}
Listening == {"LISTENING", "BACKCHANNELING"}

(* Suspension points of the response loop inside an accepted turn. *)
InTurn == {"resume", "resumeTrail", "busGet", "speak", "speakTrail", "busTrail"}

NoItem == [turn |-> 0, index |-> 0]   \* the resume phrase: nobody's answer

FsmInit ==
    /\ running = TRUE
    /\ state = "IDLE" /\ emilySpeaking = FALSE /\ holdoff = 0
    /\ interrupt = FALSE
    /\ frame = 0
    /\ percPc = "ready" /\ percHeld = 0
    /\ respPc = "poll" /\ fillerPending = FALSE
    /\ respHeld = 0 /\ turn = 0
    /\ current = NoItem /\ ttsQueue = <<>>
    /\ preserved = FALSE
    /\ watching = FALSE /\ prompts = 0
    /\ pending = 0
    /\ spoken = <<>> /\ abandoned = {}
    /\ SttInit

-----------------------------------------------------------------------------
(* Enter(s): the part of transition() that opens and closes the speaking gate. *)
Enter(s) ==
    /\ state' = s
    /\ emilySpeaking' = \/ s \in Audible
                        \/ state \notin Audible /\ emilySpeaking

(* transition(): leaving speech starts the hold-off. *)
Transition(s) ==
    /\ Enter(s)
    /\ holdoff' = IF state \in Audible /\ s \notin Audible THEN HoldoffTicks ELSE holdoff

(* A transition next to an assignment of _post_speech_cooldown_until; the   *)
(* cooldown gates the same step as the hold-off, so one timer stands for    *)
(* both.                                                                    *)
TransitionWithCooldown(s) == Enter(s) /\ holdoff' = HoldoffTicks

(* capture.py write_output(): never blocks, nothing waits for the playback. *)
WriteOutput ==
    pending' = IF pending + Blocks > MaxPending THEN MaxPending ELSE pending + Blocks

(* The output callback plays a block; the same time passes on the hold-off. *)
DeviceTick ==
    /\ pending > 0 \/ holdoff > 0
    /\ pending' = IF pending > 0 THEN pending - 1 ELSE 0
    /\ holdoff' = IF holdoff > 0 THEN holdoff - 1 ELSE 0
    /\ UNCHANGED <<running, state, emilySpeaking, interrupt, frame, percVars, respPc,
                   fillerPending, turnVars, watching, prompts, sttVars>>

-----------------------------------------------------------------------------
(* Perception loop. *)

(* Speech heard now; the bound leaves out speech that no turn could answer. *)
NewSpeech == {t \in 1 .. MaxTurns : t = turn + 1}

(* process_chunk: too little audio (no frame), or between two               *)
(* transcriptions (a frame of the present words), or a transcription is     *)
(* started on the buffer and awaited.                                       *)
ProcessChunk(chunk) ==
    /\ sttAudio' = Buffered(chunk)
    /\ \/ percPc' = "ready" /\ percHeld' = 0 /\ frame' \in {frame, sttWords}
       \/ percPc' = "transcribe" /\ percHeld' = sttAudio' /\ UNCHANGED frame
    /\ UNCHANGED sttWords

(* A chunk with or without speech comes in.  Speech in IDLE opens LISTENING *)
(* when the gate and the timers allow it.                                   *)
PercChunk ==
    /\ running /\ percPc = "ready"
    /\ \/ state \in Listening /\ UNCHANGED stateVars
       \/ /\ state = "IDLE" /\ ~emilySpeaking /\ holdoff = 0
          /\ Transition("LISTENING")
    /\ \E chunk \in {0} \cup NewSpeech :
          IF HasSpeakerEngine
          THEN /\ percPc' = "identify" /\ percHeld' = chunk
               /\ UNCHANGED <<frame, sttVars>>
          ELSE ProcessChunk(chunk)
    /\ UNCHANGED <<running, interrupt, respPc, fillerPending, turnVars, watching, prompts,
                   pending>>

(* The speaker is identified; neither the state nor the gate is looked at   *)
(* again.                                                                   *)
PercFeed ==
    /\ percPc = "identify"
    /\ ProcessChunk(percHeld)
    /\ UNCHANGED <<running, stateVars, interrupt, respPc, fillerPending, turnVars, watching,
                   prompts, pending>>

(* The transcription is back: whatever happened meanwhile, its words and    *)
(* its frame are stored.                                                    *)
PercDone ==
    /\ percPc = "transcribe"
    /\ sttWords' \in Hypotheses(percHeld)
    /\ frame' = sttWords'
    /\ percPc' = "ready" /\ percHeld' = 0
    /\ UNCHANGED <<running, stateVars, interrupt, respPc, fillerPending, turnVars, watching,
                   prompts, pending, sttAudio>>

-----------------------------------------------------------------------------
(* Turn detection and backchannel loops. *)

(* RESPOND, from the fused signals or from the silence fallback; both need  *)
(* text in the current frame.                                               *)
TurnRespond ==
    /\ running /\ state \in Listening /\ frame # 0
    /\ Transition("PROCESSING")
    /\ UNCHANGED <<running, interrupt, frame, percVars, respPc, fillerPending, turnVars,
                   watching, prompts, pending, sttVars>>

TurnBackchannel ==
    /\ running /\ state = "LISTENING"
    /\ Transition("BACKCHANNELING")
    /\ UNCHANGED <<running, interrupt, frame, percVars, respPc, fillerPending, turnVars,
                   watching, prompts, pending, sttVars>>

(* Wrong variant: the state is not what it was when the pass began. *)
BackchannelLate ==
    /\ running /\ HasBackchannel
    /\ Transition("LISTENING")
    /\ WriteOutput \/ UNCHANGED pending
    /\ UNCHANGED <<running, interrupt, frame, percVars, respPc, fillerPending, turnVars,
                   watching, prompts, sttVars>>

(* One pass of _backchannel_loop: choosing and rendering do not suspend. *)
Backchannel ==
    /\ running /\ state = "BACKCHANNELING" /\ HasBackchannel
    /\ Transition("LISTENING")
    /\ WriteOutput \/ UNCHANGED pending
    /\ UNCHANGED <<running, interrupt, frame, percVars, respPc, fillerPending, turnVars,
                   watching, prompts, sttVars>>

-----------------------------------------------------------------------------
(* Response loop: one pass from PROCESSING to the end of the turn. *)

(* The end of the loop body. *)
EndTurn(s) ==
    /\ SttReset
    /\ frame' = 0
    /\ TransitionWithCooldown(s)
    /\ respPc' = "poll"

(* _apply_graceful_trailoff up to the acknowledgment: some kinds of         *)
(* interrupt leave a context to resume.                                     *)
Preserve(context) == preserved' \in {context, TRUE}

(* The top of the sentence loop of _response_via_agent_bus. *)
BusLoop(t, context) ==
    \/ /\ interrupt'
       /\ respPc' = "busTrail"
       /\ Preserve(context)
       /\ abandoned' = abandoned \cup {t}
    \/ /\ ~interrupt'
       /\ respPc' = "busGet"
       /\ preserved' = context
       /\ UNCHANGED abandoned

(* commit_utterance resets the engine before it returns. *)
SttAfter(commit) == IF commit THEN SttReset ELSE UNCHANGED sttVars

(* _response_via_agent_bus up to its first wait: what is still queued is    *)
(* dropped, the transcript is sent, SPEAKING begins.                        *)
SendTranscript(t, context, commit) ==
    /\ ttsQueue' = <<>>
    /\ Send(Message("audio.transcript", t, 0))
    /\ Transition("SPEAKING")
    /\ BusLoop(t, context)
    /\ SttAfter(commit)
    /\ UNCHANGED frame

(* An empty or unusable transcript drops the turn. *)
Reject(commit) ==
    /\ frame' = 0
    /\ TransitionWithCooldown("IDLE")
    /\ respPc' = "poll"
    /\ SttAfter(commit)
    /\ UNCHANGED <<ttsQueue, bus, turn, prompts, preserved, abandoned>>

(* A usable one is answered, after a resume phrase if a context is          *)
(* preserved and fresh.                                                     *)
Accept(text, commit) ==
    /\ text # 0 /\ turn < MaxTurns
    /\ turn' = turn + 1
    /\ prompts' = 0
    /\ \/ /\ preserved
          /\ preserved' = FALSE
          /\ Transition("SPEAKING")
          /\ respPc' = "resume"
          /\ SttAfter(commit)
          /\ UNCHANGED <<frame, ttsQueue, bus, abandoned>>
       \/ SendTranscript(turn + 1, FALSE, commit)

Dispatch(text, commit) ==
    /\ respHeld' = 0
    /\ Reject(commit) \/ Accept(text, commit)

(* The filler task is awaited first. *)
AwaitFiller(text) ==
    /\ respPc' = "awaitFiller"
    /\ respHeld' = text
    /\ SttReset
    /\ UNCHANGED choiceVars

(* The loop finds PROCESSING.  commit_utterance reuses recent words or      *)
(* starts a transcription of the buffer.                                    *)
BeginTurn ==
    /\ running /\ respPc = "poll" /\ state = "PROCESSING"
    /\ interrupt' = FALSE
    /\ fillerPending' = HasFiller
    /\ \/ /\ respPc' = "committing"
          /\ respHeld' = sttAudio
          /\ IF HasFiller THEN Transition("FILLING") ELSE UNCHANGED stateVars
          /\ UNCHANGED <<choiceVars, sttVars>>
       \/ /\ sttAudio = 0 \/ sttWords # 0
          /\ IF HasFiller
             THEN Transition("FILLING") /\ AwaitFiller(sttWords)
             ELSE Dispatch(sttWords, TRUE)
    /\ UNCHANGED <<running, percVars, current, spoken, watching, pending>>

CommitDone ==
    /\ respPc = "committing"
    /\ UNCHANGED <<running, interrupt, percVars, fillerPending, current, spoken, watching,
                   pending>>
    /\ \E text \in Hypotheses(respHeld) :
          IF fillerPending
          THEN AwaitFiller(text) /\ UNCHANGED stateVars
          ELSE Dispatch(text, TRUE)

(* The filler task: it writes its clip, or finds none that fits. *)
Filler ==
    /\ fillerPending
    /\ fillerPending' = FALSE
    /\ WriteOutput \/ UNCHANGED pending
    /\ UNCHANGED <<running, stateVars, interrupt, frame, percVars, respPc, turnVars, watching,
                   prompts, sttVars>>

FillerDone ==
    /\ respPc = "awaitFiller" /\ ~fillerPending
    /\ UNCHANGED <<running, interrupt, percVars, fillerPending, current, spoken, watching,
                   pending>>
    /\ Dispatch(respHeld, FALSE)

(* _response_via_agent_bus: the queue hands out a sentence or the end mark. *)
BusGet ==
    /\ respPc = "busGet" /\ ttsQueue # <<>>
    /\ ttsQueue' = Tail(ttsQueue)
    /\ \/ /\ Head(ttsQueue).index # 0
          /\ current' = Head(ttsQueue)
          /\ respPc' = "speak"
          /\ UNCHANGED <<stateVars, frame, sttVars>>
       \/ /\ Head(ttsQueue).index = 0
          /\ EndTurn(IF state = "SPEAKING" THEN "IDLE" ELSE state)
          /\ UNCHANGED current
    /\ UNCHANGED <<running, interrupt, percVars, fillerPending, respHeld, turn,
                   preserved, spoken, abandoned, watching, prompts, pending>>

(* Wrong variant: waits for the agent for ever. *)
BusTimeoutPatient ==
    /\ respPc = "busGet" /\ ttsQueue = <<>>
    /\ interrupt
    /\ UNCHANGED <<running, interrupt, percVars, fillerPending, respHeld, turn,
                   current, ttsQueue, spoken, watching, prompts, pending>>
    /\ BusLoop(turn, preserved)
    /\ UNCHANGED <<stateVars, frame, sttVars>>

(* Two seconds without a sentence: after thirty the turn is given up, before *)
(* that the loop goes round and may find the interrupt.                      *)
BusTimeout ==
    /\ respPc = "busGet" /\ ttsQueue = <<>>
    /\ UNCHANGED <<running, interrupt, percVars, fillerPending, respHeld, turn,
                   current, ttsQueue, spoken, watching, prompts, pending>>
    /\ \/ /\ abandoned' = abandoned \cup {turn}
          /\ EndTurn(IF state = "SPEAKING" THEN "IDLE" ELSE state)
          /\ UNCHANGED preserved
       \/ /\ interrupt
          /\ BusLoop(turn, preserved)
          /\ UNCHANGED <<stateVars, frame, sttVars>>

(* _speak_sentence: a synthesised chunk goes to the device. *)
SpeakChunk ==
    /\ respPc \in {"resume", "speak"} /\ ~interrupt
    /\ WriteOutput
    /\ UNCHANGED <<running, stateVars, interrupt, frame, percVars, respPc, fillerPending,
                   turnVars, watching, prompts, sttVars>>

(* The synthesis ends without an interrupt. *)
SpeakDone ==
    /\ ~interrupt
    /\ UNCHANGED <<running, interrupt, percVars, fillerPending, respHeld, turn, watching,
                   prompts, pending>>
    /\ current' = NoItem
    /\ \/ /\ respPc = "speak"
          /\ spoken' = Append(spoken, [turn |-> turn, item |-> current])
          /\ BusLoop(turn, preserved)
          /\ UNCHANGED <<stateVars, frame, ttsQueue, bus, sttVars>>
       \/ /\ respPc = "resume"
          /\ SendTranscript(turn, preserved, FALSE)
          /\ UNCHANGED spoken

(* The synthesis ends, or is broken off, with the interrupt set. *)
SpeakInterrupted ==
    /\ interrupt
    /\ Preserve(preserved)
    /\ current' = NoItem
    /\ \/ /\ respPc = "speak" /\ respPc' = "speakTrail"
          /\ abandoned' = abandoned \cup {turn}
       \/ /\ respPc = "resume" /\ respPc' = "resumeTrail"
          /\ UNCHANGED abandoned
    /\ UNCHANGED <<running, stateVars, interrupt, frame, percVars, fillerPending, respHeld,
                   turn, ttsQueue, spoken, watching, prompts, pending, sttVars>>

(* The acknowledgment is written.  Interrupted between sentences, the agent *)
(* is told; interrupted within one it is not; after the resume phrase the   *)
(* turn goes on.                                                            *)
TrailDone ==
    /\ WriteOutput \/ UNCHANGED pending
    /\ UNCHANGED <<running, interrupt, percVars, fillerPending, respHeld, turn,
                   current, spoken, watching, prompts>>
    /\ \/ /\ respPc = "busTrail"
          /\ Send(Message("audio.interrupt", turn, 0))
          /\ EndTurn("LISTENING")
          /\ UNCHANGED <<ttsQueue, preserved, abandoned>>
       \/ /\ respPc = "speakTrail"
          /\ EndTurn("LISTENING")
          /\ UNCHANGED <<ttsQueue, preserved, abandoned, bus>>
       \/ /\ respPc = "resumeTrail"
          /\ SendTranscript(turn, preserved, FALSE)

(* The filler, the synthesis or the send raises: the handler of the loop    *)
(* returns to IDLE and keeps the frame.                                     *)
ResponseError ==
    /\ \/ respPc \in InTurn \ {"busGet"} /\ abandoned' = abandoned \cup {turn}
       \/ respPc = "awaitFiller" /\ fillerPending /\ UNCHANGED abandoned
    /\ respPc' = "poll"
    /\ fillerPending' = FALSE
    /\ respHeld' = 0 /\ current' = NoItem
    /\ Transition("IDLE")
    /\ UNCHANGED <<running, interrupt, frame, percVars, turn, ttsQueue, preserved, spoken,
                   watching, prompts, pending, sttVars>>

-----------------------------------------------------------------------------
(* The other loops and entry points. *)

(* Wrong variant: queues the message instead of its text. *)
HandleTtsEnvelope(m) ==
    /\ ttsQueue' = Append(ttsQueue, m)
    /\ UNCHANGED <<running, stateVars, interrupt, frame, percVars, respPc, fillerPending,
                   respHeld, turn, current, preserved, spoken, abandoned,
                   watching, prompts, pending, sttVars>>

(* _handle_tts_message: the turn a message answers is not looked at. *)
HandleTts(m) ==
    /\ ttsQueue' = Append(ttsQueue, [turn |-> m.turn, index |-> m.index])
    /\ UNCHANGED <<running, stateVars, interrupt, frame, percVars, respPc, fillerPending,
                   respHeld, turn, current, preserved, spoken, abandoned,
                   watching, prompts, pending, sttVars>>

(* _interrupt_monitor_loop: loud input while Emily speaks. *)
BargeIn ==
    /\ running /\ state \in Audible /\ ~interrupt
    /\ interrupt' = TRUE
    /\ UNCHANGED <<running, stateVars, frame, percVars, respPc, fillerPending, turnVars,
                   watching, prompts, pending, sttVars>>

(* _silence_watchdog_loop: the state is checked before the synthesis only. *)
WatchdogStarts ==
    /\ running /\ ~watching
    /\ state \in {"IDLE", "LISTENING"} /\ prompts < MaxPrompts
    /\ watching' = TRUE
    /\ UNCHANGED <<running, stateVars, interrupt, frame, percVars, respPc, fillerPending,
                   turnVars, prompts, pending, sttVars>>

WatchdogSpeaks ==
    /\ watching
    /\ watching' = FALSE
    /\ \/ WriteOutput /\ prompts' = prompts + 1
       \/ UNCHANGED <<pending, prompts>>
    /\ UNCHANGED <<running, stateVars, interrupt, frame, percVars, respPc, fillerPending,
                   turnVars, sttVars>>

(* stop(): the loops end at their next turn, a response in progress goes on. *)
Stop ==
    /\ running
    /\ running' = FALSE
    /\ Transition("IDLE")
    /\ UNCHANGED <<interrupt, frame, percVars, respPc, fillerPending, turnVars, watching,
                   prompts, pending, sttVars>>

-----------------------------------------------------------------------------
(* Steps that leave the bus alone. *)
FsmLocal ==
    \/ DeviceTick \/ PercChunk \/ PercFeed \/ PercDone
    \/ TurnRespond \/ TurnBackchannel \/ Backchannel
    \/ Filler \/ BusGet \/ BusTimeout \/ SpeakChunk \/ SpeakInterrupted \/ ResponseError
    \/ BargeIn \/ WatchdogStarts \/ WatchdogSpeaks \/ Stop

(* Steps that may send on it. *)
FsmSends == BeginTurn \/ CommitDone \/ FillerDone \/ SpeakDone \/ TrailDone

FsmTypeOK ==
    /\ running \in BOOLEAN
    /\ state \in States /\ emilySpeaking \in BOOLEAN /\ holdoff \in 0 .. HoldoffTicks
    /\ interrupt \in BOOLEAN
    /\ frame \in 0 .. MaxTurns
    /\ percPc \in {"ready", "identify", "transcribe"} /\ percHeld \in 0 .. MaxTurns
    /\ respPc \in {"poll", "committing", "awaitFiller"} \cup InTurn
    /\ fillerPending \in BOOLEAN
    /\ respHeld \in 0 .. MaxTurns
    /\ turn \in 0 .. MaxTurns
    /\ ttsQueue \in Seq([turn : 1 .. MaxTurns, index : 0 .. MaxSentences])
    /\ preserved \in BOOLEAN /\ watching \in BOOLEAN
    /\ prompts \in 0 .. MaxPrompts /\ pending \in 0 .. MaxPending
    /\ abandoned \subseteq 1 .. turn
    /\ SttTypeOK /\ sttAudio <= MaxTurns /\ sttWords <= MaxTurns
=============================================================================

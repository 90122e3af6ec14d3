# A TLA+ verification project for Emily

Emily is a local voice assistant: Python, asyncio, ZeroMQ, local speech
recognition, language models and synthesis.  This directory holds TLA+ models of
the concurrent parts of it, the TLC configurations that check them on small
instances, and proofs, checked by TLAPS, that hold for every instance.
`PROJECT.json` is the index: components, runs, the line range each definition
models, hazards, findings and theorems.

Contents: 1 inventory · 2 modules and their correspondence with the code ·
3 runs, bounds and what they show · 4 fairness and deadlock · 5 proofs ·
6 findings · 7 not modelled · 8 plan

## 1. Inventory

About 355 Python files.  What follows lists the parts with logic of their own;
tests, assets, scripts and configuration are left out.

| Part (src/) | State | Operations | Interacts with | What is hard, and what correctness means |
|---|---|---|---|---|
| Audio ring (`perception/audio/capture.py`, `RingBuffer`) | buffer, read and write position | write, read, peek, clear | PortAudio callback threads, FSM loops | wrap-around, overflow, equal positions; readers see the newest samples in order and none twice |
| Capture engine (same file) | input queue, output ring, device streams | callbacks, dispatch loop, write_output | ring, FSM | a full queue drops its oldest chunk; nothing waits for playback |
| Conversation FSM (`conversation/fsm.py`) | state, speaking gate, timers, interrupt event, current STT frame, tts queue | six loops, transition(), tts handler, stop() | STT, turn detector, bus, synthesis | six loops act on one state between awaits; no loop may move the state during a response, answers must reach their turn, a turn must end |
| Local response (`conversation/fsm.py` `_response_via_orchestrator`, `llm/orchestrator.py`) | bounded sentence queue, producer task | produce, get, speak, cancel, join | interrupt monitor | cancellation against a full queue; no sentence lost, no producer left behind |
| Streaming STT (`perception/audio/streaming_stt.py`) | audio buffer, words | process_chunk, commit_utterance, reset | perception and response loop | a transcription in a thread finishes after a reset |
| Interrupt handler (`conversation/interrupt_handler.py`) | preserved context | handle_user_interrupt, pop | response loop | classifies by words that may be stale |
| Turn detector, backchannel (`conversation/`) | scores, cooldown | decisions | FSM | numeric scoring |
| Agent bus (`core/bus.py`) | PUSH/PULL sockets, handler tasks | send, receive loop | every agent | one FIFO, but one task per message |
| Conversation agent (`agents/conversation.py`) | one interrupt event, generation tasks | transcript, interrupt, text input | bus, memory, models | an event shared by overlapping generations |
| Audio output (`voice/output_stream.py`, used by `core/bootstrap.py`) | playback queue, interrupt event, drain tasks | play_stream, interrupt | greeting, bridge | two calls share one queue; failures leave tasks and chunks behind |
| Bootstrap, system FSM (`core/bootstrap.py`, `core/fsm.py`) | SystemState, bridge loop, subsystems | transition, force_transition, shutdown | all | forced transitions after shutdown |
| Scheduler (`core/scheduler.py`) | priority queue, slots | submit, cancel, run | none ships tasks | deadline begins with the slot |
| Desktop chat controller (`emily_chat/controller.py`) | active conversation, history, stream token, text so far, pending text, input lock, sidebar | send, edit, resend, stop, create, open, change, copy, delete; one handler per result | async runner | results arrive for a conversation that is no longer active; a stopped, superseded or refused stream goes on talking; an answer must be stored once, at home, after its question |
| Async runner and chat storage (`emily_chat/ui/async_bridge.py`, `emily_chat/storage/database.py`) | operations and streams in progress, queued signals; tables, open transaction | submit, stream, cancel, shutdown; SQL operations of several statements | controller, SQLite, providers | statements of all operations mix on one connection with one transaction; a restart cuts them anywhere; totals, lists and histories must agree with the tables when all is quiet |
| Chat engine and providers (`emily_chat/models/`) | none between streams | stream, fail | HTTP | a stream may end, fail or be cancelled anywhere |
| Credential vault (`security/vault/vault.py`) | key, vault_id, connection, auto-lock task | unlock, lock, list, add, get, update, delete, close | SQLite, audit log | a key zeroed while a request awaits; two first unlocks at once; write, commit and log entry are separate; the vault must lock itself, and what is stored must stay readable |
| Audit log (`security/audit_log.py`) | number and hash of the last entry; the file | append, verify | vault, other subsystems | the chain goes on after a restart or a crash |
| Consent manager, dead man switch (`security/`) | policies, timer | check, check in | API | one prompt on a terminal; a timer |
| Memory tiers (`memory/`) | working memory, episodic and semantic stores | add, evict, consolidate, end session | agents | eviction and session end |
| Retrieval, ingestion (`rag/`, `ingestion/`) | indexes | ingest, rank | databases | parsing and ranking |
| LLM fleet and clients (`llm/`) | routing tables | route, stream | HTTP | segmentation of streams |
| Plugins, integrations, API, UI, vision, self-improvement, observability | tables, widgets, statistics | handlers | all | input and output |

How the voice parts interact: PortAudio threads fill an input queue; the FSM's
*perception loop* feeds the STT while the state is LISTENING or BACKCHANNELING;
the *turn detection loop* moves LISTENING to PROCESSING; the *response loop*
commits the utterance, sends `audio.transcript` over the bus and speaks the
`tts.speak` messages that come back until `tts.done`; the *interrupt monitor*
sets an event when the user barges in; the *backchannel loop* and the *silence
watchdog* write audio of their own.  The greeting and the bridge of
`core/bootstrap.py` play through `AudioOutputStream` instead.

Facts of this commit that shape the models:

* No code outside the tests constructs `ConversationFSM`: the package that wired it
  is absent (`src/MEMORY_LOG.md:1030` describes the wiring).  The models follow
  the class and that wiring.  The bridge's language-model client is absent too,
  so `AudioOutput`'s chunks are those of the greeting and of singing.
* Fast mode is off by default and nothing starts a speculation; YIELD_AND_RESPOND
  is never produced by the detector.  Both are left out.
* The desktop chat has a second program: `emily_chat` runs in a process of its own
  with a Qt main thread and one background thread.  It shares nothing with the
  voice loop at run time.
* `fork`, rating and editing of stored messages exist in the chat database without
  a caller; the controller's feedback and branch handlers only log.
* Voice transcripts always carry confidence 1.0 (`conversation/fsm.py:816`), so
  the agent's rejection of doubtful ones never applies to them.
* `AudioOutputStream.interrupt()` has no caller.  It is modelled, since it is the
  class's interface; properties that an interrupt would void say so.

The hazards found while reading, each at its line, are in `PROJECT.json`
(`hazards`): forty.  Thirty-four have properties; each of the others names the
planned module, or says why no property is meant.

## 2. Modules and their correspondence with the code

```
SampleStream  <--implements--  RingBuffer  <--  RingBufferProofs, MCRingBuffer
AgentBus  <--  ConversationAgent ---+
   ^                                +--  VoiceDialogue  <--  VoiceDialogueProofs, MCVoiceDialogue
   +-----  ConversationFSM  --------+
StreamingSTT  <------+
SpokenAnswer  <--implements--  SentencePipeline  <--  SentencePipelineProofs, MCSentencePipeline
AudioOutput  <--  AudioOutputProofs, MCAudioOutput
ConversationDatabase  <--  AsyncRunner  <--  ChatController  <--  MCChatController
                                                  ^-- ChatControllerProofs <-- ChatAnswersProofs
AuditLog  <--  CredentialVault  <--  MCCredentialVault
                     ^-- CredentialVaultProofs <-- VaultSessionProofs
```

All of this is asyncio code.  Coroutines of one event loop interleave only where they
suspend, so an action is one *segment* of
a coroutine, from one suspension to the next.  Awaits that cannot suspend (filler
choice, interrupt classification, backchannel rendering, brain-hub events, a bus
send on an open socket) do not end a segment.  Real suspensions are queue gets,
sleeps, speaker identification, transcription and classification in threads, and
synthesis.  Variables that name a suspension point end in `Pc`.

**RingBuffer** (`RingBuffer` of `capture.py`).  Every method holds one lock, so each
is one action.  A sample is its production number.  `buf`, `writePos` and
`readPos` are the fields; `written`, `delivered` and `out` are history.  `peek()`
changes nothing and is left out.  **SampleStream** is the abstract promise: unread
samples are an interval of the numbers, reads take from its front, a write may
lose from its old end.  `ImplementsStream` maps `head` to `written - Available`.

**AgentBus** (`core/bus.py`).  One PUSH and one PULL socket: a sequence.  The receive
loop creates a task per message; ready tasks run in creation order, so the
handlers' first segments run in message order, and that is the segment in which
both voice handlers do all that matters (`HandleTts` up to its unbounded `put`,
`HandleTranscript` up to its first await).  Payloads are a turn and an index.

**ConversationAgent** (`agents/conversation.py`).  `gen[t]` is the task that answers
turn t, `interrupted` the single event.  The agent may fail at any await
(`GenerationFails`), and ends early at will (`SayDone`), which covers the
interrupt being seen between sentences as well as a short answer.

**StreamingSTT**.  Speech is represented by the turn it would start.  The buffer and
the words are abstracted to the newest speech in them; acoustic gates,
hypothesis agreement and hallucination filters become the choice in `Hypotheses`.

**ConversationFSM** (`conversation/fsm.py`).

| Loop or entry point | Actions |
|---|---|
| `_perception_loop` | `PercChunk`, `PercFeed` (after the speaker engine), `PercDone` (after a transcription) |
| `_turn_detection_loop` | `TurnRespond`, `TurnBackchannel` |
| `_backchannel_loop` | `Backchannel` |
| `_response_loop` | `BeginTurn`, `CommitDone`, `Filler`, `FillerDone`, `BusGet`, `BusTimeout`, `SpeakChunk`, `SpeakDone`, `SpeakInterrupted`, `TrailDone`, `ResponseError` |
| `_interrupt_monitor_loop` | `BargeIn` |
| `_silence_watchdog_loop` | `WatchdogStarts`, `WatchdogSpeaks` |
| `_handle_tts_message` | `HandleTts` |
| `stop()` | `Stop` |
| output callback | `DeviceTick` |

`EndTurn`, `SendTranscript`, `BusLoop`, `Accept` and `Reject` are the pieces of the
response loop that several of these actions reach.  The two timers
`_post_speech_holdoff_until` and `_post_speech_cooldown_until` gate the same
condition and are one variable, `holdoff`, counted in blocks of playback time,
so that it runs against `pending`, the blocks in the output ring.  Other
timeouts (2 s and 30 s without a sentence, 60 s and 120 s of silence) fire
nondeterministically.  `turn`, `spoken` and `abandoned` are history.

**VoiceDialogue** joins the three: `Deliver` hands the oldest message to the handler
of its recipient.

**SentencePipeline** is one call of `_response_via_orchestrator`.  `Chunk`,
`ChunksOver`, `Yield`, `PutResumes`, `GenerationEnds` and `EndMark` are the producer
task and the generator it drives.  The generator looks at the interrupt when a
chunk of the model comes and at no other time: a chunk that comes before the
interrupt is used (`Chunk`) and completes any number of sentences, which are all
yielded (`Yield`), the interrupt set or not; one that comes later ends the chunks
(`ChunksOver`), as the end of the stream and an exception do, and the text that
used chunks have left in the buffer may be one last sentence.  With the interrupt
set from the start nothing is yielded.  `Suspended` keeps the other tasks from
running while the generator has sentences at hand and the queue has room: nothing
there awaits.  `Get`,
`SpeakDone`, `TrailDone`, `SpeakFails` and `Return` the response; `Leave` is the
`finally` clause with `producer.cancel()`, whose effect depends on where the
producer is suspended (`Cancelled`).  **SpokenAnswer** is the abstract promise, without
queue and tasks: sentences are generated and said one by one in order, none counts
as said once the user has interrupted, an answer is complete only with all of
them said and cut short only with one unsaid, and the floor is given up when
nothing is generated any more.  `ImplementsAnswer` maps `generating` to a producer
that is not done and `released` to a response that has returned.

**AudioOutput** is `AudioOutputStream`, called as `core/bootstrap.py` calls it: call
0 is the greeting, a background task, calls 1, 2, ... are answers, each awaited
before the next.  Every call has a feeder (`play_stream`) and a drain task.  Which
of several waiting drain tasks takes an item is left open: asyncio wakes the
oldest waiter, but a drain task that has just finished a chunk takes the next one
without waiting, so both orders occur.

**ConversationDatabase** (`emily_chat/storage/database.py`).  One aiosqlite connection
executes the statements of all operations.  A statement is a function of the
database (`InsertMessage(d, c, m)` and so on, foreign keys and cascades
included); `db` is what the connection sees, `durable` what the last COMMIT left
in the file, of whatever operation.  Conversations are numbered by creation, a
message is its role, the number of the generation it belongs to and its text, a
sequence of chunks.

**AsyncRunner** (`emily_chat/ui/async_bridge.py`) adds the background thread.  An
operation is a job with the step it has reached; the connection's thread takes
one statement of each in turn, in the order of submission, which is what
aiosqlite's queue and asyncio's ready queue amount to (`JobStep`).  A SELECT and
the fetch of its rows are two items of that queue, and so two steps between which
statements of other operations are executed: messages, read from an index, come
one at the SELECT and the others at the fetch (`First`, `Fetched`), a sorted list and a
count are complete at the SELECT.  A streaming
task has a status and the number of chunks it has emitted (`StreamStep`).
`signals` is the Qt event queue through which results, chunks and ends reach the
main thread.  A cancellation takes effect later (`CancelLands`), or not before
the stream has ended by itself, and signals nothing.

**ChatController** (`emily_chat/controller.py`): every action is one handler of the Qt
main thread.

| Handler | Actions |
|---|---|
| `_send_message` with `_do_send` | `SendMessage` |
| `_on_edit_message`, `_on_resend_message` | `Resend` |
| `_stop_generation` | `Stop` |
| `_create_conversation`, `_select_conversation`, `_duplicate_conversation` | `NewConversation`, `Select`, `Duplicate` |
| `_archive_conversation`, `_delete_conversation`, renaming, pinning | `Change1` |
| chunk and end of a stream | `OnText`, `OnStreamDone` (`FinishGeneration`) |
| results, by kind | `OnCreated`, `OnCreatedToSend`, `OnLoaded`, `OnRefresh`, `OnListed` |
| background thread | `Background` |
| shutdown or crash, and a new start | `Restart` |

History variables say which cases a property speaks of.  `home` is the conversation a
generation was asked in; `moved` the generations during which the active
conversation changed, whose answers the code stores in the new one; `cut` the
streams that go on although a newer message, refused by its provider, has reset
the text; `careful` says that the user has always waited for an answer, a load or
a creation to finish before the next message or change of conversation; `missed`,
in ConversationDatabase, the copies into which a message was inserted between the
recount's SELECT and its fetch.

**AuditLog** (`security/audit_log.py`).  An entry's hash is modelled as the sequence of
all it covers, which is equal exactly when the entries are.  A crash may tear the
last line and leave it open, so that the next entry is lost behind it.

**CredentialVault** (`security/vault/vault.py`).  Each request is a task that advances
one database call at a time: `Unlock`, `Connect`, `SelectId`, `InsertId`,
`CommitId`, `FinishUnlock`; `List`, `Add`, `Get`, `Update`, `Delete`, then
`SelectRow`, `Decrypt`, `Write`, `CommitRow`, `Finish` as the operation has them.
`Lock`, `AutoLock`, `Shutdown` and `Crash` are one step each.  Connections are
numbered; `writer` is the one that holds SQLite's write lock, `work` what it has
written, `store` the committed file.  A key object is an element of `keys`: the
password and vault_id it was derived from, and whether it has been zeroed, so a
request that took the key before a lock holds the zeroed object afterwards, as in
the code.  A request may name a credential that is stored, one that waits for its
COMMIT, or an id that no credential has, since neither the routes nor the vault ask
whether there is one: `get` logs the access and then finds nothing, `update` and
`delete` change no row and log all the same.  `Unknown` stands for all such ids.
`raced` is the history variable of two first unlocks, or any request,
while the database is being opened; `badTags` collects failed decryptions.

Definitions introduced with "Wrong variant" are mutations of the definition that
follows them; they are used by no specification and serve to show that a property
notices the bug.

## 3. Runs

| Run | Bounds | Shows |
|---|---|---|
| `voice_dialogue` | 2 turns, 2 sentences each; optional engines off, no blocks counted; 3.8 million states | `FaithfulSpeech`: a sentence of another turn is spoken only after that turn or an earlier one was given up. `CompleteAnswers`: a turn that follows no abandoned one, and is not abandoned, speaks all its agent sent, once, in order. `InterruptHitsItsTurn`: the agent's event is only ever set for a turn that was given up, and is never carried over to a newer generation. |
| `voice_loops` | 1 turn, 1 sentence, speaker engine, filler, backchannel, watchdog, one block of audio; 0.4 million states | `GateClosedWhileResponding`, and the liveness `TurnEnds`. |
| `echo_gate`, `barge_in_words` | as small as the case needs | violations, section 6 |
| `sentence_pipeline` | queue 3 (the code's), 6 sentences | `NoSentenceLost`, `NoOrphanProducer`, `UninterruptedEnds`; `ImplementsAnswer`: producer, queue, response and their cancellation implement SpokenAnswer. |
| `pipeline_freeze` | queue 3, 4 sentences: the fewest that freeze it | violation, section 6 |
| `ring_buffer` | capacity 3, blocks up to 4, 12 samples | `ReadableIsNewest`, `NoReplay`, `ImplementsStream`. |
| `ring_overflow` | the same | violation, section 6 |
| `audio_output` | queue 2, greeting and one answer, 3 chunks each; 0.3 million states | `InOrder` whatever fails; `MarksMatchDrains`, `AllIsSaid`, `CallsReturn` while nothing fails. |
| `audio_source_fails` | queue 2, greeting and two answers, 1 chunk each | violation, section 6 |
| `desktop_chat` | 2 conversations, 2 messages, answers of 1 chunk, 3 things the user does, and a message to a copy that is being filled as a fourth (`ChatSpec`); 1.2 million states | `AnsweredOnce`, `OneVoice`, `AnswersStayHome`, `LockedMeansStreaming`: the stop button, late ends and overlapping streams. `QuestionFirst`, `TotalsSettle`, `SidebarSettles`, `HistoryIsConversation`: tables, list and history agree although nothing waits for a statement. `CommittedStays`: the file is only added to, whichever operation commits and whenever the program ends, until a conversation is deleted, and holds a message whose insertion has returned. `InputUnlocks`: a locked panel is unlocked. |
| `vault` | 2 tasks, 2 passwords, 4 calls, 1 crash; 0.8 million states | `SecretsStayReadable`, `NothingLeftUncommitted`, `LogMatchesStore`, `DeletionsAreLogged`, `LogVerifies`, `BadTagsAreExcused`: requests, also for unknown ids, locks, crashes and their log in any interleaving. `StoredForGood`: what is stored, the vault_id included, is never replaced or taken back, and what goes on behind its COMMIT is stored. `LocksItself`. |

What the properties leave out, and why:

* `FaithfulSpeech` and `CompleteAnswers` excuse what follows a turn that was given up:
  nothing in the code then separates the messages of two turns.
* `CallsReturn` excludes interrupts and device errors, after which a call can block.
* `AnswersStayHome` and `QuestionFirst` excuse generations in `moved`: the code stores a
  finished answer in the conversation that is active then (`controller.py:703`).
  Nothing in the repository promises otherwise, so it is a hazard and not a finding.
* `OneVoice` lets a stream in `cut` lose its beginning, but nothing else.
* `HistoryIsConversation` is about a `careful` user: a load that ends after a message
  was sent replaces the history (`controller.py:807`), and the code does not guard
  against it.
* `TotalsSettle` excuses the copies in `missed`.  Copying lists the copy before it has its
  messages, so that the user can open it and write.  When the message is inserted
  after the recount's SELECT was executed and before its row is fetched
  (`database.py:472`, `:482`), `add_message` raises the total next, and the recount's
  UPDATE (`:485`) overwrites it with the older count: the total stays one short.
  `TotalsSettle` without the excuse is violated in this run.  The property also ends
  at the first restart: a COMMIT makes durable what other operations have half done,
  and nothing repairs a total at the start.
* The vault's session properties exclude `raced` histories: nothing guards the opening of
  the database, and a request in between derives its key from an empty vault_id.
  `StoredForGood` does not exclude them.
* `LogVerifies` and `DeletionsAreLogged` are stated while no line is torn;
  `LogMatchesStore` until a crash, after which an addition may lack its entry.
  Neither forbids entries that name unknown ids.  A crash is that of the process:
  what a COMMIT or an appended line reached is kept, as without a power loss.

Why the bounds are enough for what they are used for:

* `MaxTurns = 2` is what a message of one turn arriving in another needs;
  `MaxSentences = 2` is what a turn cut in the middle needs (one spoken, one
  left).  A third turn adds later copies of the same overlap, except that the
  agent may then have three generations at work; their tasks share nothing but
  the event, which two of them already contend for.
* Optional engines are off in `voice_dialogue` since they add suspensions to loops
  that none of its properties speak of; `voice_loops` has them all, with one turn,
  because its properties are about the loops.
* A ring of capacity 3 with blocks up to 4 has every alignment of wrap-around,
  blocks shorter than, equal to and longer than the ring, and 12 samples go
  around it four times.
* Six sentences against a queue of three keep the producer blocked with the
  queue full, before and after the first sentence is spoken.
* Two conversations and two messages are what a wrong home and two overlapping streams
  need; three actions are enough for send, stop, send again with the first stream
  alive, or create, send, open.  Writing to a copy while it is filled and counted takes
  a fourth, after asking, duplicating and opening the copy.  With one chunk, `OneVoice` only sees streams
  mixed up; that chunks stay in order is proved for any number.  All safety
  theorems of section 5 on these two components hold for any bounds.
* Four calls on two tasks: unlock, a request, another one next to it, and a lock or an
  unlock with the other password; the crash may come anywhere between.
* Three chunks against a queue of two block the feeder in a put and in its end mark.

Between them the passing runs take every action of the next-state relations.
Each property has a mutant, a plausible bug in one mapped definition under which TLC
finds the property violated.

## 4. Fairness and deadlock

Fairness is assumed of what the event loop guarantees: a ready coroutine runs, an
awaited thread or synthesis returns, a timer fires.  Nothing is assumed of the
user, of the agent, of the model's speed, of errors or of `stop()`.
`VoiceDialogue!Fairness` therefore covers the response loop and the filler task
only: `TurnEnds` holds with an agent that never answers, because the 30 s timeout
is among the fair steps.  In `SentencePipeline` the model's stream is only
assumed to end, and the generator to go on with what it has at hand; in `AudioOutput` both tasks of a call are assumed to run and sources to be
finite.  In `ChatController` the main thread handles the events it is sent
(`WF(OnSignal)`) and streams end, since providers bound the length of an answer
and time out; the database may be arbitrarily slow and the user may do nothing.
In `CredentialVault` only the auto-lock task's sleep is assumed to end.

`CHECK_DEADLOCK FALSE` is set where the system stops: after `stop()`, after the
one response has returned, after all calls have returned, when the user of the
chat or of the vault does nothing more or has used up the bounded actions.  Blocking inside these
systems is what the liveness properties are about.  `ring_buffer` is checked for
deadlock.

## 5. Proofs

TLAPS proves the following for every value of the constants (the named assumptions
on constants are those in the modules, nothing else is assumed).

| Module | Theorem | Argument |
|---|---|---|
| RingBufferProofs | `Inductive`, `TypeCorrect`, `ReadableCorrect`, `NeverReplays` | `TypeOK`, `ReadableIsNewest` and `NoReplay` are inductive together with `out` and counter bounds; lemmas give `%` on positions (`Advance` of an `Advance`, distances), and how `Write`, `Read` and `Clear` change `Available`. |
| RingBufferProofs | `RingImplementsStream` | every `Write` maps to `Produce`, `Read` to `Consume`, `Clear` to `Discard`, using the invariant at the read position. |
| VoiceDialogueProofs | `GateClosed` | `GateClosedWhileResponding` is inductive by itself: lemmas for the other loops (each is guarded by a state that excludes SPEAKING), the response loop and the environment. |
| VoiceDialogueProofs | `TypeCorrect` | `TypeOK` is inductive with two facts added: a turn that is answered has a number (what is sent and what is given up carries it), and a watchdog at work has a prompt left. `RespTypes` gathers what the response loop writes; one lemma per piece of that loop (`Dispatch`, `SendTranscript`, `BusLoop`, `EndTurn`), then one per group of actions. |
| SentencePipelineProofs | `Inductive`, `TypeCorrect`, `SentencesKept`, `ProducerJoined` | `NoSentenceLost` is not inductive: a cancelled producer could still be thought to put. `ControlState` adds how the suspension points, the end mark and the outcome go together; `TypeOK /\ ControlState /\ NoSentenceLost` is inductive. |
| SentencePipelineProofs | `PipelineImplementsAnswer` | step by step: the producer's steps map to `Generate`, `StopGenerating` or a stutter, the response's to `Say`, `Complete`, `CutShort`, `Release` or a stutter. The invariant gives what the queue hides: a sentence in hand is the next one (`Unsaid`), and the end mark arrives when all are said (`AllSaid`). |
| SentencePipelineProofs | `FreezeIsForever` | from the state the run `pipeline_freeze` reaches, no step of the whole system leaves. |
| AudioOutputProofs | `Inductive`, `TypeCorrect`, `ChunksInOrder` | `InOrder` speaks of chunks played; `QueueOrder` adds the chunks still queued, which are in order, come after those played, and are no more than were handed over (`Handed`). One lemma each for a step that moves no chunk, one that queues an item and one that takes one off. |
| AudioOutputProofs | `MarksAndDrains` | `MarksMatchDrains` counts; `Undisturbed` adds that without trouble no interrupt is set and that a call and its drain task start together. Lemmas say how `Append` and `Tail` change the number of end marks in a queue (the latter by the shift as a bijection). |
| AudioOutputProofs | `SilenceIsComplete` | `Said`: every chunk handed over was played or is queued, a queued chunk has an end mark behind it or one to come from its call, and a call returns only after its drain task (the count of `MarksAndDrains`). |
| VoiceDialogueProofs | `InterruptsHit` | `InOrder`: transcripts in the bus carry growing turns, newer than all that was taken up; an interrupt is for a turn that was given up, stands behind its transcript and before all newer ones. `Moves` reduces the steps of the conversation's loops to eight kinds. |
| VoiceDialogueProofs | `SpeechIsFaithful` | `Carried`: of a turn that is over, and was not lost, nothing is under way; of the present one nothing stands behind its end mark. |
| VoiceDialogueProofs | `AnswersAreComplete` | `Complete`: every sentence of a turn that was not lost is said, being said, queued or in the bus (`Whole`), and three numbers separate these stations (`Layers`), each of which is in order. |
| ChatControllerProofs | `TypeCorrect`, `LockIsHeld` | one lemma per handler and one per step of an operation or a stream; `LockedMeansStreaming` is inductive with the types. |
| ChatControllerProofs | `FinishedOnce`, `StoredAtHome` | `Answering`: an answer is on its way once (as the active stream, as a queued end, as an addition or as a row), and carries the conversation it was asked in; `Asked1` says that a generation has one question. |
| ChatControllerProofs | `CommittedForGood` | `Filed`: conversations are numbered by creation, in the tables as in the file (`Numbered`); what the connection sees only adds to the file (`Additive`); and a message whose insertion is past its first statement is in the tables (`Recorded`). `Develops` says what one statement may do to a table, `Advanced` what the round of the connection's thread does to the operations. |
| ChatAnswersProofs | `OneStreamPerAnswer` | `Voice`: the chunks a stream has emitted are those received, those in the signal queue and, after a stop, those dropped; what is received is a prefix of them. `Queued`, `Unsaid` and `Growing` are its parts. |
| ChatAnswersProofs | `QuestionsFirst` | `Drawn`: conversation numbers in use have been drawn. `Ordered`: a question is stored, or its operation stands before the answer's, or its conversation is deleted; copies follow the table they copy. `Rotation` and `Behind` say what the round of the connection's thread and a submission do to the order of operations. |
| ChatAnswersProofs | `SidebarIsCurrent` | `Listing`: an operation that changed the list, or whose result is not handled yet, is awaited; otherwise the newest list on its way, or the sidebar, is what the database holds. |
| ChatAnswersProofs | `TotalsAreRight` | `Tallied`: a conversation's total and its inserted, not yet counted messages make the number of its messages (`Tally`), for all but the copies in `missed`; while a duplication has counted a copy and is about to set its total (steps 8 and 9), what it read and the uncounted messages behind it in the queue do. A message inserted at step 8 puts the copy in `missed`, one inserted at step 9 stands behind the UPDATE and is counted after it. |
| ChatAnswersProofs | `HistoryAgrees` | `HistoryIsConversation` is about rest; `Remembers` says what holds in between. While the user is careful at most one creation, load or answer is under way (`Openings`), and then (`Consistent`): a load runs behind all insertions, and what it has read, of its two steps, is still what is stored; a conversation being created is empty; otherwise the history is the stored messages followed by those queued insertions will add (`Agree`, `Arriving`). A conversation that is not in the database has no messages. `Proceeds` and `Touches` say what one statement does; the lemmas on `Only` are by induction, as the well-foundedness of < on sets of numbers. |
| CredentialVaultProofs | `TypeCorrect`, `ChainVerifies`, `DeletionsInLog` | the chain needs `HeadIsTip`: the hash in memory is that of the file's last entry. A committed deletion has its entry, or a request that will write it, or a crash came between (`DeletionsKnown`). |
| VaultSessionProofs | `StoredSecretsReadable`, `NothingUncommitted`, `FailuresExcused` | `Always` (types, ranges, the shape of a request at each of its steps, who may hold a zeroed key) and, while no first unlocks overlap, `Session`: the key of the session is that of the stored vault_id, one request opens the database, a writer is at work. |
| VaultSessionProofs | `LogAndStore` | `Matching`: the numbers of additions and deletions in the log differ from the table's by the requests that have committed and not yet logged, or have logged and not yet committed. That a logged deletion of an id there is reaches the table needs that a request names a stored credential, one written and not yet committed, or `Unknown`, which no credential ever is (`Names`). |
| VaultSessionProofs | `StoredStays` | `Safe`, which needs no exclusion of overlapping first unlocks: every connection a request uses is one (`Attached`); what the holder of the write lock sees goes beyond the file (`Behind`); no two additions under way are of one credential, and none of a stored one (`Apart`); a request that waits for its COMMIT has its change stored, or written by its own connection (`Kept`). `FileTurns` says what one step does to the file. |

Every invariant, action property and refinement that a passing run checks is proved.
Only model-checked: liveness (`TurnEnds`, `UninterruptedEnds`, `CallsReturn`,
`InputUnlocks`, `LocksItself`), which is out of the prover's reach.

## 6. Findings

Five places where the code does something else than the repository says of it; each is
a run that TLC ends with a counterexample.

1. `ring_overflow`: a block that fills the ring exactly, or overflows it, makes the
   positions equal, which reads as empty: *all* unread samples are lost, not the
   oldest (`capture.py:71`, `test_voice_engine.py:48`, `VOICE_ARCHITECTURE.md:32`).
2. `echo_gate`: the gate opens when the last sample was queued, not played
   (`fsm.py:156-158`).
3. `barge_in_words`: a barge-in is classified by the words of the turn it
   interrupts, since no frame is produced while Emily speaks
   (`interrupt_handler.py:139`, `VOICE_ARCHITECTURE.md:64`).
4. `pipeline_freeze`: an interrupted local response waits for its producer, which
   waits for room for its end mark in a queue nobody reads any more
   (`VOICE_ARCHITECTURE.md:120`).  A synthesis error at the same moment freezes it
   in the same way.  The freeze needs the producer to be blocked, or still
   generating, when it is cancelled and the queue to be full.  In the
   counterexample a chunk completes four sentences before the user speaks: three
   fill the queue and the fourth waits for room; the user barges in; the response
   takes the first, sees the interrupt and trails off; the fourth takes the room
   that made; and the producer, cancelled while it waits for the model, waits for
   room for its end mark.
5. `audio_source_fails`: a failed source leaves a drain task on the shared queue; it
   takes the end mark of a later answer, which then never returns
   (`bootstrap.py:235`).  One way there: the abandoned task waits on the empty
   queue; the next answer's two chunks go to it and to the answer's own task; the
   abandoned one finishes first and takes the end mark.

## 7. Not modelled

Components with status `not_modelled` or `partly` in `PROJECT.json` carry the reason.
Inside the modelled ones: calibration and the chunk hand-over of the capture loop,
fast mode and speculation, onboarding, running the FSM again after `stop()`,
the text and prosody scoring behind the nondeterministic choices, the agent's
text input, memory and critic, socket start-up and shutdown, the cancellation of
tasks at shutdown, MP3 chunks (buffered and put as one chunk), and a missing
`sounddevice` (the call then only consumes its source).  In the desktop chat: search,
export, model discovery, skills, slash commands, statistics, feedback and
branching (the last two only log), the database operations without a caller, the
full-text index, and tags inside a chunk.  In the vault: what a secret contains,
password generation, health scores, the trimming of the system-wide log by age.  The
vault's docstring says that every access is audited (`vault.py:88-89`) while `list`
writes no entry; the model has it as the code does.

Most of the repository has no state machine to model: widgets, HTTP routes,
prompts, plugins, signal processing and statistics are most of its 54 000 lines.  The
models cover the code in which several tasks, threads or processes act on shared
state, and the share of lines in `map` is small for that reason.

## 8. Plan

In this order; each step is a module, its runs, then its theorems.

1. **Done**: RingBuffer with SampleStream; AgentBus, ConversationAgent,
   StreamingSTT, ConversationFSM and VoiceDialogue; SentencePipeline; AudioOutput;
   ConversationDatabase, AsyncRunner and ChatController; AuditLog and
   CredentialVault; the theorems of section 5.
2. Text turns in ConversationAgent as a second source of messages in VoiceDialogue.
3. **LiveVoicePath**: the bridge of `core/bootstrap.py`, SystemFSM and shutdown,
   composed with AudioOutput; the Scheduler after it.
4. Orchestrator history and the filter of the token stream as an algorithm against
   a reference definition over bounded inputs.
5. Memory tiers and consent if room remains.

Proofs planned: the types and the safety invariants of each of these modules, with the
module.

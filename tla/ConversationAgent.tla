-------------------------- MODULE ConversationAgent --------------------------
(***************************************************************************)
(* agents/conversation.py: the agent that answers transcripts.  Each       *)
(* transcript is handled by its own task, so a generation that has not     *)
(* noticed its interrupt yet runs next to the following one; the tasks     *)
(* share the single event self._interrupted.                               *)
(***************************************************************************)
EXTENDS AgentBus

VARIABLES
    gen,          \* per turn: where the task that answers it stands
    sentences,    \* per turn: sentences sent to "tts" so far
    interrupted   \* self._interrupted

agentVars == <<gen, sentences, interrupted>>

AgentInit ==
    /\ gen = [t \in 1 .. MaxTurns |-> "none"]
    /\ sentences = [t \in 1 .. MaxTurns |-> 0]
    /\ interrupted = FALSE

-----------------------------------------------------------------------------
(* Wrong variant: the end marker goes out with the first sentence. *)
SayEarlyDone(t) ==
    /\ gen[t] = "generating"
    /\ ~interrupted
    /\ sentences[t] < MaxSentences
    /\ sentences' = [sentences EXCEPT ![t] = @ + 1]
    /\ bus' = bus \o <<Message("tts.speak", t, sentences[t] + 1), Message("tts.done", t, 0)>>
    /\ UNCHANGED <<gen, interrupted>>

(* Wrong variant: the event of the last interrupt stays set. *)
HandleTranscriptNoClear(m) ==
    /\ gen' = [gen EXCEPT ![m.turn] = "generating"]
    /\ UNCHANGED <<interrupted, sentences>>

-----------------------------------------------------------------------------
(* _handle_transcript up to its first await: the event is cleared for every *)
(* task, also for one that still has to see the interrupt.                  *)
HandleTranscript(m) ==
    /\ gen' = [gen EXCEPT ![m.turn] = "generating"]
    /\ interrupted' = FALSE
    /\ UNCHANGED sentences

(* _handle_interrupt *)
HandleInterrupt ==
    /\ interrupted' = TRUE
    /\ UNCHANGED <<gen, sentences>>

(* _generate_response, one iteration of the sentence loop: the event is     *)
(* looked at when a sentence is complete, and the sentence is sent.         *)
Say(t) ==
    /\ gen[t] = "generating"
    /\ ~interrupted
    /\ sentences[t] < MaxSentences
    /\ sentences' = [sentences EXCEPT ![t] = @ + 1]
    /\ Send(Message("tts.speak", t, sentences[t] + 1))
    /\ UNCHANGED <<gen, interrupted>>

(* The stream ends, or the loop breaks on the event: tts.done either way. *)
SayDone(t) ==
    /\ gen[t] = "generating"
    /\ gen' = [gen EXCEPT ![t] = "done"]
    /\ Send(Message("tts.done", t, 0))
    /\ UNCHANGED <<sentences, interrupted>>

(* Memory, routing, retrieval or the model raises: the task dies and        *)
(* nothing tells the voice side.                                            *)
GenerationFails(t) ==
    /\ gen[t] = "generating"
    /\ gen' = [gen EXCEPT ![t] = "failed"]
    /\ UNCHANGED <<bus, sentences, interrupted>>

AgentNext == \E t \in 1 .. MaxTurns : Say(t) \/ SayDone(t) \/ GenerationFails(t)

AgentTypeOK ==
    /\ gen \in [1 .. MaxTurns -> {"none", "generating", "done", "failed"}]
    /\ sentences \in [1 .. MaxTurns -> 0 .. MaxSentences]
    /\ interrupted \in BOOLEAN
=============================================================================

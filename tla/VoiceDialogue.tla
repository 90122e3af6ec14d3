---------------------------- MODULE VoiceDialogue ----------------------------
(***************************************************************************)
(* The voice loop as a whole: ConversationFSM and ConversationAgent joined *)
(* by the AgentBus, as ConversationFSM.configure and the agents' handler   *)
(* registrations wire them.                                                *)
(***************************************************************************)
EXTENDS ConversationFSM, ConversationAgent

vars == <<fsmVars, bus, agentVars>>

Init == FsmInit /\ BusInit /\ AgentInit

(* The bus hands its oldest message to the handler of its recipient. *)
Deliver ==
    /\ Receive
    /\ LET m == Head(bus)
       IN  \/ /\ m.type = "audio.transcript"
              /\ HandleTranscript(m)
              /\ UNCHANGED fsmVars
           \/ /\ m.type = "audio.interrupt"
              /\ HandleInterrupt
              /\ UNCHANGED fsmVars
           \/ /\ m.type \in {"tts.speak", "tts.done"}
              /\ HandleTts(m)
              /\ UNCHANGED agentVars

AgentStep == AgentNext /\ UNCHANGED fsmVars

FsmStep == \/ FsmLocal /\ UNCHANGED <<bus, agentVars>>
           \/ FsmSends /\ UNCHANGED agentVars

Next == FsmStep \/ AgentStep \/ Deliver

Spec == Init /\ [][Next]_vars

(* Tasks that are ready are run, awaited calls return and timers fire.      *)
(* Nothing is assumed of the user, of the agent, of errors or of stop().    *)
Fairness ==
    /\ WF_vars((BeginTurn \/ CommitDone \/ FillerDone \/ SpeakDone \/ TrailDone)
               /\ UNCHANGED agentVars)
    /\ WF_vars((BusGet \/ BusTimeout \/ SpeakInterrupted) /\ UNCHANGED <<bus, agentVars>>)
    /\ WF_vars(Filler /\ UNCHANGED <<bus, agentVars>>)

FairSpec == Spec /\ Fairness

-----------------------------------------------------------------------------
(* Type invariant of the composition. *)
TypeOK ==
    /\ FsmTypeOK
    /\ AgentTypeOK
    /\ bus \in Seq(Messages)

(* From the moment a turn is accepted until it ends, the state is SPEAKING  *)
(* and the gate is closed: no other loop moves the state during a response. *)
GateClosedWhileResponding ==
    running /\ respPc \in InTurn => state = "SPEAKING" /\ emilySpeaking

(* Sentences reach the turn they answer: Emily speaks a sentence of another *)
(* turn only if that turn, or one before it, was given up.                  *)
FaithfulSpeech ==
    \A i \in 1 .. Len(spoken) :
        LET s == spoken[i]
        IN  s.turn # s.item.turn =>
              s.item.turn < s.turn /\ \E a \in abandoned : a <= s.item.turn

Finished(t) == t < turn \/ (t = turn /\ respPc \notin InTurn)

(* As long as no turn was given up, an answered turn speaks every sentence  *)
(* the agent generated for it, in order and once.                           *)
CompleteAnswers ==
    \A t \in 1 .. turn :
        Finished(t) /\ (\A a \in abandoned : a > t) =>
          /\ \A k \in 1 .. sentences[t] : \E i \in 1 .. Len(spoken) :
                spoken[i] = [turn |-> t, item |-> [turn |-> t, index |-> k]]
          /\ \A i, j \in 1 .. Len(spoken) :
                i < j /\ spoken[i].turn = t /\ spoken[j].turn = t =>
                  spoken[i].item.index < spoken[j].item.index

(* An interrupt only stops the generation it was meant for: while the event *)
(* is set, the newest turn the agent has taken up is one that was given up. *)
InterruptHitsItsTurn ==
    interrupted =>
      \E t \in abandoned :
         gen[t] # "none" /\ \A u \in 1 .. MaxTurns : gen[u] # "none" => u <= t

(* A turn that was started ends: the loop never stays in PROCESSING,        *)
(* FILLING or SPEAKING.                                                     *)
TurnEnds == state \in {"PROCESSING", "FILLING", "SPEAKING"} ~> state \in {"IDLE", "LISTENING"}

(* "Speaking-gate: suppress STT input and IDLE->LISTENING transitions while *)
(* Emily is producing audio, plus a hold-off afterward" (fsm.py): as long   *)
(* as her audio waits in the output ring, the gate or the hold-off is up.   *)
GateClosedWhileAudible == pending > 0 => emilySpeaking \/ holdoff > 0

(* "What the user is saying (from streaming STT)" (interrupt_handler.py,    *)
(* partial_user_text): the words a barge-in is classified by were spoken    *)
(* after the turn it interrupts was accepted.                               *)
BargeInClassifiedByItsWords ==
    respPc \in {"speakTrail", "busTrail", "resumeTrail"} /\ frame # 0 => frame > turn
=============================================================================

------------------------------ MODULE AgentBus ------------------------------
(***************************************************************************)
(* core/bus.py, class AgentBus.  One PUSH socket and one PULL socket carry *)
(* every message of every agent, so the bus is one FIFO.  The receive loop *)
(* starts a task per message; asyncio runs ready tasks in creation order,  *)
(* so the first segment of each handler (up to its first suspension) runs  *)
(* in message order too.  A message without a handler is dropped.          *)
(***************************************************************************)
EXTENDS Naturals, Sequences

CONSTANTS MaxTurns,      \* bound: voice turns accepted in a behaviour
          MaxSentences   \* bound: sentences of one generated response

ASSUME BusConstants == MaxTurns \in Nat /\ MaxSentences \in Nat

VARIABLE bus   \* messages sent and not yet received

(* Message(type, task): the envelope, with the payload fields the handlers  *)
(* look at.  turn stands for task_id, index for the sentence's text.        *)
Message(type, turn, index) == [type |-> type, turn |-> turn, index |-> index]

Messages == [type : {"audio.transcript", "audio.interrupt", "tts.speak", "tts.done"},
             turn : 1 .. MaxTurns,
             index : 0 .. MaxSentences]

(* Wrong variant: control messages overtake the sentences. *)
SendControlFirst(m) ==
    bus' = IF m.type = "tts.done" THEN <<m>> \o bus ELSE Append(bus, m)

(* send(), send_to() *)
Send(m) == bus' = Append(bus, m)

(* One turn of _receive_loop: hand the oldest message to its handler. *)
Receive == bus # <<>> /\ bus' = Tail(bus)

BusInit == bus = <<>>
=============================================================================

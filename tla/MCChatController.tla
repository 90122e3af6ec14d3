-------------------------- MODULE MCChatController --------------------------
(* Two conversations, two messages, answers of one chunk.  The user does     *)
(* three things, sending, clicking or ending the program; and a fourth when  *)
(* it is a message to a copy that is being filled and counted: it takes      *)
(* asking, duplicating and opening the copy to get there.                    *)
EXTENDS ChatController

WriteToCopy ==
    /\ SendMessage
    /\ \E i \in DOMAIN jobs : jobs[i].op = "duplicate" /\ jobs[i].copy = active

ChatNext ==
    \/ clicks + sent < 3 /\ (User \/ Restart)
    \/ clicks + sent = 3 /\ WriteToCopy
    \/ OnSignal \/ Background

ChatSpec == Init /\ [][ChatNext]_vars /\ Fairness
=============================================================================

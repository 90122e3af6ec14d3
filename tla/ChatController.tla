--------------------------- MODULE ChatController ---------------------------
(***************************************************************************)
(* emily_chat/controller.py, class ChatController, with the AsyncRunner    *)
(* and the ConversationDatabase it owns: Emily's desktop chat.  The main   *)
(* thread runs one handler at a time: those of the user's clicks and those *)
(* of the queued signals.  Database calls and answers go on meanwhile.     *)
(*                                                                         *)
(* A generation is numbered by the message that asked for it, and an       *)
(* answer is the sequence of the chunks it was put together from.          *)
(***************************************************************************)
EXTENDS AsyncRunner, FiniteSets

CONSTANT MaxActions     \* bound: what the user does, ending the program included

VARIABLES
    active,        \* _active_conversation_id, 0 for None
    token,         \* _active_stream_token: the generation it stands for, 0 for None
    genText,       \* _gen_response_text
    history,       \* _conversation_messages
    pendingText,   \* _pending_user_text: the message waiting for its conversation
    generating,    \* the input panel's lock
    sidebar,       \* the conversations listed
    sent, clicks, created, restarts,    \* history, bounded: what has been asked for
    moved,         \* history: generations during which the active conversation changed
    home,          \* history of this session: the conversation a generation was asked in
    cut,           \* the same: streams whose text was reset while they went on
    answers,       \* the same: the answers that were finished
    careful        \* the same: the user has always waited for an answer or a load

uiVars == <<active, token, genText, history, pendingText, generating, sidebar>>
countVars == <<sent, clicks, created, restarts>>
ghostVars == <<moved, home, cut, answers, careful>>
vars == <<dbVars, runnerVars, uiVars, countVars, ghostVars>>

Chunk == Gens \X (1 .. MaxChunks)
Answer == [stream : Gens, conv : 0 .. MaxConvs, text : Seq(Chunk)]

TypeOK ==
    /\ DbTypeOK /\ RunnerTypeOK
    /\ active \in 0 .. MaxConvs /\ token \in 0 .. MaxGens
    /\ genText \in Seq(Chunk) /\ history \in Seq(Message)
    /\ pendingText \in 0 .. MaxGens /\ generating \in BOOLEAN
    /\ sidebar \subseteq Convs
    /\ sent \in 0 .. MaxGens /\ clicks \in Nat /\ created \in 0 .. MaxConvs /\ restarts \in Nat
    /\ home \in [Gens -> 0 .. MaxConvs]
    /\ moved \subseteq Gens /\ cut \subseteq Gens
    /\ answers \in Seq(Answer) /\ careful \in BOOLEAN

UiInit ==
    /\ active = 0 /\ token = 0 /\ genText = <<>> /\ history = <<>>
    /\ pendingText = 0 /\ generating = FALSE /\ sidebar = {}

Init ==
    /\ DbInit /\ RunnerInit /\ UiInit
    /\ sent = 0 /\ clicks = 0 /\ created = 0 /\ restarts = 0
    /\ home = [g \in Gens |-> 0] /\ moved = {} /\ cut = {} /\ answers = <<>> /\ careful = TRUE

-----------------------------------------------------------------------------
Question(g) == [role |-> "user", gen |-> g, text |-> <<>>]
Reply(g, text) == [role |-> "assistant", gen |-> g, text |-> text]

(* An answer or a change of conversation is under way. *)
Changing == {"create", "createSend", "load", "duplicate"}
Busy ==
    \/ token # 0
    \/ \E i \in DOMAIN jobs : jobs[i].op \in Changing
    \/ \E i \in DOMAIN signals : signals[i].kind \in Changing

Click == clicks + sent < MaxActions /\ clicks' = clicks + 1 /\ UNCHANGED <<sent, restarts>>
Heed == careful' = (careful /\ ~Busy)
Submitted(js) == jobs' = jobs \o js
Moves == moved' = IF token = 0 THEN moved ELSE moved \cup {token}

(* get_provider() raises: no API key, or no such provider.  A stream that an  *)
(* earlier message started keeps the token, but its text is reset.         *)
ProviderUnavailable ==
    /\ generating' = FALSE
    /\ cut' = IF token = 0 THEN cut ELSE cut \cup {token}
    /\ UNCHANGED <<streams, token>>

(* _do_send(): the message is shown, stored and added to the history; then   *)
(* the answer begins, unless its provider is not available.                *)
DoSend(c, g, before, now, after) ==
    /\ jobs' = before \o <<AddJob(c, Question(g))>> \o after
    /\ history' = Append(now, Question(g))
    /\ genText' = <<>>
    /\ home' = [home EXCEPT ![g] = c]
    /\ \/ /\ SubmitStreaming(g)
          /\ token' = g
          /\ generating' = TRUE
          /\ UNCHANGED cut
       \/ ProviderUnavailable

(* _send_message(), from an input panel that is not locked. *)
SendMessage ==
    /\ ~generating /\ sent < MaxGens /\ clicks + sent < MaxActions
    /\ sent' = sent + 1
    /\ Heed
    /\ \/ /\ active # 0
          /\ DoSend(active, sent + 1, jobs, history, <<>>)
          /\ UNCHANGED <<pendingText, created, moved>>
       \/ /\ active = 0 /\ created < MaxConvs
          /\ pendingText' = sent + 1
          /\ created' = created + 1
          /\ Submitted(<<NewJob("createSend", 0)>>)
          /\ UNCHANGED <<streams, token, genText, history, generating, home, moved, cut>>
    /\ UNCHANGED <<dbVars, signals, active, sidebar, clicks, restarts, answers>>

(* _on_edit_message(), _on_resend_message(): buttons of the messages shown,   *)
(* which no generation locks.                                              *)
Resend ==
    /\ active # 0 /\ sent < MaxGens /\ clicks + sent < MaxActions
    /\ \E i \in DOMAIN history : history[i].role = "user"
    /\ sent' = sent + 1
    /\ Heed
    /\ DoSend(active, sent + 1, jobs, history, <<>>)
    /\ UNCHANGED <<dbVars, signals, active, pendingText, sidebar, clicks, created,
                   restarts, moved, answers>>

(* Wrong variants: the token of the finished stream is kept; the answer is   *)
(* stored before what was submitted earlier.                               *)
FinishGenerationKeepsToken(g) ==
    /\ generating' = FALSE
    /\ UNCHANGED token
    /\ history' = IF genText = <<>> THEN history ELSE Append(history, Reply(g, genText))
    /\ answers' = Append(answers, [stream |-> g, conv |-> active, text |-> genText])
    /\ jobs' = IF active = 0 THEN jobs
               ELSE jobs \o <<AddJob(active, Reply(g, genText)), NewJob("list", 0)>>

FinishGenerationFirst(g) ==
    /\ generating' = FALSE
    /\ token' = 0
    /\ history' = IF genText = <<>> THEN history ELSE Append(history, Reply(g, genText))
    /\ answers' = Append(answers, [stream |-> g, conv |-> active, text |-> genText])
    /\ jobs' = IF active = 0 THEN jobs
               ELSE <<AddJob(active, Reply(g, genText)), NewJob("list", 0)>> \o jobs

(* _finish_generation(): an answer without text is stored, but not kept in    *)
(* the history.                                                            *)
FinishGeneration(g) ==
    /\ generating' = FALSE
    /\ token' = 0
    /\ history' = IF genText = <<>> THEN history ELSE Append(history, Reply(g, genText))
    /\ answers' = Append(answers, [stream |-> g, conv |-> active, text |-> genText])
    /\ jobs' = IF active = 0 THEN jobs
               ELSE jobs \o <<AddJob(active, Reply(g, genText)), NewJob("list", 0)>>

(* _stop_generation(): the stop button is shown while the panel is locked. *)
Stop ==
    /\ generating /\ token # 0
    /\ Click
    /\ CancelStream(token)
    /\ FinishGeneration(token)
    /\ UNCHANGED <<dbVars, signals, active, genText, pendingText, sidebar, created,
                   home, moved, cut, careful>>

(* _create_conversation() *)
NewConversation ==
    /\ Click /\ Heed
    /\ created < MaxConvs /\ created' = created + 1
    /\ Submitted(<<NewJob("create", 0)>>)
    /\ UNCHANGED <<dbVars, streams, signals, uiVars, home, moved, cut, answers>>

(* _select_conversation(), from the sidebar *)
Select(c) ==
    /\ Click /\ Heed
    /\ c \in sidebar
    /\ active' = c
    /\ Moves
    /\ Submitted(<<NewJob("load", c)>>)
    /\ UNCHANGED <<dbVars, streams, signals, token, genText, history, pendingText,
                   generating, sidebar, created, home, cut, answers>>

(* _archive_conversation(), _delete_conversation() and, as they only differ  *)
(* from the first in columns that are not modelled, renaming and pinning.   *)
Change1(op, c) ==
    /\ Click
    /\ c \in sidebar
    /\ Submitted(<<NewJob(op, c)>>)
    /\ UNCHANGED <<dbVars, streams, signals, uiVars, created, ghostVars>>

Duplicate(c) ==
    /\ Click
    /\ c \in sidebar
    /\ created < MaxConvs /\ created' = created + 1
    /\ Submitted(<<NewJob("duplicate", c)>>)
    /\ UNCHANGED <<dbVars, streams, signals, uiVars, ghostVars>>

-----------------------------------------------------------------------------
(* The next queued signal.                                                  *)

Received(kind) == signals # <<>> /\ Head(signals).kind = kind
Consumed == signals' = Tail(signals)

(* Wrong variant: any stream's text is taken. *)
OnTextOfAnyStream ==
    /\ Received("text") /\ Consumed
    /\ genText' = Append(genText, <<Head(signals).gen, Head(signals).index>>)
    /\ UNCHANGED <<dbVars, jobs, streams, active, token, history, pendingText, generating,
                   sidebar, countVars, ghostVars>>

OnText ==
    /\ Received("text") /\ Consumed
    /\ genText' = IF Head(signals).gen = token
                  THEN Append(genText, <<token, Head(signals).index>>) ELSE genText
    /\ UNCHANGED <<dbVars, jobs, streams, active, token, history, pendingText, generating,
                   sidebar, countVars, ghostVars>>

(* Wrong variant: an answer without text is not finished. *)
OnStreamDoneWithText ==
    /\ Received("done") /\ Consumed
    /\ IF Head(signals).gen = token /\ genText # <<>>
       THEN FinishGeneration(token)
       ELSE UNCHANGED <<jobs, token, history, generating, answers>>
    /\ UNCHANGED <<dbVars, streams, active, genText, pendingText, sidebar, countVars,
                   home, moved, cut, careful>>

OnStreamDone ==
    /\ Received("done") /\ Consumed
    /\ IF Head(signals).gen = token
       THEN FinishGeneration(token)
       ELSE UNCHANGED <<jobs, token, history, generating, answers>>
    /\ UNCHANGED <<dbVars, streams, active, genText, pendingText, sidebar, countVars,
                   home, moved, cut, careful>>

(* Wrong variant: the history of the conversation left stays. *)
OnCreatedKeepsHistory ==
    /\ Received("create") /\ Consumed
    /\ active' = Head(signals).conv
    /\ Moves
    /\ Submitted(<<NewJob("list", 0)>>)
    /\ UNCHANGED <<dbVars, streams, token, genText, history, pendingText, generating, sidebar,
                   countVars, home, cut, answers, careful>>

(* _on_result: "create" *)
OnCreated ==
    /\ Received("create") /\ Consumed
    /\ active' = Head(signals).conv
    /\ Moves
    /\ history' = <<>>
    /\ Submitted(<<NewJob("list", 0)>>)
    /\ UNCHANGED <<dbVars, streams, token, genText, pendingText, generating, sidebar,
                   countVars, home, cut, answers, careful>>

(* Wrong variant: the new conversation is not made the active one. *)
OnCreatedToSendElsewhere ==
    /\ Received("createSend") /\ Consumed
    /\ UNCHANGED active
    /\ Moves
    /\ \/ /\ pendingText # 0
          /\ DoSend(Head(signals).conv, pendingText, jobs, <<>>, <<NewJob("list", 0)>>)
          /\ pendingText' = 0
       \/ /\ pendingText = 0
          /\ history' = <<>>
          /\ Submitted(<<NewJob("list", 0)>>)
          /\ UNCHANGED <<streams, token, genText, pendingText, generating, home, cut>>
    /\ UNCHANGED <<dbVars, sidebar, countVars, answers, careful>>

(* _on_result: "create_then_send".  A second message sent before this one's  *)
(* conversation existed has replaced its text.                             *)
OnCreatedToSend ==
    /\ Received("createSend") /\ Consumed
    /\ active' = Head(signals).conv
    /\ Moves
    /\ \/ /\ pendingText # 0
          /\ DoSend(Head(signals).conv, pendingText, jobs, <<>>, <<NewJob("list", 0)>>)
          /\ pendingText' = 0
       \/ /\ pendingText = 0
          /\ history' = <<>>
          /\ Submitted(<<NewJob("list", 0)>>)
          /\ UNCHANGED <<streams, token, genText, pendingText, generating, home, cut>>
    /\ UNCHANGED <<dbVars, sidebar, countVars, answers, careful>>

(* _on_result: "load_messages" *)
OnLoaded ==
    /\ Received("load") /\ Consumed
    /\ history' = Head(signals).rows
    /\ UNCHANGED <<dbVars, jobs, streams, active, token, genText, pendingText, generating,
                   sidebar, countVars, ghostVars>>

(* Wrong variant: the list is not loaded again. *)
OnRefreshIgnored ==
    /\ Received("refresh") /\ Consumed
    /\ UNCHANGED <<dbVars, jobs, streams, uiVars, countVars, ghostVars>>

(* _on_result: "refresh" *)
OnRefresh ==
    /\ Received("refresh") /\ Consumed
    /\ Submitted(<<NewJob("list", 0)>>)
    /\ UNCHANGED <<dbVars, streams, uiVars, countVars, ghostVars>>

(* _on_result: "load" *)
OnListed ==
    /\ Received("list") /\ Consumed
    /\ sidebar' = Head(signals).shown
    /\ UNCHANGED <<dbVars, jobs, streams, active, token, genText, history, pendingText,
                   generating, countVars, ghostVars>>

OnSignal == OnText \/ OnStreamDone \/ OnCreated \/ OnCreatedToSend \/ OnLoaded
            \/ OnRefresh \/ OnListed

-----------------------------------------------------------------------------
(* Properties. *)

(* A generation is finished at most once, although the stop button and the   *)
(* end of its stream race: the stored conversation never holds it twice.    *)
AnsweredOnce ==
    \A i, j \in DOMAIN answers : answers[i].stream = answers[j].stream => i = j

(* An answer holds the chunks of one stream, all of those it sent up to some *)
(* point, in order, whatever older streams still have in the event queue.   *)
(* Only a stream that went on while a newer message was refused by its      *)
(* provider loses its beginning.                                           *)
OneVoice ==
    \A i \in DOMAIN answers :
        LET a == answers[i] IN
        \A k \in DOMAIN a.text :
            /\ a.text[k][1] = a.stream
            /\ a.text[k][2] = a.text[1][2] + k - 1
            /\ a.stream \notin cut => a.text[1][2] = 1

(* An answer is stored in the conversation it was asked in, unless the user *)
(* opened or created another one while it came.                            *)
AnswersStayHome ==
    \A i \in DOMAIN answers :
        answers[i].stream \notin moved => answers[i].conv = home[answers[i].stream]

(* While the input panel is locked there is a stream that will unlock it: it *)
(* is running, or its end waits in the event queue.                        *)
LockedMeansStreaming ==
    generating =>
        /\ token # 0
        /\ \/ streams[token].status = "running"
           \/ \E i \in DOMAIN signals : signals[i].kind = "done" /\ signals[i].gen = token

(* In every stored conversation, also in what a restart finds, an answer     *)
(* comes after its question, though neither insertion is waited for.        *)
Asked(ms) ==
    \A i \in DOMAIN ms :
        ms[i].role = "assistant" /\ ms[i].gen \notin moved =>
            \E j \in 1 .. i - 1 : ms[j] = Question(ms[i].gen)
QuestionFirst == \A c \in Convs : Asked(db.msgs[c]) /\ Asked(durable.msgs[c])

Quiet == jobs = <<>> /\ signals = <<>>

(* The elements of s that are in S, in their order. *)
Only(s, S) ==
    LET kept[n \in 0 .. Len(s)] ==
            IF n = 0 THEN <<>>
            ELSE IF s[n] \in S THEN Append(kept[n - 1], s[n]) ELSE kept[n - 1]
    IN  kept[Len(s)]

(* Answers without text are stored, but only a load puts them in the history. *)
Spoken(ms) == Only(ms, {m \in Message : m.role = "user" \/ m.text # <<>>})

(* When nothing is in progress, the history the next message is sent with is *)
(* the stored conversation, provided the user has always let an answer, a   *)
(* load or a creation finish before acting on.                             *)
HistoryIsConversation ==
    Quiet /\ token = 0 /\ active \in db.convs /\ careful =>
        Spoken(history) = Spoken(db.msgs[active])

(* When nothing is in progress the sidebar lists what the database lists. *)
SidebarSettles == Quiet => sidebar = Listed(db)

(* When nothing is in progress, a conversation's total is the number of its *)
(* messages, however insertions and the recount of a copy mix, until a      *)
(* restart has cut an operation in the middle; only a message inserted      *)
(* between the recount's SELECT and its fetch is missed.                    *)
TotalsSettle ==
    Quiet /\ restarts = 0 => \A c \in db.convs \ missed : db.total[c] = Len(db.msgs[c])

(* What reached the file is only added to, whichever operation committed it  *)
(* and whenever the program ended, until its conversation is deleted; a     *)
(* deleted one does not come back; and a message whose insertion has        *)
(* returned is in the file, unless its conversation is being deleted.       *)
Grown(s, t) == \A i \in DOMAIN s : i \in DOMAIN t /\ t[i] = s[i]
Holds(ms, m) == \E i \in DOMAIN ms : ms[i] = m
Returns(op) == JobStep /\ jobs # <<>> /\ Head(jobs).op = op /\ jobs' = Tail(jobs)
CommitKeeps ==
    /\ \A c \in durable.convs \cap durable'.convs : Grown(durable.msgs[c], durable'.msgs[c])
    /\ \A c \in 1 .. ids : c \notin db.convs \cup durable.convs => c \notin durable'.convs
    /\ Returns("add") =>
         LET j == Head(jobs) IN
         j.conv \in db'.convs => Holds(durable'.msgs[j.conv], Head(j.rows))
CommittedStays == [][CommitKeeps]_vars

(* A locked input panel is unlocked in the end. *)
InputUnlocks == generating ~> ~generating

-----------------------------------------------------------------------------
(* shutdown() or a crash, then a new start. *)
Restart ==
    /\ clicks + sent < MaxActions /\ clicks' = clicks + 1 /\ restarts' = restarts + 1
    /\ DbRestart /\ RunnerRestart
    /\ active' = 0 /\ token' = 0 /\ genText' = <<>> /\ history' = <<>>
    /\ pendingText' = 0 /\ generating' = FALSE /\ sidebar' = {}
    /\ home' = [g \in Gens |-> 0] /\ cut' = {} /\ answers' = <<>> /\ careful' = TRUE
    /\ UNCHANGED <<sent, created, moved>>

User == \/ SendMessage \/ Resend \/ Stop \/ NewConversation
        \/ \E c \in Convs : \/ Select(c) \/ Duplicate(c)
                            \/ \E op \in {"archive", "delete"} : Change1(op, c)

Background == (JobStep \/ StreamStep) /\ UNCHANGED <<uiVars, countVars, ghostVars>>

Next == User \/ OnSignal \/ Background \/ Restart

Spec == Init /\ [][Next]_vars

(* The main thread handles the events it is sent, and a stream ends: the     *)
(* number of its chunks is bounded, and providers time out.                *)
Fairness ==
    /\ WF_vars(OnSignal)
    /\ WF_vars(/\ \E g \in Gens : StreamEnds(g)
               /\ UNCHANGED <<jobs, dbVars, uiVars, countVars, ghostVars>>)

FairSpec == Spec /\ Fairness
=============================================================================

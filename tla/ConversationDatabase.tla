------------------------ MODULE ConversationDatabase ------------------------
(***************************************************************************)
(* emily_chat/storage/database.py, class ConversationDatabase: one         *)
(* aiosqlite connection shared by every operation.  Each SQL statement is  *)
(* executed by the connection's thread, and operations suspend between     *)
(* their statements, so that statements of different operations mix.       *)
(* There is one transaction on the connection: COMMIT makes durable what   *)
(* any operation has written so far.  A conversation is the number of its  *)
(* creation, a message is [role, gen, text] (see ChatController).          *)
(***************************************************************************)
EXTENDS Naturals, Sequences

CONSTANTS MaxConvs,    \* bound: conversations ever created
          MaxGens,     \* bound: messages the user sends
          MaxChunks    \* bound: text chunks of one answer

ASSUME ChatConstants ==
    MaxConvs \in Nat \ {0} /\ MaxGens \in Nat \ {0} /\ MaxChunks \in Nat \ {0}

VARIABLES
    db,         \* what the connection sees
    durable,    \* what the last COMMIT left in the file
    ids,        \* history: conversation ids drawn so far (uuid4, never reused)
    missed      \* history: the copies whose recount missed a message (see AsyncRunner)

dbVars == <<db, durable, ids, missed>>

Convs == 1 .. MaxConvs
Gens == 1 .. MaxGens
Message == [role : {"user", "assistant"}, gen : Gens, text : Seq(Gens \X (1 .. MaxChunks))]

(* Tables conversations and messages: total is total_messages, shown in the  *)
(* sidebar are the conversations that are not archived.                     *)
Database == [convs : SUBSET Convs, archived : SUBSET Convs,
             total : [Convs -> Nat], msgs : [Convs -> Seq(Message)]]

EmptyDatabase == [convs |-> {}, archived |-> {},
                  total |-> [c \in Convs |-> 0], msgs |-> [c \in Convs |-> <<>>]]

DbTypeOK == /\ db \in Database /\ durable \in Database /\ ids \in 0 .. MaxConvs
            /\ missed \subseteq Convs

DbInit == db = EmptyDatabase /\ durable = EmptyDatabase /\ ids = 0 /\ missed = {}

-----------------------------------------------------------------------------
(* Statements, as functions of the database they are executed on. *)

InsertConversation(d, c) == [d EXCEPT !.convs = @ \cup {c}]

(* messages.conversation_id REFERENCES conversations(id), foreign_keys = ON. *)
MayInsertMessage(d, c) == c \in d.convs
InsertMessage(d, c, m) == [d EXCEPT !.msgs[c] = Append(@, m)]

(* UPDATE ... SET total_messages = total_messages + 1 WHERE id = ? *)
CountMessage(d, c) == IF c \in d.convs THEN [d EXCEPT !.total[c] = @ + 1] ELSE d

(* Wrong variant: the newest message is not counted. *)
SetTotalOffByOne(d, c, n) == IF c \in d.convs THEN [d EXCEPT !.total[c] = n - 1] ELSE d

(* _recount_conversation(): the count was read by an earlier statement. *)
SetTotal(d, c, n) == IF c \in d.convs THEN [d EXCEPT !.total[c] = n] ELSE d

Archive(d, c) == IF c \in d.convs THEN [d EXCEPT !.archived = @ \cup {c}] ELSE d

(* ON DELETE CASCADE takes the messages along. *)
DeleteConversation(d, c) == [d EXCEPT !.convs = @ \ {c}, !.archived = @ \ {c},
                                      !.total[c] = 0, !.msgs[c] = <<>>]

Listed(d) == d.convs \ d.archived

Commit == durable' = db

(* The process ends: the open transaction is lost. *)
DbRestart == db' = durable /\ UNCHANGED <<durable, ids, missed>>
=============================================================================

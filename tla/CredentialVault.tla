--------------------------- MODULE CredentialVault ---------------------------
(***************************************************************************)
(* security/vault/vault.py, class CredentialVault, as the routes of        *)
(* api/routes/vault.py use it: each request is a task of one event loop,   *)
(* and gives way to the others at every database call.                     *)
(*                                                                         *)
(* The database holds the vault_id (0 while there is none), per credential *)
(* the key its secret was encrypted with, and the credentials that are     *)
(* marked deleted.  A connection that has written holds the write lock of  *)
(* the file until it commits.  A key is determined by the password and by  *)
(* the salt, that is the vault_id, it was derived from.                    *)
(***************************************************************************)
EXTENDS AuditLog

CONSTANTS Tasks,         \* the requests that can be in progress together
          Passwords,     \* what the user may type
          MaxCalls,      \* bound: requests made, and credentials added at most
          MaxCrashes     \* bound: crashes

(* A credential is the number of its addition.  A request may also name an   *)
(* id that no credential has; Unknown stands for all of those, since nobody *)
(* can name a uuid that is yet to be drawn.                                 *)
Unknown == MaxCalls + 1
Ids == 1 .. Unknown

ASSUME VaultConstants ==
    /\ MaxCalls \in Nat /\ MaxCrashes \in Nat /\ Passwords # {}
    /\ Events = {"unlocked", "locked"} \X {0}
                \cup {"added", "accessed", "deleted", "updated"} \X Ids

VARIABLES
    db,         \* _db: the number of the connection, 0 for None
    vaultId,    \* _vault_id, 0 for ""
    key,        \* _key: which of the key objects, 0 for None
    timer,      \* the auto-lock task sleeps
    keys,       \* the key objects derived so far
    store,      \* the committed database
    work,       \* the database as the connection that holds the write lock sees it
    writer,     \* that connection, 0 for none
    task,       \* per request: what it does, where it is and its local variables
    calls, conns, drawn, added, crashes,  \* history, bounded: requests, connections, ids
    raced,      \* history: a request came while another one was opening the database
    badTags     \* history: the decryptions that failed

vaultVars == <<db, vaultId, key, timer, keys>>
fileVars == <<store, work, writer>>
countVars == <<calls, conns, drawn, added, crashes>>
vars == <<auditVars, vaultVars, fileVars, task, countVars, raced, badTags>>

Key == [password : Passwords, salt : Nat, zeroed : BOOLEAN]
Database == [id : Nat, by : [Ids -> Nat], deleted : SUBSET Ids]
Ops == {"none", "unlock", "list", "add", "get", "update", "delete"}
Places == {"idle", "connect", "select", "insert", "decrypt", "write", "commit", "finish"}

(* key is the local variable of that name, secret the key of the row read,   *)
(* or the id drawn; locked a history variable: the vault was locked during  *)
(* the request.                                                            *)
Task == [op : Ops, at : Places, password : Passwords, cred : {0} \cup Ids, conn : Nat,
         key : Nat, secret : Nat, locked : BOOLEAN]

Idle == [op |-> "none", at |-> "idle", password |-> CHOOSE p \in Passwords : TRUE, cred |-> 0,
         conn |-> 0, key |-> 0, secret |-> 0, locked |-> FALSE]

VaultTypeOK == db \in Nat /\ vaultId \in Nat /\ key \in Nat /\ timer \in BOOLEAN
               /\ keys \in Seq(Key)
FileTypeOK == store \in Database /\ work \in Database /\ writer \in Nat
TaskTypeOK == task \in [Tasks -> Task]
CountTypeOK == calls \in 0 .. MaxCalls /\ conns \in Nat /\ drawn \in Nat
               /\ added \in 0 .. calls /\ crashes \in 0 .. MaxCrashes
GhostTypeOK == raced \in BOOLEAN
               /\ badTags \subseteq [key : Nat, secret : Nat, locked : BOOLEAN]

TypeOK == AuditTypeOK /\ VaultTypeOK /\ FileTypeOK /\ TaskTypeOK /\ CountTypeOK /\ GhostTypeOK

Empty == [id |-> 0, by |-> [c \in Ids |-> 0], deleted |-> {}]

Init ==
    /\ AuditInit
    /\ db = 0 /\ vaultId = 0 /\ key = 0 /\ timer = FALSE /\ keys = <<>>
    /\ store = Empty /\ work = Empty /\ writer = 0
    /\ task = [t \in Tasks |-> Idle]
    /\ calls = 0 /\ conns = 0 /\ drawn = 0 /\ added = 0 /\ crashes = 0
    /\ raced = FALSE /\ badTags = {}

-----------------------------------------------------------------------------
(* SQLite, and the steps of a request. *)

Seen(c) == IF writer = c THEN work ELSE store
MayWrite(c) == writer \in {0, c}
WriteTo(c, d) == writer' = c /\ work' = d /\ UNCHANGED store

Commit(c) ==
    IF writer = c THEN store' = work /\ writer' = 0 /\ UNCHANGED work
                  ELSE UNCHANGED fileVars

OpensNow(u) == u.op = "unlock" /\ u.at # "idle"

Call(t, u) ==
    /\ task[t] = Idle
    /\ calls < MaxCalls /\ calls' = calls + 1
    /\ task' = [task EXCEPT ![t] = u]
    /\ raced' = (raced \/ \E o \in Tasks : OpensNow(task[o]))

At(t, place) == task[t].at = place
Goto(t, place) == task' = [task EXCEPT ![t].at = place]
Return(t) == task' = [task EXCEPT ![t] = Idle]

(* Wrong variant: a sleeping auto-lock task is cancelled, but not replaced. *)
ResetLockTimerCancels == timer' = ~timer

ResetLockTimer == timer' = TRUE

(* Wrong variant: the key of the session so far is zeroed. *)
DeriveZeroesOld(p) ==
    /\ keys' = Append([k \in DOMAIN keys |-> [keys[k] EXCEPT !.zeroed = TRUE]],
                      [password |-> p, salt |-> vaultId, zeroed |-> FALSE])
    /\ key' = Len(keys) + 1
    /\ ResetLockTimer
    /\ Record(<<"unlocked", 0>>)

(* The end of unlock(): the key is derived, whatever the password. *)
Derive(p) ==
    /\ keys' = Append(keys, [password |-> p, salt |-> vaultId, zeroed |-> FALSE])
    /\ key' = Len(keys) + 1
    /\ ResetLockTimer
    /\ Record(<<"unlocked", 0>>)

(* unlock() *)
Unlock(t, p) ==
    \/ /\ db # 0
       /\ Call(t, Idle)
       /\ Derive(p)
       /\ UNCHANGED <<db, vaultId, fileVars, conns, drawn, added, crashes, badTags>>
    \/ /\ db = 0
       /\ Call(t, [Idle EXCEPT !.op = "unlock", !.at = "connect", !.password = p])
       /\ UNCHANGED <<auditVars, vaultVars, fileVars, conns, drawn, added, crashes, badTags>>

(* _open_db(): the connection is made; the schema is applied. *)
Connect(t) ==
    /\ At(t, "connect")
    /\ conns' = conns + 1 /\ db' = conns + 1
    /\ Goto(t, "select")
    /\ UNCHANGED <<auditVars, vaultId, key, timer, keys, fileVars, calls, drawn, added, crashes,
                   raced, badTags>>

(* Wrong variant: the vault_id that was read is not kept. *)
SelectIdForgets(t) ==
    /\ At(t, "select") /\ task[t].op = "unlock"
    /\ \/ /\ Seen(db).id # 0
          /\ Goto(t, "commit")
          /\ UNCHANGED <<vaultId, drawn>>
       \/ /\ Seen(db).id = 0
          /\ drawn' = drawn + 1 /\ vaultId' = drawn + 1
          /\ task' = [task EXCEPT ![t].at = "insert", ![t].secret = drawn + 1]
    /\ UNCHANGED <<auditVars, db, key, timer, keys, fileVars, calls, conns, added, crashes,
                   raced, badTags>>

(* SELECT the vault_id; without one a new one is drawn. *)
SelectId(t) ==
    /\ At(t, "select") /\ task[t].op = "unlock"
    /\ \/ /\ Seen(db).id # 0
          /\ vaultId' = Seen(db).id
          /\ Goto(t, "commit")
          /\ UNCHANGED drawn
       \/ /\ Seen(db).id = 0
          /\ drawn' = drawn + 1 /\ vaultId' = drawn + 1
          /\ task' = [task EXCEPT ![t].at = "insert", ![t].secret = drawn + 1]
    /\ UNCHANGED <<auditVars, db, key, timer, keys, fileVars, calls, conns, added, crashes,
                   raced, badTags>>

(* Wrong variant: an id that is there by now is replaced. *)
InsertIdReplaces(t) ==
    /\ At(t, "insert")
    /\ \/ /\ MayWrite(db)
          /\ WriteTo(db, [Seen(db) EXCEPT !.id = task[t].secret])
          /\ Goto(t, "commit")
       \/ /\ ~MayWrite(db)
          /\ Return(t)
          /\ UNCHANGED fileVars
    /\ UNCHANGED <<auditVars, vaultVars, countVars, raced, badTags>>

(* INSERT it.  The statement fails when there is one by now, but leaves its   *)
(* transaction open; it times out when another connection holds the lock.   *)
InsertId(t) ==
    /\ At(t, "insert")
    /\ \/ /\ MayWrite(db) /\ Seen(db).id = 0
          /\ WriteTo(db, [Seen(db) EXCEPT !.id = task[t].secret])
          /\ Goto(t, "commit")
       \/ /\ MayWrite(db) /\ Seen(db).id # 0
          /\ WriteTo(db, Seen(db))
          /\ Return(t)
       \/ /\ ~MayWrite(db)
          /\ Return(t)
          /\ UNCHANGED fileVars
    /\ UNCHANGED <<auditVars, vaultVars, countVars, raced, badTags>>

CommitId(t) ==
    /\ At(t, "commit") /\ task[t].op = "unlock"
    /\ Commit(db)
    /\ Goto(t, "finish")
    /\ UNCHANGED <<auditVars, vaultVars, countVars, raced, badTags>>

FinishUnlock(t) ==
    /\ At(t, "finish") /\ task[t].op = "unlock"
    /\ Derive(task[t].password)
    /\ Return(t)
    /\ UNCHANGED <<db, vaultId, fileVars, countVars, raced, badTags>>

(* lock(), asked for or by the auto-lock task. *)
LockNow ==
    /\ keys' = IF key = 0 THEN keys ELSE [keys EXCEPT ![key].zeroed = TRUE]
    /\ key' = 0
    /\ timer' = FALSE
    /\ Record(<<"locked", 0>>)
    /\ UNCHANGED <<db, vaultId, fileVars, conns, drawn, added, crashes, badTags>>

Marked == [t \in Tasks |-> IF task[t] = Idle THEN Idle ELSE [task[t] EXCEPT !.locked = TRUE]]

Lock ==
    /\ calls < MaxCalls /\ calls' = calls + 1
    /\ LockNow
    /\ task' = Marked
    /\ UNCHANGED raced

AutoLock ==
    /\ timer /\ key # 0
    /\ LockNow
    /\ task' = Marked
    /\ UNCHANGED <<calls, raced>>

-----------------------------------------------------------------------------
(* The requests to an unlocked vault; on a locked one they fail at once.    *)

Start(t, op, place, c) ==
    /\ key # 0 /\ db # 0
    /\ ResetLockTimer
    /\ Call(t, [Idle EXCEPT !.op = op, !.at = place, !.cred = c, !.conn = db, !.key = key])
    /\ UNCHANGED <<db, vaultId, key, keys, fileVars, conns, drawn, crashes, badTags>>

(* The ids a request can name: of a credential that is stored, of one that   *)
(* waits for its COMMIT, and any other.  Neither get() nor update() nor     *)
(* delete() asks whether there is such a credential.                        *)
Rows(d) == {c \in Ids : d.by[c] # 0}
Nameable == Rows(store) \cup Rows(work) \cup {Unknown}

(* list_all(), search(), health_report() *)
List(t) == Start(t, "list", "select", 0) /\ UNCHANGED <<auditVars, added>>

(* add(): the secret is encrypted before the first database call. *)
Add(t) ==
    /\ Start(t, "add", "write", added + 1)
    /\ added' = added + 1
    /\ UNCHANGED auditVars

Get(t, c) ==
    /\ c \in Nameable
    /\ Start(t, "get", "select", c)
    /\ Record(<<"accessed", c>>)
    /\ UNCHANGED added

Update(t, c) ==
    /\ c \in Nameable
    /\ Start(t, "update", "write", c)
    /\ UNCHANGED <<auditVars, added>>

(* Wrong variant: the deletion is not logged. *)
DeleteUnlogged(t, c) ==
    /\ c \in Nameable
    /\ Start(t, "delete", "write", c)
    /\ UNCHANGED <<auditVars, added>>

Delete(t, c) ==
    /\ c \in Nameable
    /\ Start(t, "delete", "write", c)
    /\ Record(<<"deleted", c>>)
    /\ UNCHANGED added

Found(u) == u.op = "get" /\ Seen(u.conn).by[u.cred] # 0 /\ u.cred \notin Seen(u.conn).deleted

SelectRow(t) ==
    LET u == task[t] IN
    /\ At(t, "select") /\ u.op \in {"list", "get"}
    /\ IF Found(u)
       THEN task' = [task EXCEPT ![t].at = "decrypt", ![t].secret = Seen(u.conn).by[u.cred]]
       ELSE Return(t)
    /\ UNCHANGED <<auditVars, vaultVars, fileVars, countVars, raced, badTags>>

(* The key that was taken before the database was asked, as it is now. *)
Decrypts(k, s) ==
    /\ ~keys[k].zeroed
    /\ keys[k].password = keys[s].password /\ keys[k].salt = keys[s].salt

Decrypt(t) ==
    LET u == task[t] IN
    /\ At(t, "decrypt")
    /\ \/ /\ Decrypts(u.key, u.secret)
          /\ Goto(t, "write")
          /\ UNCHANGED badTags
       \/ /\ ~Decrypts(u.key, u.secret)
          /\ badTags' = badTags \cup {[key |-> u.key, secret |-> u.secret, locked |-> u.locked]}
          /\ Return(t)
    /\ UNCHANGED <<auditVars, vaultVars, fileVars, countVars, raced>>

(* What the statement of add(), get(), update() or delete() changes; the      *)
(* columns get() and update() write are not modelled.  An UPDATE of an       *)
(* unknown id matches no row, and succeeds.                                 *)
Changed(d, u) ==
    CASE u.op = "add" -> [d EXCEPT !.by[u.cred] = u.key]
      [] u.op = "delete" -> [d EXCEPT !.deleted = @ \cup (Rows(d) \cap {u.cred})]
      [] OTHER -> d

(* Wrong variants: the statement is not committed; a request that found the  *)
(* file locked is left where no step takes it on.                          *)
WriteUncommitted(t) ==
    LET u == task[t] IN
    /\ At(t, "write")
    /\ \/ /\ MayWrite(u.conn)
          /\ WriteTo(u.conn, Changed(Seen(u.conn), u))
          /\ Goto(t, "finish")
       \/ /\ ~MayWrite(u.conn)
          /\ Return(t)
          /\ UNCHANGED fileVars
    /\ UNCHANGED <<auditVars, vaultVars, countVars, raced, badTags>>

WriteRetries(t) ==
    LET u == task[t] IN
    /\ At(t, "write")
    /\ \/ /\ MayWrite(u.conn)
          /\ WriteTo(u.conn, Changed(Seen(u.conn), u))
          /\ Goto(t, "commit")
       \/ /\ ~MayWrite(u.conn)
          /\ Goto(t, "retry")
          /\ UNCHANGED fileVars
    /\ UNCHANGED <<auditVars, vaultVars, countVars, raced, badTags>>

Write(t) ==
    LET u == task[t] IN
    /\ At(t, "write")
    /\ \/ /\ MayWrite(u.conn)
          /\ WriteTo(u.conn, Changed(Seen(u.conn), u))
          /\ Goto(t, "commit")
       \/ /\ ~MayWrite(u.conn)
          /\ Return(t)
          /\ UNCHANGED fileVars
    /\ UNCHANGED <<auditVars, vaultVars, countVars, raced, badTags>>

CommitRow(t) ==
    /\ At(t, "commit") /\ task[t].op # "unlock"
    /\ Commit(task[t].conn)
    /\ Goto(t, "finish")
    /\ UNCHANGED <<auditVars, vaultVars, countVars, raced, badTags>>

(* Wrong variant: additions and updates are not logged. *)
FinishUnlogged(t) ==
    /\ At(t, "finish") /\ task[t].op # "unlock"
    /\ Return(t)
    /\ UNCHANGED <<auditVars, vaultVars, fileVars, countVars, raced, badTags>>

(* add() and update() are logged now, get() and delete() were before. *)
Finish(t) ==
    LET u == task[t] IN
    /\ At(t, "finish") /\ u.op # "unlock"
    /\ Return(t)
    /\ CASE u.op = "add" -> Record(<<"added", u.cred>>)
         [] u.op = "update" -> Record(<<"updated", u.cred>>)
         [] OTHER -> UNCHANGED auditVars
    /\ UNCHANGED <<vaultVars, fileVars, countVars, raced, badTags>>

-----------------------------------------------------------------------------
(* The process ends and starts again: key objects, connections and their     *)
(* uncommitted writes are gone.                                             *)
ProcessEnds ==
    /\ db' = 0 /\ vaultId' = 0 /\ key' = 0 /\ timer' = FALSE
    /\ keys' = [k \in DOMAIN keys |-> [keys[k] EXCEPT !.zeroed = TRUE]]
    /\ work' = store /\ writer' = 0 /\ UNCHANGED store
    /\ task' = [t \in Tasks |-> Idle]
    /\ UNCHANGED <<conns, drawn, added, badTags>>

(* The application's shutdown: close() locks and closes the database, when   *)
(* the requests have been served.                                          *)
Shutdown ==
    /\ calls < MaxCalls /\ calls' = calls + 1
    /\ db # 0 /\ \A t \in Tasks : task[t] = Idle
    /\ WriteLine(NewLine(EnsureInitialized, <<"locked", 0>>)) /\ head' = Fresh
    /\ ProcessEnds
    /\ UNCHANGED <<crashes, raced>>

(* A crash, perhaps while a line of the log is written. *)
Crash ==
    /\ crashes < MaxCrashes /\ crashes' = crashes + 1
    /\ db # 0
    /\ AuditRestart \/ AuditTorn
    /\ ProcessEnds
    /\ UNCHANGED <<calls, raced>>

Request(t) ==
    \/ \E p \in Passwords : Unlock(t, p)
    \/ List(t) \/ Add(t)
    \/ \E c \in Ids : Get(t, c) \/ Update(t, c) \/ Delete(t, c)

Step(t) ==
    \/ Connect(t) \/ SelectId(t) \/ InsertId(t) \/ CommitId(t) \/ FinishUnlock(t)
    \/ SelectRow(t) \/ Decrypt(t) \/ Write(t) \/ CommitRow(t) \/ Finish(t)

Next ==
    \/ \E t \in Tasks : Request(t) \/ Step(t)
    \/ Lock \/ AutoLock \/ Shutdown \/ Crash

Spec == Init /\ [][Next]_vars

(* The auto-lock task's sleep ends, if it is not cancelled. *)
FairSpec == Spec /\ WF_vars(AutoLock)

-----------------------------------------------------------------------------
(* Properties. *)

Quiet == \A t \in Tasks : task[t] = Idle
LogIsWhole == \A i \in DOMAIN file : file[i].state = "whole"

(* Whatever is stored, and whatever the session will store, can be read in a *)
(* later session with the same password: it is encrypted with a key from the*)
(* stored vault_id, unless a request came while the database was opened.     *)
SecretsStayReadable ==
    ~raced =>
        /\ \A c \in Ids : store.by[c] # 0 => /\ keys[store.by[c]].salt = store.id
                                            /\ store.id # 0
        /\ key # 0 => keys[key].salt = store.id

(* When no request is in progress nothing is left uncommitted, whatever      *)
(* failed, so that a crash then loses nothing and nobody is locked out.      *)
NothingLeftUncommitted == Quiet /\ ~raced => writer = 0 /\ work = store

(* When no request is in progress the credentials the database holds are    *)
(* those whose addition is logged, and of them are deleted those whose      *)
(* deletion is logged.  The log may also name deletions of unknown ids.     *)
LogMatchesStore ==
    Quiet /\ ~raced /\ crashes = 0 =>
        \A c \in Ids :
            /\ c \in Rows(store) <=> Logged(<<"added", c>>)
            /\ c \in store.deleted <=> c \in Rows(store) /\ Logged(<<"deleted", c>>)

(* A deletion is in the log before it is in the database, also after a crash.*)
DeletionsAreLogged ==
    LogIsWhole => \A c \in store.deleted \cup work.deleted : Logged(<<"deleted", c>>)

(* The chain verifies after any number of restarts, and after a crash that   *)
(* has not torn a line.                                                    *)
LogVerifies == LogIsWhole => Verified

(* A secret that was stored can be decrypted by a request of a session with  *)
(* the same password unless the vault was locked while the request waited.   *)
BadTagsAreExcused ==
    ~raced => \A b \in badTags : b.locked \/ keys[b.key].password # keys[b.secret].password

(* Whatever overlaps, first unlocks included, and wherever the process ends: *)
(* what is stored is never replaced or taken back, the vault_id included;   *)
(* and when an addition, or the deletion of a credential there is, goes on   *)
(* behind its COMMIT, on however old a connection, it is stored.            *)
Keeps(d, e) == /\ d.id \in {0, e.id} /\ d.deleted \subseteq e.deleted
               /\ \A c \in Ids : d.by[c] \in {0, e.by[c]}
Holds(d, u) == /\ u.op = "add" => d.by[u.cred] = u.key
               /\ u.op = "delete" => u.cred \in d.deleted \cup {Unknown}
StoreKeeps ==
    /\ Keeps(store, store')
    /\ \A t \in Tasks : At(t, "commit") /\ At(t, "finish")' => Holds(store', task[t])
StoredForGood == [][StoreKeeps]_vars

(* An unlocked vault locks itself, once it is left alone. *)
LocksItself == key # 0 ~> key = 0
=============================================================================

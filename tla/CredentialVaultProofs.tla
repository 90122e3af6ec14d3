------------------------ MODULE CredentialVaultProofs ------------------------
(***************************************************************************)
(* Facts of the credential vault and of its audit log that hold for any    *)
(* number of requests at a time, of passwords, calls and crashes.          *)
(***************************************************************************)
EXTENDS CredentialVault, TLAPS

LEMMA Constants ==
  /\ MaxCalls \in Nat /\ MaxCrashes \in Nat
  /\ <<"unlocked", 0>> \in Events /\ <<"locked", 0>> \in Events
  /\ \A c \in Ids : /\ <<"added", c>> \in Events /\ <<"accessed", c>> \in Events
                    /\ <<"deleted", c>> \in Events /\ <<"updated", c>> \in Events
BY VaultConstants

-----------------------------------------------------------------------------
(* The audit log.  Every step of the vault writes a line with or without    *)
(* forgetting the head, ends the process, or leaves the log alone.          *)
AuditStep ==
    \/ \E e \in Events : WriteLine(NewLine(EnsureInitialized, e))
                         /\ head' \in {Fresh, [initialized |-> TRUE,
                                               seq |-> EnsureInitialized.seq + 1,
                                               hash |-> NewLine(EnsureInitialized, e).hash]}
    \/ AuditRestart \/ AuditTorn
    \/ UNCHANGED auditVars

LEMMA RecordSteps ==
  ASSUME NEW e \in Events, Record(e)
  PROVE  AuditStep
BY DEF Record, AuditStep, NewLine

LEMMA HeadTypes ==
  ASSUME AuditTypeOK
  PROVE  EnsureInitialized \in Head1
<1>1. <<>> \in Links
  BY DEF Links
<1>2. Readable => LastLine \in Line
  BY DEF AuditTypeOK, Readable, LastLine
<1>3. Readable => LastLine.seq + 1 \in Nat /\ LastLine.hash \in Links
  BY <1>2 DEF Line
<1> QED BY <1>1, <1>3 DEF EnsureInitialized, AuditTypeOK, Head1, Fresh

LEMMA LineTypes ==
  ASSUME NEW h \in Head1, NEW e \in Events
  PROVE  NewLine(h, e) \in Line
<1>1. h.seq \in Nat /\ h.hash \in Links
  BY DEF Head1
<1>2. Append(h.hash, <<h.seq, e>>) \in Links
  BY <1>1 DEF Links
<1> QED BY <1>1, <1>2 DEF NewLine, Line

LEMMA AuditTypes ==
  ASSUME AuditTypeOK, AuditStep
  PROVE  AuditTypeOK'
<1>1. file \in Seq(Line) /\ <<>> \in Links
  BY DEF AuditTypeOK, Links
<1>2. Fresh \in Head1
  BY <1>1 DEF Fresh, Head1
<1>3. Open => [file EXCEPT ![Len(file)].state = "torn"] \in Seq(Line)
  <2> SUFFICES ASSUME Open PROVE [file EXCEPT ![Len(file)].state = "torn"] \in Seq(Line)
    OBVIOUS
  <2>1. Len(file) \in 1 .. Len(file) /\ file[Len(file)] \in Line
    BY <1>1 DEF Open
  <2>2. [file[Len(file)] EXCEPT !.state = "torn"] \in Line
    BY <2>1 DEF Line
  <2> QED BY <1>1, <2>1, <2>2
<1>4. ASSUME NEW e \in Events, WriteLine(NewLine(EnsureInitialized, e)),
             head' \in {Fresh, [initialized |-> TRUE, seq |-> EnsureInitialized.seq + 1,
                                hash |-> NewLine(EnsureInitialized, e).hash]}
      PROVE  AuditTypeOK'
  <2>1. EnsureInitialized \in Head1 /\ NewLine(EnsureInitialized, e) \in Line
    BY HeadTypes, LineTypes
  <2>2. file' \in Seq(Line)
    <3>1. CASE Open
      BY <1>3, <1>4, <3>1 DEF WriteLine
    <3>2. CASE ~Open
      <4>1. file' = Append(file, NewLine(EnsureInitialized, e))
        BY <1>4, <3>2 DEF WriteLine
      <4> QED BY <1>1, <2>1, <4>1
    <3> QED BY <3>1, <3>2
  <2>3. EnsureInitialized.seq + 1 \in Nat
    BY <2>1 DEF Head1
  <2>4. NewLine(EnsureInitialized, e).hash \in Links
    BY <2>1 DEF Line
  <2>5. \A n \in Nat, h \in Links : [initialized |-> TRUE, seq |-> n, hash |-> h] \in Head1
    BY DEF Head1
  <2>6. head' \in Head1
    BY <1>2, <1>4, <2>3, <2>4, <2>5
  <2> QED BY <2>2, <2>6 DEF AuditTypeOK
<1>5. CASE AuditTorn
  <2>1. (CHOOSE e \in Events : TRUE) \in Events
    BY Constants
  <2>2. [state |-> "open", seq |-> 0, event |-> CHOOSE e \in Events : TRUE,
         prev |-> <<>>, hash |-> <<>>] \in Line
    BY <1>1, <2>1 DEF Line
  <2> QED BY <1>1, <1>2, <1>5, <2>2 DEF AuditTorn, AuditTypeOK
<1>6. CASE AuditRestart \/ UNCHANGED auditVars
  BY <1>2, <1>6 DEF AuditRestart, auditVars, AuditTypeOK
<1> QED BY <1>4, <1>5, <1>6 DEF AuditStep

(* What the object remembers is the hash of the last line: with it the next  *)
(* line continues the chain, whichever object writes it.                    *)
TipHash == IF file = <<>> THEN <<>> ELSE LastLine.hash
HeadIsTip == LogIsWhole => Verified /\ (head.initialized => head.hash = TipHash)

(* A line that was damaged stays so; a log that is whole after a step was    *)
(* whole before, and has all its lines still.                               *)
LEMMA WholeStays ==
  ASSUME AuditTypeOK, AuditStep, LogIsWhole'
  PROVE  /\ LogIsWhole
         /\ \/ file' = file /\ (head' = head \/ head' = Fresh)
            \/ \E e \in Events : LET l == NewLine(EnsureInitialized, e) IN
                  /\ file' = Append(file, l)
                  /\ head' \in {Fresh, [initialized |-> TRUE, seq |-> EnsureInitialized.seq + 1,
                                        hash |-> l.hash]}
<1>1. file \in Seq(Line)
  BY DEF AuditTypeOK
<1>2. ASSUME NEW l \in Line, file' = Append(file, l) PROVE LogIsWhole /\ l.state = "whole"
  <2>1. /\ \A i \in DOMAIN file : i \in DOMAIN file' /\ file'[i] = file[i]
        /\ Len(file) + 1 \in DOMAIN file' /\ file'[Len(file) + 1] = l
    BY <1>1, <1>2
  <2> QED BY <2>1 DEF LogIsWhole
<1>3. Open => file' # [file EXCEPT ![Len(file)].state = "torn"]
  <2> SUFFICES ASSUME Open, file' = [file EXCEPT ![Len(file)].state = "torn"] PROVE FALSE
    OBVIOUS
  <2>1. Len(file) \in DOMAIN file /\ DOMAIN file' = DOMAIN file
    BY <1>1 DEF Open
  <2>2. file[Len(file)] \in Line
    BY <1>1, <2>1
  <2>3. file'[Len(file)].state = "torn"
    BY <2>1, <2>2 DEF Line
  <2> QED BY <2>1, <2>3 DEF LogIsWhole
<1>4. Open => ~(file' = file)
  <2>1. Open => Len(file) \in DOMAIN file
    BY <1>1 DEF Open
  <2> QED BY <2>1 DEF Open, LogIsWhole, LastLine
<1>5. ASSUME NEW e \in Events, WriteLine(NewLine(EnsureInitialized, e))
      PROVE  file' = Append(file, NewLine(EnsureInitialized, e)) /\ LogIsWhole
  <2>1. NewLine(EnsureInitialized, e) \in Line
    BY HeadTypes, LineTypes
  <2> QED BY <1>2, <1>3, <1>5, <2>1 DEF WriteLine
<1>6. ~AuditTorn
  <2>1. (CHOOSE e \in Events : TRUE) \in Events /\ <<>> \in Links
    BY Constants DEF Links
  <2> DEFINE l == [state |-> "open", seq |-> 0, event |-> CHOOSE e \in Events : TRUE,
                   prev |-> <<>>, hash |-> <<>>]
  <2>2. l \in Line /\ l.state = "open"
    BY <2>1 DEF Line
  <2> HIDE DEF l
  <2>3. file' # Append(file, l)
    BY <1>2, <2>2
  <2> QED BY <1>4, <2>3 DEF AuditTorn, l
<1>7. CASE AuditRestart \/ UNCHANGED auditVars
  BY <1>7 DEF AuditRestart, auditVars, LogIsWhole
<1> QED BY <1>5, <1>6, <1>7 DEF AuditStep

LEMMA HeadIsTipStep ==
  ASSUME AuditTypeOK, HeadIsTip, AuditStep
  PROVE  HeadIsTip'
<1> SUFFICES ASSUME LogIsWhole' PROVE Verified' /\ (head'.initialized => head'.hash = TipHash')
  BY DEF HeadIsTip
<1>1. file \in Seq(Line) /\ LogIsWhole /\ Verified /\ (head.initialized => head.hash = TipHash)
  BY WholeStays DEF AuditTypeOK, HeadIsTip
<1>2. CASE file' = file /\ (head' = head \/ head' = Fresh)
  BY <1>1, <1>2 DEF Verified, TipHash, LastLine, Fresh
<1>3. ASSUME NEW e \in Events,
             file' = Append(file, NewLine(EnsureInitialized, e)),
             head' \in {Fresh, [initialized |-> TRUE, seq |-> EnsureInitialized.seq + 1,
                                hash |-> NewLine(EnsureInitialized, e).hash]}
      PROVE  Verified' /\ (head'.initialized => head'.hash = TipHash')
  <2> DEFINE l == NewLine(EnsureInitialized, e)
             n == Len(file)
  <2>1. EnsureInitialized.hash = TipHash
    <3>1. file # <<>> => LastLine.state = "whole"
      BY <1>1 DEF LogIsWhole, LastLine
    <3> QED BY <1>1, <3>1 DEF EnsureInitialized, Readable, TipHash, Fresh
  <2>2. l.prev = TipHash /\ l.state = "whole"
    BY <2>1 DEF NewLine
  <2> HIDE DEF l
  <2>3. l \in Line
    BY HeadTypes, LineTypes DEF l
  <2>4. /\ n \in Nat /\ DOMAIN file = 1 .. n /\ DOMAIN file' = 1 .. n + 1
        /\ file' # <<>> /\ Len(file') = n + 1 /\ file'[n + 1] = l
        /\ \A i \in 1 .. n : file'[i] = file[i]
        /\ n = 0 <=> file = <<>>
    BY <1>1, <1>3, <2>3 DEF l
  <2> HIDE DEF n
  <2>5. TipHash' = l.hash
    BY <2>4 DEF TipHash, LastLine
  <2>6. TipHash = IF n = 0 THEN <<>> ELSE file[n].hash
    BY <2>4 DEF TipHash, LastLine, n
  <2>7. ASSUME NEW i \in 1 .. n + 1
        PROVE  /\ file'[i].state = "whole"
               /\ file'[i].prev = IF i = 1 THEN <<>> ELSE file'[i - 1].hash
    <3>1. CASE i = n + 1
      <4>1. n # 0 => n \in 1 .. n
        BY <2>4
      <4> QED BY <2>2, <2>4, <2>6, <3>1, <4>1
    <3>2. CASE i \in 1 .. n
      <4>1. i # 1 => i - 1 \in 1 .. n
        BY <2>4, <3>2
      <4> QED BY <1>1, <2>4, <3>2, <4>1 DEF Verified
    <3> QED BY <2>4, <3>1, <3>2
  <2>8. Verified'
    BY <2>4, <2>7 DEF Verified
  <2> QED BY <1>3, <2>5, <2>8 DEF Fresh, l
<1> QED BY <1>2, <1>3, WholeStays

(* What was logged stays logged while no line is damaged. *)
LEMMA LoggedStays ==
  ASSUME AuditTypeOK, AuditStep, LogIsWhole', NEW e, Logged(e)
  PROVE  Logged(e)'
<1>1. file \in Seq(Line)
  BY DEF AuditTypeOK
<1>2. CASE file' = file
  BY <1>2 DEF Logged
<1>3. ASSUME NEW f \in Events, file' = Append(file, NewLine(EnsureInitialized, f))
      PROVE  Logged(e)'
  <2>1. NewLine(EnsureInitialized, f) \in Line
    BY HeadTypes, LineTypes
  <2>2. \A i \in DOMAIN file : i \in DOMAIN file' /\ file'[i] = file[i]
    BY <1>1, <1>3, <2>1
  <2> QED BY <2>2 DEF Logged
<1> QED BY <1>2, <1>3, WholeStays

LEMMA RecordLogs ==
  ASSUME AuditTypeOK, NEW e \in Events, Record(e), LogIsWhole'
  PROVE  Logged(e)' /\ file' = Append(file, NewLine(EnsureInitialized, e))
<1>1. file \in Seq(Line) /\ LogIsWhole
  BY RecordSteps, WholeStays DEF AuditTypeOK
<1>2. ~Open
  BY <1>1 DEF Open, LogIsWhole, LastLine
<1>3. NewLine(EnsureInitialized, e) \in Line
  BY HeadTypes, LineTypes
<1>4. file' = Append(file, NewLine(EnsureInitialized, e))
  BY <1>2 DEF Record, WriteLine
<1>5. Len(file) + 1 \in DOMAIN file' /\ file'[Len(file) + 1] = NewLine(EnsureInitialized, e)
  BY <1>1, <1>3, <1>4
<1> QED BY <1>4, <1>5 DEF Logged, NewLine

-----------------------------------------------------------------------------
(* Type correctness.  A request about a credential names one. *)
Named == \A t \in Tasks :
    task[t].op \in {"add", "get", "update", "delete"} => task[t].cred \in Ids

Types == TypeOK /\ Named

LEMMA NextAudits ==
  ASSUME Types, Next
  PROVE  AuditStep
<1>1. ASSUME NEW t \in Tasks, Step(t) PROVE AuditStep
  <2>1. CASE FinishUnlock(t)
    BY <2>1, Constants, RecordSteps DEF FinishUnlock, Derive
  <2>2. CASE Finish(t)
    <3>1. task[t].op \in {"add", "update"} => task[t].cred \in Ids
      BY DEF Types, Named
    <3>2. CASE task[t].op = "add"
      BY <2>2, <3>1, <3>2, RecordSteps, Constants DEF Finish
    <3>3. CASE task[t].op = "update"
      BY <2>2, <3>1, <3>3, RecordSteps, Constants DEF Finish
    <3>4. CASE task[t].op \notin {"add", "update"}
      BY <2>2, <3>4 DEF Finish, AuditStep
    <3> QED BY <3>2, <3>3, <3>4
  <2>3. CASE ~FinishUnlock(t) /\ ~Finish(t)
    <3>1. UNCHANGED auditVars
      BY <1>1, <2>3 DEF Step, Connect, SelectId, InsertId, CommitId, SelectRow, Decrypt, Write, CommitRow
    <3> QED BY <3>1 DEF AuditStep
  <2> QED BY <2>1, <2>2, <2>3
<1>2. ASSUME NEW t \in Tasks, Request(t) PROVE AuditStep
  <2>1. CASE \E p \in Passwords : Unlock(t, p)
    BY <2>1, Constants, RecordSteps DEF Unlock, Derive, AuditStep
  <2>2. CASE List(t) \/ Add(t) \/ \E c \in Ids : Update(t, c)
    <3>1. UNCHANGED auditVars
      BY <2>2 DEF List, Add, Update
    <3> QED BY <3>1 DEF AuditStep
  <2>3. CASE \E c \in Ids : Get(t, c) \/ Delete(t, c)
    BY <2>3, Constants, RecordSteps DEF Get, Delete
  <2> QED BY <1>2, <2>1, <2>2, <2>3 DEF Request
<1>3. CASE Lock \/ AutoLock
  BY <1>3, Constants, RecordSteps DEF Lock, AutoLock, LockNow
<1>4. CASE Shutdown \/ Crash
  BY <1>4, Constants DEF Shutdown, Crash, AuditStep
<1> QED BY <1>1, <1>2, <1>3, <1>4 DEF Next

LEMMA IdleTask ==
  /\ Idle \in Task
  /\ Idle.op = "none" /\ Idle.at = "idle" /\ Idle.locked = FALSE
  /\ Idle.cred = 0 /\ Idle.conn = 0 /\ Idle.key = 0 /\ Idle.secret = 0
<1>1. (CHOOSE p \in Passwords : TRUE) \in Passwords
  BY VaultConstants
<1> QED BY <1>1 DEF Idle, Task, Ops, Places

(* What a request is when it begins. *)
LEMMA NewTask ==
  ASSUME NEW op \in Ops, NEW place \in Places, NEW p \in Passwords, NEW c \in {0} \cup Ids,
         NEW d \in Nat, NEW k \in Nat
  PROVE  /\ [Idle EXCEPT !.op = op, !.at = place, !.password = p] \in Task
         /\ [Idle EXCEPT !.op = op, !.at = place, !.cred = c, !.conn = d, !.key = k] \in Task
BY IdleTask DEF Task

(* The other requests stay where they are. *)
LEMMA TaskSteps ==
  ASSUME TaskTypeOK, NEW t \in Tasks, NEW u \in Task, task' = [task EXCEPT ![t] = u]
  PROVE  TaskTypeOK' /\ task'[t] = u /\ \A o \in Tasks : o # t => task'[o] = task[o]
BY DEF TaskTypeOK

LEMMA GotoSteps ==
  ASSUME TaskTypeOK, NEW t \in Tasks, NEW place \in Places, Goto(t, place)
  PROVE  /\ TaskTypeOK' /\ task'[t].at = place
         /\ task'[t].op = task[t].op /\ task'[t].password = task[t].password
         /\ task'[t].cred = task[t].cred /\ task'[t].conn = task[t].conn
         /\ task'[t].key = task[t].key /\ task'[t].secret = task[t].secret
         /\ task'[t].locked = task[t].locked
         /\ \A o \in Tasks : o # t => task'[o] = task[o]
<1> DEFINE u == [task[t] EXCEPT !.at = place]
<1>1. task[t] \in Task
  BY DEF TaskTypeOK
<1>2. u \in Task /\ u.at = place
      /\ u.op = task[t].op /\ u.password = task[t].password
      /\ u.cred = task[t].cred /\ u.conn = task[t].conn /\ u.key = task[t].key
      /\ u.secret = task[t].secret /\ u.locked = task[t].locked
  BY <1>1 DEF Task
<1>3. task' = [task EXCEPT ![t] = u]
  BY DEF Goto
<1> HIDE DEF u
<1>4. TaskTypeOK' /\ task'[t] = u /\ \A o \in Tasks : o # t => task'[o] = task[o]
  BY <1>2, <1>3, TaskSteps
<1> QED BY <1>2, <1>4

LEMMA ReturnSteps ==
  ASSUME TaskTypeOK, NEW t \in Tasks, Return(t)
  PROVE  /\ TaskTypeOK' /\ task'[t] = Idle
         /\ \A o \in Tasks : o # t => task'[o] = task[o]
BY IdleTask, TaskSteps DEF Return

LEMMA CallSteps ==
  ASSUME TaskTypeOK, CountTypeOK, NEW t \in Tasks, NEW u \in Task, Call(t, u)
  PROVE  /\ TaskTypeOK' /\ task'[t] = u
         /\ \A o \in Tasks : o # t => task'[o] = task[o]
         /\ calls' = calls + 1 /\ calls' \in 0 .. MaxCalls /\ raced' \in BOOLEAN
<1>1. calls' \in 0 .. MaxCalls
  BY Constants DEF Call, CountTypeOK
<1> QED BY <1>1, TaskSteps DEF Call

LEMMA MarkedSteps ==
  ASSUME TaskTypeOK, task' = Marked
  PROVE  /\ TaskTypeOK'
         /\ \A o \in Tasks : task'[o] = task[o] \/ task'[o] = [task[o] EXCEPT !.locked = TRUE]
         /\ \A o \in Tasks : task[o].op # "none" => task'[o].locked = TRUE
         /\ \A o \in Tasks : task[o] = Idle => task'[o] = Idle
         /\ \A o \in Tasks : /\ task'[o].op = task[o].op /\ task'[o].at = task[o].at
                             /\ task'[o].conn = task[o].conn /\ task'[o].key = task[o].key
                             /\ task'[o].secret = task[o].secret
<1>1. \A o \in Tasks : task[o] \in Task
  BY DEF TaskTypeOK
<1>2. \A u \in Task : [u EXCEPT !.locked = TRUE] \in Task /\ [u EXCEPT !.locked = TRUE].locked = TRUE
  BY DEF Task
<1> HIDE DEF Task
<1>3. \A o \in Tasks : \/ task'[o] = Idle /\ task[o] = Idle
                       \/ task'[o] = [task[o] EXCEPT !.locked = TRUE]
  BY DEF Marked
<1>4. DOMAIN task' = Tasks /\ task' = [o \in Tasks |-> task'[o]]
  BY DEF Marked
<1>5. \A o \in Tasks : task'[o] \in Task
  BY <1>1, <1>2, <1>3, IdleTask
<1>6. TaskTypeOK'
  BY <1>4, <1>5 DEF TaskTypeOK
<1>7. \A u \in Task : LET v == [u EXCEPT !.locked = TRUE] IN
        v.op = u.op /\ v.at = u.at /\ v.conn = u.conn /\ v.key = u.key /\ v.secret = u.secret
  BY DEF Task
<1>8. \A o \in Tasks : task[o] = Idle => task'[o] = Idle
  BY DEF Marked
<1>9. \A o \in Tasks : task[o].op # "none" => task'[o].locked = TRUE
  BY <1>1, <1>2, <1>3, IdleTask
<1>10. \A o \in Tasks : /\ task'[o].op = task[o].op /\ task'[o].at = task[o].at
                        /\ task'[o].conn = task[o].conn /\ task'[o].key = task[o].key
                        /\ task'[o].secret = task[o].secret
  BY ZenonT(30), <1>1, <1>3, <1>7
<1>11. \A o \in Tasks : task'[o] = task[o] \/ task'[o] = [task[o] EXCEPT !.locked = TRUE]
  BY <1>3
<1> QED BY <1>6, <1>8, <1>9, <1>10, <1>11

LEMMA DeriveTypes ==
  ASSUME VaultTypeOK, NEW p \in Passwords, Derive(p), UNCHANGED <<db, vaultId>>
  PROVE  VaultTypeOK'
<1>1. [password |-> p, salt |-> vaultId, zeroed |-> FALSE] \in Key
  BY DEF VaultTypeOK, Key
<1> QED BY <1>1 DEF VaultTypeOK, Derive, ResetLockTimer

LEMMA SeenTypes ==
  ASSUME FileTypeOK
  PROVE  \A c : Seen(c) \in Database
BY DEF FileTypeOK, Seen

LEMMA FileSteps ==
  ASSUME FileTypeOK, NEW c \in Nat, NEW d \in Database, WriteTo(c, d) \/ Commit(c) \/ UNCHANGED fileVars
  PROVE  FileTypeOK'
BY DEF FileTypeOK, WriteTo, Commit, fileVars

(* The parts that an action leaves alone. *)
LEMMA TypesKept ==
  /\ VaultTypeOK /\ UNCHANGED vaultVars => VaultTypeOK'
  /\ FileTypeOK /\ UNCHANGED fileVars => FileTypeOK'
  /\ CountTypeOK /\ UNCHANGED countVars => CountTypeOK'
  /\ GhostTypeOK /\ UNCHANGED <<raced, badTags>> => GhostTypeOK'
BY DEF vaultVars, VaultTypeOK, fileVars, FileTypeOK, countVars, CountTypeOK, GhostTypeOK

VaultParts == VaultTypeOK /\ FileTypeOK /\ TaskTypeOK /\ CountTypeOK /\ GhostTypeOK /\ Named

LEMMA StepNamed ==
  ASSUME VaultParts, NEW t \in Tasks, NEW place \in Places, Goto(t, place) \/ Return(t)
  PROVE  TaskTypeOK' /\ Named'
<1>1. CASE Goto(t, place)
  BY <1>1, GotoSteps DEF VaultParts, Named
<1>2. CASE Return(t)
  <2>1. Idle.op \notin {"add", "get", "update", "delete"}
    BY IdleTask
  <2> QED BY <1>2, <2>1, ReturnSteps DEF VaultParts, Named
<1> QED BY <1>1, <1>2

LEMMA UnlockTypes ==
  ASSUME VaultParts, NEW t \in Tasks, NEW p \in Passwords, Unlock(t, p)
  PROVE  VaultParts'
<1> USE DEF VaultParts
<1>1. CASE db # 0
  <2>1. Call(t, Idle) /\ Derive(p) /\ UNCHANGED <<db, vaultId, fileVars, conns, drawn, added, crashes, badTags>>
    BY <1>1 DEF Unlock
  <2>2. VaultTypeOK' /\ FileTypeOK'
    BY <2>1, DeriveTypes, TypesKept
  <2>3. TaskTypeOK' /\ Named'
    BY <2>1, CallSteps, IdleTask DEF Named
  <2>4. CountTypeOK' /\ GhostTypeOK'
    BY <2>1, CallSteps, IdleTask DEF CountTypeOK, GhostTypeOK
  <2> QED BY <2>2, <2>3, <2>4
<1>2. CASE db = 0
  <2> DEFINE u == [Idle EXCEPT !.op = "unlock", !.at = "connect", !.password = p]
  <2>1. u \in Task /\ u.op = "unlock"
    <3>1. "unlock" \in Ops /\ "connect" \in Places /\ 0 \in {0} \cup Ids /\ 0 \in Nat
      BY DEF Ops, Places
    <3>2. u \in Task
      BY <3>1, NewTask
    <3> QED BY <3>2, IdleTask DEF Task
  <2>2. Call(t, u) /\ UNCHANGED <<vaultVars, fileVars, conns, drawn, added, crashes, badTags>>
    BY <1>2 DEF Unlock
  <2> HIDE DEF u
  <2>3. VaultTypeOK' /\ FileTypeOK'
    BY <2>2, TypesKept
  <2>4. TaskTypeOK' /\ Named'
    BY <2>1, <2>2, CallSteps DEF Named
  <2>5. CountTypeOK' /\ GhostTypeOK'
    BY <2>1, <2>2, CallSteps DEF CountTypeOK, GhostTypeOK
  <2> QED BY <2>3, <2>4, <2>5
<1> QED BY <1>1, <1>2 DEF VaultTypeOK

LEMMA StartTypes ==
  ASSUME VaultParts, NEW t \in Tasks, NEW op \in Ops, NEW place \in Places,
         NEW c \in {0} \cup Ids, Start(t, op, place, c),
         op \in {"add", "get", "update", "delete"} => c \in Ids,
         added' = added \/ added' = added + 1
  PROVE  VaultParts'
<1> DEFINE u == [Idle EXCEPT !.op = op, !.at = place, !.cred = c, !.conn = db, !.key = key]
<1> USE DEF VaultParts
<1>1. u \in Task /\ u.op = op /\ u.cred = c
  <2>1. db \in Nat /\ key \in Nat
    BY DEF VaultTypeOK
  <2> QED BY <2>1, NewTask, IdleTask, VaultConstants DEF Task
<1>2. Call(t, u) /\ timer' = TRUE
      /\ UNCHANGED <<db, vaultId, key, keys, fileVars, conns, drawn, crashes, badTags>>
  BY DEF Start, ResetLockTimer
<1> HIDE DEF u
<1>3. VaultTypeOK' /\ FileTypeOK'
  BY <1>2, TypesKept DEF VaultTypeOK
<1>4. TaskTypeOK' /\ Named'
  BY <1>1, <1>2, CallSteps DEF Named
<1>5. CountTypeOK' /\ GhostTypeOK'
  BY <1>1, <1>2, CallSteps DEF CountTypeOK, GhostTypeOK
<1> QED BY <1>3, <1>4, <1>5

LEMMA RequestTypes ==
  ASSUME VaultParts, NEW t \in Tasks, Request(t)
  PROVE  VaultParts'
<1>1. added \in Nat /\ calls \in 0 .. MaxCalls /\ (calls < MaxCalls => added + 1 \in Ids)
  BY Constants DEF VaultParts, CountTypeOK, Ids, Unknown
<1>2. CASE \E p \in Passwords : Unlock(t, p)
  BY <1>2, UnlockTypes
<1>3. CASE List(t)
  BY <1>3, StartTypes DEF List, Ops, Places
<1>4. CASE Add(t)
  <2>1. added + 1 \in Ids
    BY <1>1, <1>4 DEF Add, Start, Call
  <2> QED BY <1>4, <2>1, StartTypes DEF Add, Ops, Places
<1>5. ASSUME NEW c \in Ids, Get(t, c) \/ Update(t, c) \/ Delete(t, c) PROVE VaultParts'
  BY <1>5, StartTypes DEF Get, Update, Delete, Ops, Places
<1> QED BY <1>2, <1>3, <1>4, <1>5 DEF Request

LEMMA OpenTypes ==
  ASSUME VaultParts, NEW t \in Tasks,
         Connect(t) \/ SelectId(t) \/ InsertId(t) \/ CommitId(t) \/ FinishUnlock(t)
  PROVE  VaultParts'
<1> USE DEF VaultParts
<1>1. task[t] \in Task
  BY DEF TaskTypeOK
<1>2. CASE Connect(t)
  <2>1. VaultTypeOK' /\ FileTypeOK' /\ CountTypeOK' /\ GhostTypeOK'
    BY <1>2, TypesKept DEF Connect, VaultTypeOK, CountTypeOK
  <2>2. TaskTypeOK' /\ Named'
    BY <1>1, <1>2, StepNamed DEF Connect, Places
  <2> QED BY <2>1, <2>2
<1>3. CASE SelectId(t)
  <2>1. Seen(db).id \in Nat
    BY SeenTypes DEF Database
  <2>2. VaultTypeOK' /\ FileTypeOK' /\ CountTypeOK' /\ GhostTypeOK'
    BY <1>3, <2>1, TypesKept DEF SelectId, VaultTypeOK, CountTypeOK
  <2>3. TaskTypeOK' /\ Named'
    <3>1. CASE Goto(t, "commit")
      BY <3>1, StepNamed DEF Places
    <3>2. CASE task' = [task EXCEPT ![t].at = "insert", ![t].secret = drawn + 1]
      <4> DEFINE u == [task[t] EXCEPT !.at = "insert", !.secret = drawn + 1]
      <4>1. u \in Task /\ u.op = task[t].op /\ u.cred = task[t].cred
        <5>1. drawn + 1 \in Nat /\ "insert" \in Places
          BY DEF CountTypeOK, Places
        <5> QED BY <1>1, <5>1 DEF Task
      <4>2. task' = [task EXCEPT ![t] = u]
        BY <3>2 DEF TaskTypeOK
      <4> HIDE DEF u
      <4>3. TaskTypeOK' /\ task'[t] = u /\ \A o \in Tasks : o # t => task'[o] = task[o]
        BY <4>1, <4>2, TaskSteps
      <4> QED BY <4>1, <4>3 DEF Named
    <3> QED BY <1>3, <3>1, <3>2 DEF SelectId
  <2> QED BY <2>2, <2>3
<1>4. CASE InsertId(t)
  <2>1. Seen(db) \in Database /\ [Seen(db) EXCEPT !.id = task[t].secret] \in Database
    BY <1>1, SeenTypes DEF Database, Task
  <2>2. VaultTypeOK' /\ CountTypeOK' /\ GhostTypeOK'
    BY <1>4, TypesKept DEF InsertId
  <2>3. FileTypeOK'
    BY <1>4, <2>1, FileSteps DEF InsertId, VaultTypeOK
  <2>4. TaskTypeOK' /\ Named'
    BY <1>1, <1>4, StepNamed DEF InsertId, Places
  <2> QED BY <2>2, <2>3, <2>4
<1>5. CASE CommitId(t)
  <2>1. VaultTypeOK' /\ CountTypeOK' /\ GhostTypeOK'
    BY <1>5, TypesKept DEF CommitId
  <2>2. FileTypeOK'
    BY <1>5, SeenTypes, FileSteps DEF CommitId, VaultTypeOK
  <2>3. TaskTypeOK' /\ Named'
    BY <1>1, <1>5, StepNamed DEF CommitId, Places
  <2> QED BY <2>1, <2>2, <2>3
<1>6. CASE FinishUnlock(t)
  <2>1. FileTypeOK' /\ CountTypeOK' /\ GhostTypeOK'
    BY <1>6, TypesKept DEF FinishUnlock
  <2>2. task[t].password \in Passwords
    BY <1>1 DEF Task
  <2>3. VaultTypeOK'
    BY <1>6, <2>2, DeriveTypes DEF FinishUnlock
  <2>4. TaskTypeOK' /\ Named'
    BY <1>6, ReturnSteps, IdleTask DEF FinishUnlock, Named
  <2> QED BY <2>1, <2>3, <2>4
<1> QED BY <1>2, <1>3, <1>4, <1>5, <1>6

LEMMA ServeTypes ==
  ASSUME VaultParts, NEW t \in Tasks,
         SelectRow(t) \/ Decrypt(t) \/ Write(t) \/ CommitRow(t) \/ Finish(t)
  PROVE  VaultParts'
<1> USE DEF VaultParts
<1>1. task[t] \in Task
  BY DEF TaskTypeOK
<1>2. VaultTypeOK' /\ CountTypeOK'
  BY TypesKept DEF SelectRow, Decrypt, Write, CommitRow, Finish
<1>3. CASE SelectRow(t)
  <2>1. FileTypeOK' /\ GhostTypeOK'
    BY <1>3, TypesKept DEF SelectRow
  <2>2. TaskTypeOK' /\ Named'
    <3>1. CASE Found(task[t])
      <4> DEFINE u == [task[t] EXCEPT !.at = "decrypt",
                                      !.secret = Seen(task[t].conn).by[task[t].cred]]
      <4>1. task[t].op = "get" /\ task[t].cred \in Ids
        BY <3>1 DEF Found, Named
      <4>2. Seen(task[t].conn).by[task[t].cred] \in Nat
        BY <4>1, SeenTypes DEF Database
      <4>3. u \in Task /\ u.op = task[t].op /\ u.cred = task[t].cred
        BY <1>1, <4>2 DEF Task, Places
      <4>4. task' = [task EXCEPT ![t] = u]
        BY <1>3, <3>1 DEF SelectRow, TaskTypeOK
      <4> HIDE DEF u
      <4>5. TaskTypeOK' /\ task'[t] = u /\ \A o \in Tasks : o # t => task'[o] = task[o]
        BY <4>3, <4>4, TaskSteps
      <4> QED BY <4>3, <4>5 DEF Named
    <3>2. CASE ~Found(task[t])
      BY <1>3, <3>2, ReturnSteps, IdleTask DEF SelectRow, Named
    <3> QED BY <3>1, <3>2
  <2> QED BY <1>2, <2>1, <2>2
<1>4. CASE Decrypt(t)
  <2>1. FileTypeOK'
    BY <1>4, TypesKept DEF Decrypt
  <2>2. GhostTypeOK'
    <3>1. [key |-> task[t].key, secret |-> task[t].secret, locked |-> task[t].locked]
             \in [key : Nat, secret : Nat, locked : BOOLEAN]
      BY <1>1 DEF Task
    <3> QED BY <1>4, <3>1 DEF Decrypt, GhostTypeOK
  <2>3. TaskTypeOK' /\ Named'
    BY <1>1, <1>4, StepNamed DEF Decrypt, Places
  <2> QED BY <1>2, <2>1, <2>2, <2>3
<1>5. CASE Write(t)
  <2>1. Changed(Seen(task[t].conn), task[t]) \in Database /\ task[t].conn \in Nat
    <3>1. Seen(task[t].conn) \in Database /\ task[t].key \in Nat /\ task[t].conn \in Nat
      BY <1>1, SeenTypes DEF Task
    <3>2. task[t].op \in {"add", "delete"} => task[t].cred \in Ids
      BY DEF Named
    <3> QED BY <3>1, <3>2 DEF Changed, Database
  <2>2. FileTypeOK' /\ GhostTypeOK'
    BY <1>5, <2>1, FileSteps, TypesKept DEF Write
  <2>3. TaskTypeOK' /\ Named'
    BY <1>1, <1>5, StepNamed DEF Write, Places
  <2> QED BY <1>2, <2>2, <2>3
<1>6. CASE CommitRow(t)
  <2>1. task[t].conn \in Nat
    BY <1>1 DEF Task
  <2>2. FileTypeOK' /\ GhostTypeOK'
    BY <1>6, <2>1, SeenTypes, FileSteps, TypesKept DEF CommitRow
  <2>3. TaskTypeOK' /\ Named'
    BY <1>1, <1>6, StepNamed DEF CommitRow, Places
  <2> QED BY <1>2, <2>2, <2>3
<1>7. CASE Finish(t)
  BY <1>2, <1>7, TypesKept, ReturnSteps, IdleTask DEF Finish, Named
<1> QED BY <1>3, <1>4, <1>5, <1>6, <1>7

(* Locking and the end of the process change the keys as a whole. *)
LEMMA KeysTypes ==
  ASSUME VaultTypeOK, NEW k
  PROVE  /\ [keys EXCEPT ![k].zeroed = TRUE] \in Seq(Key)
         /\ [i \in DOMAIN keys |-> [keys[i] EXCEPT !.zeroed = TRUE]] \in Seq(Key)
<1>1. keys \in Seq(Key) /\ DOMAIN keys = 1 .. Len(keys) /\ Len(keys) \in Nat
  BY DEF VaultTypeOK
<1>2. \A x \in Key : [x EXCEPT !.zeroed = TRUE] \in Key
  BY DEF Key
<1>3. \A i \in DOMAIN keys : keys[i] \in Key
  BY <1>1
<1> HIDE DEF Key
<1>4. [i \in DOMAIN keys |-> [keys[i] EXCEPT !.zeroed = TRUE]] \in [1 .. Len(keys) -> Key]
  BY <1>1, <1>2, <1>3
<1>5. [keys EXCEPT ![k].zeroed = TRUE] \in [1 .. Len(keys) -> Key]
  <2>1. keys \in [1 .. Len(keys) -> Key]
    BY <1>1
  <2> QED BY <1>1, <1>2, <1>3, <2>1
<1>6. \A f, n \in Nat : f \in [1 .. n -> Key] => f \in Seq(Key)
  OBVIOUS
<1> QED BY <1>1, <1>4, <1>5, <1>6

LEMMA EndTypes ==
  ASSUME VaultParts, Lock \/ AutoLock \/ Shutdown \/ Crash
  PROVE  VaultParts'
<1> USE DEF VaultParts
<1>1. CASE Lock \/ AutoLock
  <2>1. LockNow /\ task' = Marked /\ UNCHANGED raced
    BY <1>1 DEF Lock, AutoLock
  <2>2. VaultTypeOK' /\ FileTypeOK' /\ GhostTypeOK'
    BY <2>1, KeysTypes, TypesKept DEF LockNow, VaultTypeOK, GhostTypeOK
  <2>3. CountTypeOK'
    BY <1>1, Constants DEF Lock, AutoLock, LockNow, CountTypeOK
  <2>4. TaskTypeOK' /\ Named'
    <3>1. \A o \in Tasks : task'[o].op = task[o].op /\ task'[o].cred = task[o].cred
      BY <2>1, MarkedSteps DEF TaskTypeOK, Task
    <3> QED BY <2>1, <3>1, MarkedSteps DEF Named
  <2> QED BY <2>2, <2>3, <2>4
<1>2. CASE Shutdown \/ Crash
  <2>1. ProcessEnds /\ UNCHANGED raced
    BY <1>2 DEF Shutdown, Crash
  <2>2. VaultTypeOK' /\ FileTypeOK' /\ GhostTypeOK'
    BY <2>1, KeysTypes DEF ProcessEnds, VaultTypeOK, FileTypeOK, GhostTypeOK
  <2>3. CountTypeOK'
    BY <1>2, Constants DEF Shutdown, Crash, ProcessEnds, CountTypeOK
  <2>4. TaskTypeOK' /\ Named'
    BY <2>1, IdleTask DEF ProcessEnds, TaskTypeOK, Named
  <2> QED BY <2>2, <2>3, <2>4
<1> QED BY <1>1, <1>2

LEMMA TypesSplit ==
  Types <=> AuditTypeOK /\ VaultParts
BY DEF Types, TypeOK, VaultParts

LEMMA TypesInit == Init => Types
<1> SUFFICES ASSUME Init PROVE Types
  OBVIOUS
<1>1. AuditTypeOK
  BY DEF Init, AuditInit, AuditTypeOK, Fresh, Head1, Links
<1>2. Empty \in Database
  BY DEF Empty, Database
<1>3. VaultTypeOK /\ FileTypeOK
  <2>1. <<>> \in Seq(Key) /\ 0 \in Nat
    OBVIOUS
  <2>2. /\ db = 0 /\ vaultId = 0 /\ key = 0 /\ timer = FALSE /\ keys = <<>>
        /\ store = Empty /\ work = Empty /\ writer = 0
    BY DEF Init
  <2>3. VaultTypeOK
    BY <2>1, <2>2 DEF VaultTypeOK
  <2> QED BY <1>2, <2>1, <2>2, <2>3 DEF FileTypeOK
<1>4. CountTypeOK
  <2>1. 0 \in 0 .. MaxCalls /\ 0 \in 0 .. MaxCrashes /\ 0 \in 0 .. 0 /\ 0 \in Nat
    BY Constants
  <2> QED BY <2>1 DEF Init, CountTypeOK
<1>5. GhostTypeOK
  BY DEF Init, GhostTypeOK
<1>6. TaskTypeOK /\ \A t \in Tasks : task[t] = Idle
  BY IdleTask DEF Init, TaskTypeOK
<1>7. Named
  BY <1>6, IdleTask DEF Named
<1> QED BY <1>1, <1>3, <1>4, <1>5, <1>6, <1>7, TypesSplit DEF VaultParts

LEMMA TypesNext == Types /\ [Next]_vars => Types'
<1> SUFFICES ASSUME Types, [Next]_vars PROVE Types'
  OBVIOUS
<1>1. CASE Next
  <2>1. AuditTypeOK'
    BY <1>1, NextAudits, AuditTypes DEF Types, TypeOK
  <2>2. VaultParts'
    BY <1>1, TypesSplit, RequestTypes, OpenTypes, ServeTypes, EndTypes DEF Next, Step
  <2>3. TypesSplit' /\ (Types' <=> AuditTypeOK' /\ VaultParts')
    BY DEF Types, TypeOK, VaultParts
  <2> QED BY <2>1, <2>2, <2>3
<1>2. CASE UNCHANGED vars
  BY <1>2 DEF vars, auditVars, vaultVars, fileVars, countVars, Types, TypeOK, AuditTypeOK,
     VaultTypeOK, FileTypeOK, TaskTypeOK, CountTypeOK, GhostTypeOK, Named
<1> QED BY <1>1, <1>2

LEMMA TypesInvariant == Spec => []Types
BY TypesInit, TypesNext, PTL DEF Spec

(* The log, the database, the keys and the requests stay what they are      *)
(* declared to be, for any number of requests, passwords and crashes.       *)
THEOREM TypeCorrect == Spec => []TypeOK
<1>1. Types => TypeOK
  BY DEF Types
<1> QED BY <1>1, TypesInvariant, PTL

-----------------------------------------------------------------------------
(* The chain, and deletions. *)
LEMMA TipNext == Types /\ HeadIsTip /\ [Next]_vars => HeadIsTip'
<1>1. Types => AuditTypeOK
  BY DEF Types, TypeOK
<1>2. ASSUME UNCHANGED vars PROVE AuditStep
  BY <1>2 DEF vars, AuditStep
<1> QED BY <1>1, <1>2, NextAudits, HeadIsTipStep

LEMMA TipInvariant == Spec => []HeadIsTip
<1>1. Init => HeadIsTip
  BY DEF Init, AuditInit, HeadIsTip, Verified, Fresh
<1> QED BY <1>1, TipNext, TypesInvariant, PTL DEF Spec

(* The hash chain of the audit log verifies after any number of entries,    *)
(* restarts and crashes, as long as no crash has torn a line.               *)
THEOREM ChainVerifies == Spec => []LogVerifies
<1>1. HeadIsTip => LogVerifies
  BY DEF HeadIsTip, LogVerifies
<1> QED BY <1>1, TipInvariant, PTL

(* Deletions.  The line is written when the request begins, so that every    *)
(* request under way that deletes has its line in the log.                  *)
Deleted == store.deleted \cup work.deleted
DeletionLines == {c \in Ids : Logged(<<"deleted", c>>)}
DeletionsKnown ==
    LogIsWhole =>
        /\ Deleted \subseteq DeletionLines
        /\ \A t \in Tasks : task[t].op = "delete" => task[t].cred \in DeletionLines

LEMMA LinesStay ==
  ASSUME AuditTypeOK, AuditStep, LogIsWhole'
  PROVE  DeletionLines \subseteq DeletionLines'
<1>1. ASSUME NEW c \in DeletionLines PROVE c \in DeletionLines'
  BY <1>1, LoggedStays DEF DeletionLines
<1> QED BY <1>1

(* The two steps that keep what they read. *)
LEMMA KeepSteps ==
  ASSUME TaskTypeOK, NEW t \in Tasks, NEW place \in Places, NEW n \in Nat,
         task' = [task EXCEPT ![t].at = place, ![t].secret = n]
  PROVE  /\ TaskTypeOK' /\ task'[t].at = place /\ task'[t].secret = n
         /\ task'[t].op = task[t].op /\ task'[t].password = task[t].password
         /\ task'[t].cred = task[t].cred /\ task'[t].conn = task[t].conn
         /\ task'[t].key = task[t].key /\ task'[t].locked = task[t].locked
         /\ \A o \in Tasks : o # t => task'[o] = task[o]
<1> DEFINE u == [task[t] EXCEPT !.at = place, !.secret = n]
<1>1. task[t] \in Task
  BY DEF TaskTypeOK
<1>2. u \in Task /\ u.at = place /\ u.secret = n
      /\ u.op = task[t].op /\ u.password = task[t].password
      /\ u.cred = task[t].cred /\ u.conn = task[t].conn /\ u.key = task[t].key
      /\ u.locked = task[t].locked
  BY <1>1 DEF Task
<1>3. task' = [task EXCEPT ![t] = u]
  BY DEF TaskTypeOK
<1> HIDE DEF u
<1>4. TaskTypeOK' /\ task'[t] = u /\ \A o \in Tasks : o # t => task'[o] = task[o]
  BY <1>2, <1>3, TaskSteps
<1> QED BY <1>2, <1>4

(* A request that goes on is about what it was about. *)
LEMMA StepKeeps ==
  ASSUME Types, NEW t \in Tasks, Step(t)
  PROVE  /\ \A o \in Tasks : o # t => task'[o] = task[o]
         /\ \/ task'[t] = Idle
            \/ /\ task'[t].op = task[t].op /\ task'[t].cred = task[t].cred
               /\ task'[t].conn = task[t].conn /\ task'[t].key = task[t].key
               /\ task'[t].password = task[t].password /\ task'[t].locked = task[t].locked
<1>1. TaskTypeOK /\ VaultParts
  BY TypesSplit DEF VaultParts
<1>2. ASSUME NEW place \in Places, Goto(t, place) \/ Return(t)
      PROVE  /\ \A o \in Tasks : o # t => task'[o] = task[o]
             /\ \/ task'[t] = Idle
                \/ /\ task'[t].op = task[t].op /\ task'[t].cred = task[t].cred
                   /\ task'[t].conn = task[t].conn /\ task'[t].key = task[t].key
                   /\ task'[t].password = task[t].password /\ task'[t].locked = task[t].locked
  BY <1>1, <1>2, GotoSteps, ReturnSteps
<1>3. CASE \E place \in Places : Goto(t, place) \/ Return(t)
  BY <1>2, <1>3
<1>4. ASSUME NEW place \in Places, NEW n \in Nat,
             task' = [task EXCEPT ![t].at = place, ![t].secret = n]
      PROVE  /\ \A o \in Tasks : o # t => task'[o] = task[o]
             /\ task'[t].op = task[t].op /\ task'[t].cred = task[t].cred
             /\ task'[t].conn = task[t].conn /\ task'[t].key = task[t].key
             /\ task'[t].password = task[t].password /\ task'[t].locked = task[t].locked
  BY <1>1, <1>4, KeepSteps
<1>5. CASE SelectId(t)
  BY <1>1, <1>3, <1>4, <1>5 DEF SelectId, Places, VaultParts, CountTypeOK
<1>6. CASE SelectRow(t)
  <2>1. CASE Found(task[t])
    <3>1. Seen(task[t].conn).by[task[t].cred] \in Nat
      BY <1>1, <2>1, SeenTypes DEF VaultParts, Found, Named, Database
    <3> QED BY <1>4, <1>6, <2>1, <3>1 DEF SelectRow, Places
  <2>2. CASE ~Found(task[t])
    BY <1>3, <1>6, <2>2 DEF SelectRow, Places
  <2> QED BY <2>1, <2>2
<1>7. CASE Connect(t) \/ InsertId(t) \/ CommitId(t) \/ FinishUnlock(t)
           \/ Decrypt(t) \/ Write(t) \/ CommitRow(t) \/ Finish(t)
  <2>1. {"select", "commit", "finish", "write"} \subseteq Places
    BY DEF Places
  <2>2. \E place \in Places : Goto(t, place) \/ Return(t)
    BY <1>7, <2>1 DEF Connect, InsertId, CommitId, FinishUnlock, Decrypt, Write, CommitRow, Finish
  <2> QED BY <1>3, <2>2
<1> QED BY <1>5, <1>6, <1>7 DEF Step

LEMMA DeletedSteps ==
  ASSUME Types, Next
  PROVE  Deleted' \subseteq Deleted \cup {task[t].cred : t \in {o \in Tasks : task[o].op = "delete"}}
<1>1. FileTypeOK
  BY TypesSplit DEF VaultParts
<1>2. ASSUME UNCHANGED fileVars \/ ProcessEnds \/ \E c : Commit(c)
      PROVE  Deleted' \subseteq Deleted
  BY <1>2 DEF fileVars, ProcessEnds, Commit, Deleted
<1>3. CASE Lock \/ AutoLock \/ Shutdown \/ Crash \/ \E t \in Tasks : Request(t)
  BY <1>2, <1>3 DEF Lock, AutoLock, LockNow, Shutdown, Crash, Request, Unlock, List, Add, Get,
                    Update, Delete, Start
<1>4. ASSUME NEW t \in Tasks, Step(t)
      PROVE  Deleted' \subseteq Deleted \cup {task[o].cred : o \in {o \in Tasks : task[o].op = "delete"}}
  <2>1. CASE InsertId(t)
    <3>1. Seen(db) \in Database /\ (Seen(db) = store \/ Seen(db) = work)
      BY <1>1, SeenTypes DEF Seen
    <3>2. [Seen(db) EXCEPT !.id = task[t].secret].deleted = Seen(db).deleted
      BY <3>1 DEF Database
    <3> QED BY <1>2, <2>1, <3>1, <3>2 DEF InsertId, WriteTo, Deleted
  <2>2. CASE Write(t)
    <3> DEFINE s == Seen(task[t].conn)
    <3>1. s \in Database /\ (s = store \/ s = work)
      BY <1>1, SeenTypes DEF Seen
    <3> HIDE DEF s
    <3>2. \/ Changed(s, task[t]).deleted = s.deleted
          \/ task[t].op = "delete" /\ Changed(s, task[t]).deleted = s.deleted \cup {task[t].cred}
      BY <3>1 DEF Changed, Database
    <3>3. UNCHANGED fileVars \/ (work' = Changed(s, task[t]) /\ UNCHANGED store)
      BY <2>2 DEF Write, WriteTo, s
    <3> QED BY <1>2, <3>1, <3>2, <3>3 DEF Deleted
  <2>3. CASE ~InsertId(t) /\ ~Write(t)
    <3>1. UNCHANGED fileVars \/ \E c : Commit(c)
      BY <1>4, <2>3 DEF Step, Connect, SelectId, CommitId, FinishUnlock, SelectRow, Decrypt,
                        CommitRow, Finish
    <3> QED BY <1>2, <3>1
  <2> QED BY <2>1, <2>2, <2>3
<1> QED BY <1>3, <1>4 DEF Next

(* A request that deletes did so before the step, or has just been logged.   *)
LEMMA DeletesSteps ==
  ASSUME Types, Next, LogIsWhole', NEW t \in Tasks, task'[t].op = "delete"
  PROVE  \/ task[t].op = "delete" /\ task'[t].cred = task[t].cred
         \/ task'[t].cred \in DeletionLines'
<1>1. TaskTypeOK /\ CountTypeOK /\ AuditTypeOK /\ VaultTypeOK
  BY TypesSplit DEF VaultParts
<1>2. ASSUME NEW o \in Tasks, Step(o)
      PROVE  task[t].op = "delete" /\ task'[t].cred = task[t].cred
  BY <1>2, StepKeeps, IdleTask
<1>3. ASSUME NEW o \in Tasks, Request(o)
      PROVE  \/ task[t].op = "delete" /\ task'[t].cred = task[t].cred
             \/ task'[t].cred \in DeletionLines'
  <2>1. ASSUME NEW u \in Task, Call(o, u), u.op # "delete"
        PROVE  task[t].op = "delete" /\ task'[t].cred = task[t].cred
    BY <1>1, <2>1, CallSteps
  <2>2. CASE \E p \in Passwords : Unlock(o, p)
    <3>1. ASSUME NEW p \in Passwords
          PROVE  [Idle EXCEPT !.op = "unlock", !.at = "connect", !.password = p] \in Task
                 /\ [Idle EXCEPT !.op = "unlock", !.at = "connect", !.password = p].op = "unlock"
      <4>1. "unlock" \in Ops /\ "connect" \in Places /\ 0 \in {0} \cup Ids /\ 0 \in Nat
        BY DEF Ops, Places
      <4>2. [Idle EXCEPT !.op = "unlock", !.at = "connect", !.password = p] \in Task
        BY <4>1, NewTask
      <4> QED BY <4>2, IdleTask DEF Task
    <3> QED BY <2>1, <2>2, <3>1, IdleTask DEF Unlock
  <2>3. ASSUME NEW op \in Ops, NEW place \in Places, NEW c \in {0} \cup Ids, Start(o, op, place, c)
        PROVE  \/ task'[t] = task[t]
               \/ task'[t].op = op /\ task'[t].cred = c
    <3> DEFINE u == [Idle EXCEPT !.op = op, !.at = place, !.cred = c, !.conn = db, !.key = key]
    <3>1. u \in Task
      BY <1>1, NewTask, VaultConstants DEF VaultTypeOK
    <3>2. u.op = op /\ u.cred = c
      BY <3>1, IdleTask DEF Task
    <3>3. Call(o, u)
      BY <2>3 DEF Start
    <3> HIDE DEF u
    <3> QED BY <1>1, <3>1, <3>2, <3>3, CallSteps
  <2>4. CASE List(o) \/ Add(o) \/ \E c \in Ids : Get(o, c) \/ Update(o, c)
    <3>1. added + 1 \in Ids \/ ~Add(o)
      <4>1. added \in Nat /\ calls \in 0 .. MaxCalls /\ (calls < MaxCalls => added + 1 \in Ids)
        BY <1>1, Constants DEF CountTypeOK, Ids, Unknown
      <4> QED BY <4>1 DEF Add, Start, Call
    <3>2. {"list", "add", "get", "update"} \subseteq Ops /\ {"select", "write"} \subseteq Places
      BY DEF Ops, Places
    <3> QED BY <2>3, <2>4, <3>1, <3>2 DEF List, Add, Get, Update
  <2>5. ASSUME NEW c \in Ids, Delete(o, c)
        PROVE  \/ task[t].op = "delete" /\ task'[t].cred = task[t].cred
               \/ task'[t].cred \in DeletionLines'
    <3>1. c \in DeletionLines'
      <4>1. Record(<<"deleted", c>>) /\ <<"deleted", c>> \in Events
        BY <2>5, Constants DEF Delete
      <4> QED BY <1>1, <4>1, RecordLogs DEF DeletionLines
    <3>2. task'[t] = task[t] \/ task'[t].cred = c
      BY <2>3, <2>5 DEF Delete, Ops, Places
    <3> QED BY <3>1, <3>2
  <2> QED BY <1>3, <2>2, <2>4, <2>5 DEF Request
<1>4. CASE Lock \/ AutoLock
  <2>1. task' = Marked
    BY <1>4 DEF Lock, AutoLock
  <2> QED BY <1>1, <2>1, MarkedSteps DEF TaskTypeOK, Task
<1>5. CASE Shutdown \/ Crash
  BY <1>5, IdleTask DEF Shutdown, Crash, ProcessEnds
<1> QED BY <1>2, <1>3, <1>4, <1>5 DEF Next

LEMMA DeletionsNext == Types /\ DeletionsKnown /\ [Next]_vars => DeletionsKnown'
<1> SUFFICES ASSUME Types, DeletionsKnown, [Next]_vars, LogIsWhole'
             PROVE  /\ Deleted' \subseteq DeletionLines'
                    /\ \A t \in Tasks : task'[t].op = "delete" => task'[t].cred \in DeletionLines'
  BY DEF DeletionsKnown
<1>1. CASE Next
  <2>1. AuditStep /\ AuditTypeOK
    BY <1>1, NextAudits DEF Types, TypeOK
  <2>2. LogIsWhole
    BY <2>1, WholeStays
  <2>3. DeletionLines \subseteq DeletionLines'
    BY <2>1, LinesStay
  <2>4. Deleted \subseteq DeletionLines'
    BY <2>2, <2>3 DEF DeletionsKnown
  <2>5. \A t \in Tasks : task[t].op = "delete" => task[t].cred \in DeletionLines'
    BY <2>2, <2>3 DEF DeletionsKnown
  <2>6. Deleted' \subseteq DeletionLines'
    BY <1>1, <2>4, <2>5, DeletedSteps
  <2>7. ASSUME NEW t \in Tasks, task'[t].op = "delete"
        PROVE  task'[t].cred \in DeletionLines'
    BY <1>1, <2>5, <2>7, DeletesSteps
  <2> QED BY <2>6, <2>7
<1>2. CASE UNCHANGED vars
  BY <1>2 DEF vars, auditVars, fileVars, DeletionsKnown, LogIsWhole, Deleted, DeletionLines, Logged
<1> QED BY <1>1, <1>2

(* A credential marked deleted has its deletion in the log, in the file as    *)
(* in what is not committed, after any crash that has not torn a line.       *)
THEOREM DeletionsInLog == Spec => []DeletionsAreLogged
<1>1. Init => DeletionsKnown
  <2>1. Init => store = Empty /\ work = Empty /\ \A t \in Tasks : task[t] = Idle
    BY DEF Init
  <2> QED BY <2>1, IdleTask DEF DeletionsKnown, Deleted, Empty
<1>2. DeletionsKnown => DeletionsAreLogged
  BY DEF DeletionsKnown, DeletionsAreLogged, Deleted, DeletionLines
<1> QED BY <1>1, <1>2, DeletionsNext, TypesInvariant, PTL DEF Spec
=============================================================================

-------------------------- MODULE VaultSessionProofs --------------------------
(***************************************************************************)
(* What a session of the credential vault relies on, whatever requests     *)
(* interleave and wherever it crashes: which keys, connection and vault_id *)
(* its requests use, and what is uncommitted; and that what is stored      *)
(* stays stored.                                                           *)
(***************************************************************************)
EXTENDS CredentialVaultProofs

-----------------------------------------------------------------------------
(* What holds in every state. *)
Serves(u) == u.op \notin {"none", "unlock"}

Ranges ==
    /\ key \in 0 .. Len(keys)
    /\ \A c \in Ids : store.by[c] \in 0 .. Len(keys) /\ work.by[c] \in 0 .. Len(keys)
    /\ \A t \in Tasks : Serves(task[t]) => task[t].key \in 1 .. Len(keys)
    /\ \A t \in Tasks : task[t].at = "decrypt" => task[t].secret \in 1 .. Len(keys)
    /\ \A b \in badTags : b.key \in 1 .. Len(keys) /\ b.secret \in 1 .. Len(keys)

Shapes ==
    \A t \in Tasks :
        /\ task[t].op = "none" => task[t] = Idle
        /\ Serves(task[t]) => task[t].at \in {"select", "decrypt", "write", "commit", "finish"}
        /\ task[t].op = "unlock" => task[t].at \in {"connect", "select", "insert", "commit", "finish"}

Zeroes ==
    /\ key # 0 => ~keys[key].zeroed
    /\ \A t \in Tasks : Serves(task[t]) /\ keys[task[t].key].zeroed => task[t].locked

Always == Types /\ Ranges /\ Shapes /\ Zeroes

(* What holds until two requests open the database at once: every key was    *)
(* derived from the stored vault_id; the request that opens the database is *)
(* alone; the others use its one connection; what this has written and not  *)
(* committed belongs to a request that will commit.                         *)
Salted == \A k \in DOMAIN keys : keys[k].salt = store.id /\ store.id # 0

Opened(u) ==
    /\ u.at = "connect" <=> db = 0
    /\ u.at \in {"connect", "select", "insert", "finish"} => writer = 0
    /\ u.at = "insert" => store.id = 0 /\ vaultId = u.secret /\ vaultId # 0
    /\ u.at \in {"commit", "finish"} => vaultId = Seen(db).id /\ vaultId # 0
    /\ u.at = "commit" => store.id \in {0, vaultId}

Openers ==
    \A t \in Tasks : task[t].op = "unlock" =>
        Opened(task[t]) /\ \A o \in Tasks : o # t => task[o] = Idle

Ready ==
    /\ db = 0 => key = 0 /\ \A t \in Tasks : ~Serves(task[t])
    /\ db # 0 /\ (\A t \in Tasks : task[t].op # "unlock") =>
           vaultId = store.id /\ store.id # 0 /\ work.id = store.id

Connected ==
    /\ writer \in {0, db}
    /\ writer = 0 => work = store
    /\ writer # 0 => \E t \in Tasks : task[t].at = "commit"
    /\ \A t \in Tasks : Serves(task[t]) => task[t].conn = db

Excused == \A b \in badTags : b.locked \/ keys[b.key].password # keys[b.secret].password

SessionParts == Salted /\ Openers /\ Ready /\ Connected /\ Excused

Session == ~raced => SessionParts

LEMMA PartTypes ==
  Types => /\ VaultTypeOK /\ FileTypeOK /\ TaskTypeOK /\ CountTypeOK /\ GhostTypeOK /\ Named
           /\ \A t \in Tasks : task[t] \in Task
BY TypesSplit DEF VaultParts, TaskTypeOK

LEMMA IdleShape == ~Serves(Idle) /\ Idle.op # "unlock" /\ Idle.at \notin {"decrypt", "commit"}
BY IdleTask DEF Serves

(* Where a request is says what it does. *)
LEMMA PlaceTells ==
  ASSUME Always, NEW t \in Tasks
  PROVE  /\ task[t].op \in Ops
         /\ task[t].at \in {"connect", "insert"} => task[t].op = "unlock"
         /\ task[t].at \in {"decrypt", "write"} => Serves(task[t])
         /\ task[t].at \in {"select", "commit", "finish"} => task[t].op = "unlock" \/ Serves(task[t])
         /\ task[t] # Idle => task[t].op = "unlock" \/ Serves(task[t])
         /\ task[t].op = "unlock" => OpensNow(task[t])
<1>1. task[t].op \in Ops
  BY PartTypes DEF Always, Task
<1> QED BY <1>1, IdleTask DEF Always, Shapes, Serves, OpensNow

(* The keys. *)
LEMMA DerivedKeys ==
  ASSUME VaultTypeOK, NEW p \in Passwords, Derive(p)
  PROVE  /\ Len(keys) \in Nat /\ Len(keys') = Len(keys) + 1 /\ key' = Len(keys) + 1
         /\ DOMAIN keys = 1 .. Len(keys) /\ DOMAIN keys' = 1 .. Len(keys) + 1
         /\ \A k \in 1 .. Len(keys) : keys'[k] = keys[k]
         /\ keys'[Len(keys) + 1] = [password |-> p, salt |-> vaultId, zeroed |-> FALSE]
BY DEF VaultTypeOK, Derive

LEMMA ZeroedKeys ==
  ASSUME VaultTypeOK,
         \/ keys' = [keys EXCEPT ![key].zeroed = TRUE]
         \/ keys' = keys
         \/ keys' = [k \in DOMAIN keys |-> [keys[k] EXCEPT !.zeroed = TRUE]]
  PROVE  /\ Len(keys') = Len(keys) /\ DOMAIN keys' = DOMAIN keys
         /\ \A k \in DOMAIN keys : /\ keys'[k].salt = keys[k].salt
                                   /\ keys'[k].password = keys[k].password
<1>1. keys \in Seq(Key) /\ keys' \in Seq(Key)
  BY KeysTypes DEF VaultTypeOK
<1>2. DOMAIN keys' = DOMAIN keys
  OBVIOUS
<1>3. Len(keys') = Len(keys)
  BY <1>1, <1>2
<1>4. \A k \in DOMAIN keys : keys[k] \in Key
  BY <1>1
<1>5. \A x \in Key : [x EXCEPT !.zeroed = TRUE].salt = x.salt
                     /\ [x EXCEPT !.zeroed = TRUE].password = x.password
  BY DEF Key
<1>6. \A k \in DOMAIN keys : keys'[k] = keys[k] \/ keys'[k] = [keys[k] EXCEPT !.zeroed = TRUE]
  OBVIOUS
<1> QED BY <1>2, <1>3, <1>4, <1>5, <1>6

-----------------------------------------------------------------------------
(* Always is inductive. *)
Inner == Ranges /\ Shapes /\ Zeroes

(* A step that changes neither the keys nor which one is in use. *)
LEMMA InnerStep ==
  ASSUME Always, NEW t \in Tasks, Step(t), UNCHANGED <<key, keys>>,
         \A c \in Ids : store'.by[c] \in 0 .. Len(keys) /\ work'.by[c] \in 0 .. Len(keys),
         \A b \in badTags' : b.key \in 1 .. Len(keys) /\ b.secret \in 1 .. Len(keys),
         \/ task'[t] = Idle
         \/ Serves(task[t]) /\ task'[t].at \in {"decrypt", "write", "commit", "finish"}
         \/ task[t].op = "unlock" /\ task'[t].at \in {"select", "insert", "commit", "finish"},
         task'[t].at = "decrypt" => task'[t].secret \in 1 .. Len(keys)
  PROVE  Inner'
<1>1. /\ \A o \in Tasks : o # t => task'[o] = task[o]
      /\ \/ task'[t] = Idle
         \/ /\ task'[t].op = task[t].op /\ task'[t].key = task[t].key
            /\ task'[t].locked = task[t].locked
  BY StepKeeps DEF Always
<1>2. task[t].op # "none"
  BY PlaceTells, IdleTask DEF Serves, Step, Connect, SelectId, InsertId, CommitId, FinishUnlock,
     SelectRow, Decrypt, Write, CommitRow, Finish, At, Always
<1>3. Ranges'
  <2>1. \A o \in Tasks : Serves(task'[o]) => task'[o].key \in 1 .. Len(keys)
    BY <1>1, IdleShape DEF Always, Ranges, Serves
  <2>2. \A o \in Tasks : task'[o].at = "decrypt" => task'[o].secret \in 1 .. Len(keys)
    BY <1>1 DEF Always, Ranges
  <2> QED BY <2>1, <2>2 DEF Always, Ranges, Serves
<1>4. Shapes'
  BY <1>1, <1>2, IdleTask DEF Always, Shapes, Serves
<1>5. Zeroes'
  BY <1>1, IdleShape DEF Always, Zeroes, Serves
<1> QED BY <1>3, <1>4, <1>5 DEF Inner

(* Where the step leaves the request. *)
LEMMA InnerOpen ==
  ASSUME Always, NEW t \in Tasks, Connect(t) \/ SelectId(t) \/ InsertId(t) \/ CommitId(t)
  PROVE  Inner'
<1>1. /\ TaskTypeOK /\ FileTypeOK /\ CountTypeOK /\ task[t] \in Task
  BY PartTypes DEF Always
<1>2. UNCHANGED <<key, keys, badTags>> /\ Step(t)
  BY DEF Connect, SelectId, InsertId, CommitId, vaultVars, Step
<1>3. \A b \in badTags' : b.key \in 1 .. Len(keys) /\ b.secret \in 1 .. Len(keys)
  BY <1>2 DEF Always, Ranges
<1>4. task[t].op = "unlock"
  BY PlaceTells DEF Connect, SelectId, InsertId, CommitId, At
<1>5. task'[t] = Idle \/ task'[t].at \in {"select", "insert", "commit", "finish"}
  <2>1. {"select", "insert", "commit", "finish"} \subseteq Places /\ drawn + 1 \in Nat
    BY <1>1 DEF Places, CountTypeOK
  <2>2. CASE Connect(t)
    BY <1>1, <2>1, <2>2, GotoSteps DEF Connect
  <2>3. CASE SelectId(t)
    BY <1>1, <2>1, <2>3, GotoSteps, KeepSteps DEF SelectId
  <2>4. CASE InsertId(t)
    BY <1>1, <2>1, <2>4, GotoSteps, ReturnSteps DEF InsertId
  <2>5. CASE CommitId(t)
    BY <1>1, <2>1, <2>5, GotoSteps DEF CommitId
  <2> QED BY <2>2, <2>3, <2>4, <2>5
<1>6. \A c \in Ids : store'.by[c] \in 0 .. Len(keys) /\ work'.by[c] \in 0 .. Len(keys)
  <2>1. Seen(db) \in Database /\ (Seen(db) = store \/ Seen(db) = work)
    BY <1>1, SeenTypes DEF Seen
  <2>2. [Seen(db) EXCEPT !.id = task[t].secret].by = Seen(db).by
    BY <2>1 DEF Database
  <2>3. store'.by \in {store.by, work.by} /\ work'.by \in {store.by, work.by}
    BY <2>1, <2>2 DEF Connect, SelectId, InsertId, CommitId, WriteTo, Commit, fileVars
  <2> QED BY <2>3 DEF Always, Ranges
<1> QED BY <1>2, <1>3, <1>4, <1>5, <1>6, IdleTask, InnerStep

LEMMA InnerServe ==
  ASSUME Always, NEW t \in Tasks,
         SelectRow(t) \/ Decrypt(t) \/ Write(t) \/ CommitRow(t) \/ Finish(t)
  PROVE  Inner'
<1>1. /\ TaskTypeOK /\ FileTypeOK /\ CountTypeOK /\ Named /\ task[t] \in Task
  BY PartTypes DEF Always
<1>2. UNCHANGED <<key, keys>> /\ Step(t)
  BY DEF SelectRow, Decrypt, Write, CommitRow, Finish, vaultVars, Step
<1>3. Serves(task[t])
  BY PlaceTells DEF SelectRow, Decrypt, Write, CommitRow, Finish, At, Serves
<1>4. task[t].key \in 1 .. Len(keys)
  BY <1>3 DEF Always, Ranges
<1>5. {"decrypt", "write", "commit", "finish"} \subseteq Places
  BY DEF Places
<1>6. CASE SelectRow(t)
  <2>1. UNCHANGED <<store, work, badTags>>
    BY <1>6 DEF SelectRow, fileVars
  <2>2. \/ task'[t] = Idle
        \/ task'[t].at = "decrypt" /\ task'[t].secret \in 1 .. Len(keys)
    <3>1. CASE Found(task[t])
      <4> DEFINE n == Seen(task[t].conn).by[task[t].cred]
      <4>1. task[t].cred \in Ids /\ n # 0
        BY <1>1, <3>1 DEF Found, Named
      <4>2. n \in Nat
        BY <1>1, <4>1, SeenTypes DEF Database
      <4>3. n \in 1 .. Len(keys)
        <5>1. n \in 0 .. Len(keys) /\ Len(keys) \in Nat
          BY <4>1, PartTypes DEF Always, Ranges, Seen, VaultTypeOK
        <5> QED BY <4>1, <4>2, <5>1
      <4>4. task' = [task EXCEPT ![t].at = "decrypt", ![t].secret = n]
        BY <1>6, <3>1 DEF SelectRow
      <4> HIDE DEF n
      <4> QED BY ZenonT(30), <1>1, <1>5, <4>2, <4>3, <4>4, KeepSteps
    <3>2. CASE ~Found(task[t])
      BY <1>1, <1>6, <3>2, ReturnSteps DEF SelectRow
    <3> QED BY <3>1, <3>2
  <2> QED BY <1>2, <1>3, <2>1, <2>2, InnerStep, IdleTask DEF Always, Ranges
<1>7. CASE Decrypt(t)
  <2>1. UNCHANGED <<store, work>>
    BY <1>7 DEF Decrypt, fileVars
  <2>2. task[t].secret \in 1 .. Len(keys)
    BY <1>7 DEF Decrypt, At, Always, Ranges
  <2>3. \A b \in badTags' : b.key \in 1 .. Len(keys) /\ b.secret \in 1 .. Len(keys)
    BY <1>4, <1>7, <2>2 DEF Decrypt, Always, Ranges
  <2>4. task'[t] = Idle \/ task'[t].at = "write"
    BY <1>1, <1>5, <1>7, GotoSteps, ReturnSteps DEF Decrypt
  <2> QED BY <1>2, <1>3, <2>1, <2>3, <2>4, InnerStep, IdleTask DEF Always, Ranges
<1>8. CASE Write(t)
  <2>1. UNCHANGED badTags /\ (task'[t] = Idle \/ task'[t].at = "commit")
    BY <1>1, <1>5, <1>8, GotoSteps, ReturnSteps DEF Write
  <2>2. \A c \in Ids : store'.by[c] \in 0 .. Len(keys) /\ work'.by[c] \in 0 .. Len(keys)
    <3> DEFINE d == Seen(task[t].conn)
    <3>1. d \in Database /\ (d = store \/ d = work)
      BY <1>1, SeenTypes DEF Seen
    <3>2. UNCHANGED fileVars \/ (UNCHANGED store /\ work' = Changed(d, task[t]))
      BY <1>8 DEF Write, WriteTo
    <3> HIDE DEF d
    <3>3. \A c \in Ids : Changed(d, task[t]).by[c] \in {d.by[c], task[t].key}
      BY <3>1 DEF Changed, Database
    <3>4. task[t].key \in 0 .. Len(keys)
      BY <1>4
    <3> QED BY <3>1, <3>2, <3>3, <3>4 DEF fileVars, Always, Ranges
  <2> QED BY <1>2, <1>3, <2>1, <2>2, InnerStep, IdleTask DEF Always, Ranges
<1>9. CASE CommitRow(t) \/ Finish(t)
  <2>1. UNCHANGED badTags /\ (task'[t] = Idle \/ task'[t].at = "finish")
    BY <1>1, <1>5, <1>9, GotoSteps, ReturnSteps DEF CommitRow, Finish
  <2>2. store' \in {store, work} /\ work' = work
    BY <1>9 DEF CommitRow, Finish, Commit, fileVars
  <2> QED BY <1>2, <1>3, <2>1, <2>2, InnerStep, IdleTask DEF Always, Ranges
<1> QED BY <1>6, <1>7, <1>8, <1>9

(* A key is derived. *)
LEMMA InnerDerive ==
  ASSUME Always, NEW t \in Tasks, NEW p \in Passwords, Derive(p), UNCHANGED <<store, work, badTags>>,
         \A o \in Tasks : task'[o] = task[o] \/ task'[o] = Idle
  PROVE  Inner'
<1>1. VaultTypeOK
  BY PartTypes DEF Always
<1>2. /\ Len(keys) \in Nat /\ Len(keys') = Len(keys) + 1 /\ key' = Len(keys) + 1
      /\ \A k \in 1 .. Len(keys) : keys'[k] = keys[k]
      /\ keys'[key'].zeroed = FALSE
  <2>1. keys'[Len(keys) + 1] = [password |-> p, salt |-> vaultId, zeroed |-> FALSE]
    BY <1>1, DerivedKeys
  <2>2. keys'[Len(keys) + 1].zeroed = FALSE
    BY <2>1
  <2> QED BY <1>1, <2>2, DerivedKeys
<1>3. Ranges'
  BY <1>2, IdleShape DEF Always, Ranges, Serves
<1>4. Shapes'
  BY IdleTask DEF Always, Shapes, Serves
<1>5. Zeroes'
  <2>1. \A o \in Tasks : Serves(task'[o]) => task'[o] = task[o] /\ keys'[task[o].key] = keys[task[o].key]
    BY <1>2, IdleShape DEF Always, Ranges
  <2> QED BY <1>2, <2>1 DEF Always, Zeroes, Serves
<1> QED BY <1>3, <1>4, <1>5 DEF Inner

(* What begins has the key that is in use. *)
LEMMA StartedTask ==
  ASSUME Always, NEW t \in Tasks, NEW op \in Ops, NEW place \in Places,
         NEW c \in {0} \cup Ids, Start(t, op, place, c)
  PROVE  /\ task'[t].op = op /\ task'[t].at = place /\ task'[t].key = key /\ task'[t].conn = db
         /\ task'[t].cred = c
         /\ \A o \in Tasks : o # t => task'[o] = task[o]
         /\ task[t] = Idle
<1> DEFINE u == [Idle EXCEPT !.op = op, !.at = place, !.cred = c, !.conn = db, !.key = key]
<1>1. TaskTypeOK /\ CountTypeOK /\ db \in Nat /\ key \in Nat
  BY PartTypes DEF Always, VaultTypeOK
<1>2. u \in Task
  BY <1>1, NewTask, VaultConstants
<1>3. u.op = op /\ u.at = place /\ u.key = key /\ u.conn = db /\ u.cred = c
  BY <1>1, IdleTask, <1>2 DEF Task
<1>4. Call(t, u)
  BY DEF Start
<1> HIDE DEF u
<1> QED BY <1>1, <1>2, <1>3, <1>4, CallSteps DEF Call

LEMMA InnerStart ==
  ASSUME Always, NEW t \in Tasks, NEW op \in {"list", "add", "get", "update", "delete"},
         NEW place \in {"select", "write"}, NEW c \in {0} \cup Ids, Start(t, op, place, c)
  PROVE  Inner'
<1>1. op \in Ops /\ place \in Places
  BY DEF Ops, Places
<1>2. UNCHANGED <<key, keys, store, work, badTags>> /\ key # 0
  BY DEF Start, fileVars
<1>3. /\ task'[t].op = op /\ task'[t].at = place /\ task'[t].key = key
      /\ \A o \in Tasks : o # t => task'[o] = task[o]
  BY <1>1, StartedTask
<1>4. key \in 1 .. Len(keys)
  BY <1>2, PartTypes DEF Always, Ranges, VaultTypeOK
<1>5. Ranges'
  BY <1>2, <1>3, <1>4 DEF Always, Ranges, Serves
<1>6. Shapes'
  BY <1>3 DEF Always, Shapes, Serves
<1>7. Zeroes'
  BY <1>2, <1>3 DEF Always, Zeroes, Serves
<1> QED BY <1>5, <1>6, <1>7 DEF Inner

(* unlock() of a vault whose database is not open yet. *)
LEMMA OpeningTask ==
  ASSUME Always, NEW t \in Tasks, NEW p \in Passwords, Unlock(t, p), db = 0
  PROVE  /\ task'[t].op = "unlock" /\ task'[t].at = "connect"
         /\ \A o \in Tasks : o # t => task'[o] = task[o]
         /\ UNCHANGED <<auditVars, vaultVars, fileVars, badTags>>
         /\ raced' = (raced \/ \E o \in Tasks : OpensNow(task[o]))
<1> DEFINE u == [Idle EXCEPT !.op = "unlock", !.at = "connect", !.password = p]
<1>1. u \in Task
  <2>1. "unlock" \in Ops /\ "connect" \in Places /\ 0 \in {0} \cup Ids /\ 0 \in Nat
    BY DEF Ops, Places
  <2> QED BY <2>1, NewTask
<1>2. u.op = "unlock" /\ u.at = "connect"
  BY <1>1, IdleTask DEF Task
<1>3. Call(t, u) /\ UNCHANGED <<auditVars, vaultVars, fileVars, badTags>>
  BY DEF Unlock
<1>4. TaskTypeOK /\ CountTypeOK
  BY PartTypes DEF Always
<1> HIDE DEF u
<1> QED BY <1>1, <1>2, <1>3, <1>4, CallSteps DEF Call

(* unlock() of one that is open: no request is left in progress. *)
LEMMA UnlockedTask ==
  ASSUME Always, NEW t \in Tasks, NEW p \in Passwords, Unlock(t, p), db # 0
  PROVE  /\ Derive(p) /\ UNCHANGED <<db, vaultId, fileVars, badTags>>
         /\ \A o \in Tasks : task'[o] = task[o]
         /\ raced' = (raced \/ \E o \in Tasks : OpensNow(task[o]))
<1>1. Call(t, Idle) /\ Derive(p) /\ UNCHANGED <<db, vaultId, fileVars, badTags>>
  BY DEF Unlock
<1>2. TaskTypeOK /\ CountTypeOK
  BY PartTypes DEF Always
<1> QED BY <1>1, <1>2, CallSteps, IdleTask DEF Call

LEMMA InnerUnlock ==
  ASSUME Always, NEW t \in Tasks, NEW p \in Passwords, Unlock(t, p)
  PROVE  Inner'
<1>1. CASE db = 0
  <2>1. /\ task'[t].op = "unlock" /\ task'[t].at = "connect"
        /\ \A o \in Tasks : o # t => task'[o] = task[o]
        /\ UNCHANGED <<key, keys, store, work, badTags>>
    BY <1>1, OpeningTask DEF vaultVars, fileVars
  <2>2. Ranges'
    BY <2>1 DEF Always, Ranges, Serves
  <2>3. Shapes'
    BY <2>1 DEF Always, Shapes, Serves
  <2>4. Zeroes'
    BY <2>1 DEF Always, Zeroes, Serves
  <2> QED BY <2>2, <2>3, <2>4 DEF Inner
<1>2. CASE db # 0
  BY <1>2, UnlockedTask, InnerDerive DEF fileVars
<1> QED BY <1>1, <1>2, PartTypes DEF Always, VaultTypeOK

LEMMA InnerLock ==
  ASSUME Always, Lock \/ AutoLock
  PROVE  Inner'
<1>1. VaultTypeOK /\ TaskTypeOK /\ task' = Marked /\ LockNow
  BY PartTypes DEF Always, Lock, AutoLock
<1>2. key' = 0 /\ UNCHANGED <<store, work, badTags>>
  BY <1>1 DEF LockNow, fileVars
<1>3. Len(keys') = Len(keys) /\ Len(keys) \in Nat
  BY <1>1, ZeroedKeys DEF LockNow, VaultTypeOK
<1>4. \A o \in Tasks : /\ task'[o].op = task[o].op /\ task'[o].at = task[o].at
                       /\ task'[o].key = task[o].key /\ task'[o].secret = task[o].secret
                       /\ task[o].op # "none" => task'[o].locked = TRUE
                       /\ task[o] = Idle => task'[o] = Idle
  BY <1>1, MarkedSteps
<1>5. Ranges'
  BY <1>2, <1>3, <1>4 DEF Always, Ranges, Serves
<1>6. Shapes'
  BY <1>4 DEF Always, Shapes, Serves
<1>7. Zeroes'
  BY <1>2, <1>4 DEF Zeroes, Serves
<1> QED BY <1>5, <1>6, <1>7 DEF Inner

LEMMA InnerEnds ==
  ASSUME Always, Shutdown \/ Crash
  PROVE  Inner'
<1>1. VaultTypeOK /\ ProcessEnds
  BY PartTypes DEF Always, Shutdown, Crash
<1>2. key' = 0 /\ work' = store /\ UNCHANGED <<store, badTags>> /\ \A o \in Tasks : task'[o] = Idle
  BY <1>1 DEF ProcessEnds
<1>3. Len(keys') = Len(keys) /\ Len(keys) \in Nat
  BY <1>1, ZeroedKeys DEF ProcessEnds, VaultTypeOK
<1>4. Ranges'
  BY <1>2, <1>3, IdleShape DEF Always, Ranges
<1>5. Shapes' /\ Zeroes'
  BY <1>2, IdleShape DEF Shapes, Zeroes
<1> QED BY <1>4, <1>5 DEF Inner

LEMMA RequestCases ==
  ASSUME Always, NEW t \in Tasks, Request(t)
  PROVE  \/ \E p \in Passwords : Unlock(t, p)
         \/ \E op \in {"list", "add", "get", "update", "delete"}, place \in {"select", "write"},
               c \in {0} \cup Ids : Start(t, op, place, c)
<1>1. added + 1 \in Ids \/ ~Add(t)
  <2>1. added \in Nat /\ calls \in 0 .. MaxCalls /\ (calls < MaxCalls => added + 1 \in Ids)
    BY PartTypes, Constants DEF Always, CountTypeOK, Ids, Unknown
  <2> QED BY <2>1 DEF Add, Start, Call
<1>2. CASE List(t) \/ Add(t)
  BY <1>1, <1>2 DEF List, Add
<1>3. CASE \E c \in Ids : Get(t, c) \/ Update(t, c) \/ Delete(t, c)
  BY <1>3 DEF Get, Update, Delete
<1> QED BY <1>2, <1>3 DEF Request

LEMMA AlwaysNext == Always /\ [Next]_vars => Always'
<1> SUFFICES ASSUME Always, [Next]_vars PROVE Always'
  OBVIOUS
<1>1. Types'
  BY TypesNext DEF Always
<1>2. CASE Next
  <2>1. ASSUME NEW t \in Tasks, Request(t) PROVE Inner'
    BY <2>1, RequestCases, InnerUnlock, InnerStart
  <2>2. ASSUME NEW t \in Tasks, FinishUnlock(t) PROVE Inner'
    <3>1. TaskTypeOK /\ task[t].password \in Passwords
      BY PartTypes DEF Always, Task
    <3>2. \A o \in Tasks : task'[o] = task[o] \/ task'[o] = Idle
      BY <2>2, <3>1, ReturnSteps DEF FinishUnlock
    <3>3. Derive(task[t].password) /\ UNCHANGED <<store, work, badTags>>
      BY <2>2 DEF FinishUnlock, fileVars
    <3> QED BY <3>1, <3>2, <3>3, InnerDerive
  <2>3. ASSUME NEW t \in Tasks, Step(t), ~FinishUnlock(t) PROVE Inner'
    BY <2>3, InnerOpen, InnerServe DEF Step
  <2> QED BY <1>1, <1>2, <2>1, <2>2, <2>3, InnerLock, InnerEnds DEF Next, Inner, Always
<1>3. CASE UNCHANGED vars
  BY <1>1, <1>3 DEF vars, vaultVars, fileVars, Always, Ranges, Shapes, Zeroes
<1> QED BY <1>2, <1>3

LEMMA AlwaysInvariant == Spec => []Always
<1>1. Init => Always
  <2> SUFFICES ASSUME Init PROVE Always
    OBVIOUS
  <2>1. /\ key = 0 /\ keys = <<>> /\ store = Empty /\ work = Empty /\ badTags = {}
        /\ \A t \in Tasks : task[t] = Idle
    BY DEF Init
  <2>2. Ranges
    BY <2>1, IdleShape DEF Ranges, Empty
  <2>3. Shapes /\ Zeroes
    BY <2>1, IdleShape DEF Shapes, Zeroes
  <2> QED BY <2>2, <2>3, TypesInit DEF Always
<1> QED BY <1>1, AlwaysNext, PTL DEF Spec

-----------------------------------------------------------------------------
(* Session is inductive.  A request that serves a credential finds the       *)
(* database open and nobody opening it.                                     *)
LEMMA Serving ==
  ASSUME Always, SessionParts, NEW t \in Tasks, Serves(task[t])
  PROVE  /\ db # 0 /\ task[t].conn = db
         /\ \A o \in Tasks : task[o].op # "unlock"
         /\ vaultId = store.id /\ store.id # 0 /\ work.id = store.id
<1>1. db # 0 /\ task[t].conn = db
  BY DEF SessionParts, Ready, Connected
<1>2. \A o \in Tasks : task[o].op # "unlock"
  BY IdleShape DEF SessionParts, Openers, Serves
<1> QED BY <1>1, <1>2 DEF SessionParts, Ready

LEMMA ServeFrame ==
  ASSUME Always, SessionParts, NEW t \in Tasks, Serves(task[t]), Step(t),
         UNCHANGED <<db, vaultId, key, keys>>,
         store'.id = store.id, work'.id = store.id, Excused',
         writer' \in {0, db}, writer' = 0 => work' = store',
         writer' # 0 => \E o \in Tasks : task'[o].at = "commit"
  PROVE  SessionParts'
<1>1. /\ db # 0 /\ \A o \in Tasks : task[o].op # "unlock"
      /\ vaultId = store.id /\ store.id # 0
  BY Serving
<1>2. \A o \in Tasks : \/ task'[o] = task[o]
                       \/ task'[o] = Idle
                       \/ task'[o].op = task[o].op /\ task'[o].conn = task[o].conn
  BY StepKeeps DEF Always
<1>3. \A o \in Tasks : /\ task'[o].op # "unlock"
                       /\ Serves(task'[o]) => task'[o].conn = db
  BY <1>1, <1>2, IdleShape DEF SessionParts, Connected, Serves
<1>4. Salted' /\ Openers' /\ Ready'
  BY <1>1, <1>3 DEF SessionParts, Salted, Openers, Ready
<1>5. Connected'
  BY <1>3 DEF Connected, Serves
<1> QED BY <1>4, <1>5 DEF SessionParts

(* The one that commits is not the one that goes on. *)
LEMMA StillCommits ==
  ASSUME Always, SessionParts, NEW t \in Tasks, Step(t), task[t].at # "commit", writer # 0
  PROVE  \E o \in Tasks : task'[o].at = "commit"
<1>1. PICK o \in Tasks : task[o].at = "commit"
  BY DEF SessionParts, Connected
<1> QED BY <1>1, StepKeeps DEF Always

LEMMA SessionServe ==
  ASSUME Always, SessionParts, NEW t \in Tasks,
         SelectRow(t) \/ Decrypt(t) \/ Write(t) \/ CommitRow(t) \/ Finish(t)
  PROVE  SessionParts'
<1>1. /\ TaskTypeOK /\ FileTypeOK /\ VaultTypeOK /\ task[t] \in Task
  BY PartTypes DEF Always
<1>2. UNCHANGED <<db, vaultId, key, keys>> /\ Step(t)
  BY DEF SelectRow, Decrypt, Write, CommitRow, Finish, vaultVars, Step
<1>3. Serves(task[t])
  BY PlaceTells DEF SelectRow, Decrypt, Write, CommitRow, Finish, At, Serves
<1>4. /\ db # 0 /\ task[t].conn = db /\ store.id # 0 /\ work.id = store.id
      /\ writer \in {0, db} /\ (writer = 0 => work = store)
  BY <1>3, Serving DEF SessionParts, Connected
<1>5. UNCHANGED badTags => Excused'
  BY <1>2 DEF SessionParts, Excused
<1>6. CASE SelectRow(t) \/ Finish(t)
  <2>1. UNCHANGED <<store, work, writer, badTags>> /\ task[t].at # "commit"
    BY <1>6 DEF SelectRow, Finish, At, fileVars
  <2> QED BY <1>2, <1>3, <1>4, <1>5, <2>1, StillCommits, ServeFrame
<1>7. CASE Decrypt(t)
  <2>1. UNCHANGED <<store, work, writer>> /\ task[t].at # "commit"
    BY <1>7 DEF Decrypt, At, fileVars
  <2>2. Excused'
    <3>1. task[t].key \in DOMAIN keys /\ task[t].secret \in DOMAIN keys
      <4>1. DOMAIN keys = 1 .. Len(keys)
        BY <1>1 DEF VaultTypeOK
      <4> QED BY <1>3, <1>7, <4>1 DEF Decrypt, At, Always, Ranges
    <3>2. keys[task[t].key].salt = keys[task[t].secret].salt
      BY <3>1 DEF SessionParts, Salted
    <3>3. ~Decrypts(task[t].key, task[t].secret) =>
             task[t].locked \/ keys[task[t].key].password # keys[task[t].secret].password
      BY <1>3, <3>2 DEF Decrypts, Always, Zeroes
    <3> QED BY <1>2, <1>5, <1>7, <3>3 DEF Decrypt, SessionParts, Excused
  <2> QED BY <1>2, <1>3, <1>4, <2>1, <2>2, StillCommits, ServeFrame
<1>8. CASE Write(t)
  <2> DEFINE d == Seen(db)
  <2>1. d \in Database /\ d.id = store.id
    BY <1>1, <1>4, SeenTypes DEF Seen
  <2>2. /\ writer' = db /\ work' = Changed(d, task[t]) /\ UNCHANGED <<store, badTags>>
        /\ Goto(t, "commit")
    BY <1>4, <1>8 DEF Write, WriteTo, MayWrite
  <2> HIDE DEF d
  <2>3. Changed(d, task[t]).id = d.id
    BY <2>1 DEF Changed, Database
  <2>4. task'[t].at = "commit"
    BY <1>1, <2>2, GotoSteps DEF Places
  <2> QED BY <1>2, <1>3, <1>4, <1>5, <2>1, <2>2, <2>3, <2>4, ServeFrame
<1>9. CASE CommitRow(t)
  <2>1. UNCHANGED badTags /\ Commit(db)
    BY <1>4, <1>9 DEF CommitRow
  <2>2. writer' = 0 /\ work' = work /\ store' = work
    BY <1>4, <2>1 DEF Commit, fileVars
  <2> QED BY <1>2, <1>3, <1>4, <1>5, <2>1, <2>2, ServeFrame
<1> QED BY <1>6, <1>7, <1>8, <1>9

LEMMA SessionStart ==
  ASSUME Always, SessionParts, NEW t \in Tasks,
         NEW op \in {"list", "add", "get", "update", "delete"},
         NEW place \in {"select", "write"}, NEW c \in {0} \cup Ids, Start(t, op, place, c),
         ~raced'
  PROVE  SessionParts'
<1>1. op \in Ops /\ place \in Places
  BY DEF Ops, Places
<1>2. UNCHANGED <<db, vaultId, key, keys, store, work, writer, badTags>> /\ key # 0 /\ db # 0
  BY DEF Start, fileVars
<1>3. /\ task'[t].op = op /\ task'[t].at = place /\ task'[t].conn = db
      /\ \A o \in Tasks : o # t => task'[o] = task[o]
      /\ task[t] = Idle
  BY <1>1, StartedTask
<1>4. \A o \in Tasks : task[o].op # "unlock"
  BY PlaceTells DEF Start, Call
<1>5. \A o \in Tasks : task'[o].op # "unlock"
  BY <1>3, <1>4
<1>6. Salted' /\ Openers' /\ Ready' /\ Excused'
  BY <1>2, <1>4, <1>5 DEF SessionParts, Salted, Openers, Ready, Excused
<1>7. Connected'
  BY <1>2, <1>3, IdleShape DEF SessionParts, Connected, Serves
<1> QED BY <1>6, <1>7 DEF SessionParts

(* A key is derived from the vault_id that is stored. *)
LEMMA SessionDerive ==
  ASSUME Always, SessionParts, NEW p \in Passwords, Derive(p),
         UNCHANGED <<db, vaultId, store, work, writer, badTags>>,
         db # 0, vaultId = store.id, store.id # 0, work.id = store.id,
         \A o \in Tasks : task'[o].op # "unlock" /\ (task'[o] = task[o] \/ task'[o] = Idle),
         writer # 0 => \E o \in Tasks : task'[o].at = "commit"
  PROVE  SessionParts'
<1>1. VaultTypeOK
  BY PartTypes DEF Always
<1>2. /\ DOMAIN keys' = 1 .. Len(keys) + 1 /\ DOMAIN keys = 1 .. Len(keys) /\ Len(keys) \in Nat
      /\ \A k \in 1 .. Len(keys) : keys'[k] = keys[k]
  BY <1>1, DerivedKeys
<1>3. keys'[Len(keys) + 1].salt = vaultId
  <2>1. keys'[Len(keys) + 1] = [password |-> p, salt |-> vaultId, zeroed |-> FALSE]
    BY <1>1, DerivedKeys
  <2> QED BY <2>1
<1>4. Salted'
  BY <1>2, <1>3 DEF SessionParts, Salted
<1>5. Openers' /\ Ready'
  BY DEF Openers, Ready
<1>6. Connected'
  BY IdleShape DEF SessionParts, Connected, Serves
<1>7. Excused'
  BY <1>2 DEF SessionParts, Excused, Always, Ranges
<1> QED BY <1>4, <1>5, <1>6, <1>7 DEF SessionParts

LEMMA SessionUnlock ==
  ASSUME Always, SessionParts, NEW t \in Tasks, NEW p \in Passwords, Unlock(t, p), ~raced'
  PROVE  SessionParts'
<1>1. \A o \in Tasks : ~OpensNow(task[o])
  BY OpeningTask, UnlockedTask
<1>2. \A o \in Tasks : task[o].op # "unlock"
  BY <1>1, PlaceTells
<1>3. CASE db # 0
  <2>1. vaultId = store.id /\ store.id # 0 /\ work.id = store.id
    BY <1>2, <1>3 DEF SessionParts, Ready
  <2>2. writer # 0 => \E o \in Tasks : task'[o].at = "commit"
    BY <1>3, UnlockedTask DEF SessionParts, Connected
  <2> QED BY <1>2, <1>3, <2>1, <2>2, UnlockedTask, SessionDerive DEF fileVars
<1>4. CASE db = 0
  <2>1. \A o \in Tasks : task[o] = Idle
    BY <1>2, <1>4, PlaceTells DEF SessionParts, Ready
  <2>2. /\ task'[t].op = "unlock" /\ task'[t].at = "connect"
        /\ \A o \in Tasks : o # t => task'[o] = Idle
        /\ UNCHANGED <<db, vaultId, key, keys, store, work, writer, badTags>>
    BY <1>4, <2>1, OpeningTask DEF vaultVars, fileVars
  <2>3. writer = 0 /\ key = 0 /\ work = store
    BY <1>4 DEF SessionParts, Connected, Ready
  <2>4. Openers'
    BY <1>4, <2>2, <2>3, IdleShape DEF Openers, Opened
  <2>5. Salted' /\ Ready' /\ Excused'
    BY <1>4, <2>2, <2>3, IdleShape DEF SessionParts, Salted, Ready, Excused, Serves
  <2>6. Connected'
    BY <2>2, <2>3, IdleShape DEF Connected, Serves
  <2> QED BY <2>4, <2>5, <2>6 DEF SessionParts
<1> QED BY <1>3, <1>4

(* The request that opens the database, alone. *)
LEMMA OpenFrame ==
  ASSUME Always, SessionParts, NEW t \in Tasks, task[t].op = "unlock", Step(t),
         UNCHANGED <<key, keys, badTags>>, task'[t].op = "unlock",
         Opened(task[t])', Salted', db' # 0,
         writer' \in {0, db'}, writer' = 0 => work' = store',
         writer' # 0 => task'[t].at = "commit"
  PROVE  SessionParts'
<1>1. \A o \in Tasks : o # t => task'[o] = Idle
  BY StepKeeps DEF Always, SessionParts, Openers
<1>2. Openers'
  BY <1>1, IdleShape DEF Openers, Opened
<1>3. Ready' /\ Connected'
  BY <1>1, IdleShape DEF Ready, Connected, Serves
<1>4. Excused'
  BY DEF SessionParts, Excused
<1> QED BY <1>2, <1>3, <1>4 DEF SessionParts

LEMMA SessionOpen ==
  ASSUME Always, SessionParts, NEW t \in Tasks,
         Connect(t) \/ SelectId(t) \/ InsertId(t) \/ CommitId(t)
  PROVE  SessionParts'
<1>1. /\ TaskTypeOK /\ FileTypeOK /\ VaultTypeOK /\ CountTypeOK /\ task[t] \in Task
  BY PartTypes DEF Always
<1>2. UNCHANGED <<key, keys, badTags>> /\ Step(t)
  BY DEF Connect, SelectId, InsertId, CommitId, vaultVars, Step
<1>3. task[t].op = "unlock"
  BY PlaceTells DEF Connect, SelectId, InsertId, CommitId, At
<1>4. Opened(task[t])
  BY <1>3 DEF SessionParts, Openers
<1>5. writer \in {0, db} /\ (writer = 0 => work = store)
  BY DEF SessionParts, Connected
<1>6. {"select", "insert", "commit", "finish"} \subseteq Places
  BY DEF Places
<1>7. CASE Connect(t)
  <2>1. writer = 0 /\ db' # 0 /\ UNCHANGED <<store, work, writer>>
    BY <1>1, <1>4, <1>7 DEF Connect, At, Opened, CountTypeOK, fileVars
  <2>2. task'[t].at = "select" /\ task'[t].op = "unlock"
    BY <1>1, <1>3, <1>6, <1>7, GotoSteps DEF Connect
  <2>3. Opened(task[t])'
    BY <2>1, <2>2 DEF Opened
  <2>4. Salted'
    BY <1>2, <2>1 DEF SessionParts, Salted
  <2> QED BY <1>2, <1>3, <1>5, <2>1, <2>2, <2>3, <2>4, OpenFrame
<1>8. CASE SelectId(t)
  <2>1. writer = 0 /\ db # 0 /\ UNCHANGED <<db, store, work, writer>>
    BY <1>4, <1>8 DEF SelectId, At, Opened, fileVars
  <2>2. Salted'
    BY <1>2, <2>1 DEF SessionParts, Salted
  <2>3. Seen(db) = store
    BY <2>1 DEF Seen
  <2>4. task'[t].op = "unlock" /\ Opened(task[t])'
    <3>1. CASE store.id # 0
      <4>1. vaultId' = store.id /\ Goto(t, "commit")
        BY <1>8, <2>3, <3>1 DEF SelectId
      <4>2. task'[t].at = "commit" /\ task'[t].op = "unlock"
        BY <1>1, <1>3, <1>6, <4>1, GotoSteps
      <4>3. Seen(db)' = store
        BY <2>1 DEF Seen
      <4> QED BY <2>1, <3>1, <4>1, <4>2, <4>3 DEF Opened
    <3>2. CASE store.id = 0
      <4>1. /\ vaultId' = drawn + 1 /\ drawn + 1 \in Nat /\ drawn + 1 # 0
            /\ task' = [task EXCEPT ![t].at = "insert", ![t].secret = drawn + 1]
        BY <1>1, <1>8, <2>3, <3>2 DEF SelectId, CountTypeOK
      <4>2. task'[t].at = "insert" /\ task'[t].op = "unlock" /\ task'[t].secret = drawn + 1
        <5> DEFINE n == drawn + 1
        <5>1. n \in Nat /\ "insert" \in Places /\ task' = [task EXCEPT ![t].at = "insert", ![t].secret = n]
          BY <1>6, <4>1
        <5> HIDE DEF n
        <5>2. task'[t].at = "insert" /\ task'[t].secret = n /\ task'[t].op = task[t].op
          BY <1>1, <5>1, KeepSteps
        <5> QED BY <1>3, <5>2 DEF n
      <4> QED BY <2>1, <3>2, <4>1, <4>2 DEF Opened
    <3> QED BY <3>1, <3>2
  <2> QED BY <1>2, <1>3, <1>5, <2>1, <2>2, <2>4, OpenFrame
<1>9. CASE InsertId(t)
  <2>1. writer = 0 /\ db # 0 /\ store.id = 0 /\ vaultId = task[t].secret /\ vaultId # 0
    BY <1>4, <1>9 DEF InsertId, At, Opened
  <2>2. Seen(db) = store /\ MayWrite(db) /\ UNCHANGED <<db, vaultId>>
    BY <1>9, <2>1 DEF InsertId, Seen, MayWrite, vaultVars
  <2>3. /\ writer' = db /\ work' = [store EXCEPT !.id = vaultId] /\ UNCHANGED store
        /\ Goto(t, "commit")
    BY <1>9, <2>1, <2>2 DEF InsertId, WriteTo
  <2>4. task'[t].at = "commit" /\ task'[t].op = "unlock"
    BY <1>1, <1>3, <1>6, <2>3, GotoSteps
  <2>5. Seen(db)' = work' /\ work'.id = vaultId
    BY <1>1, <2>2, <2>3 DEF Seen, FileTypeOK, Database
  <2>6. Opened(task[t])'
    BY <2>1, <2>2, <2>3, <2>4, <2>5 DEF Opened
  <2>7. Salted'
    BY <1>2, <2>3 DEF SessionParts, Salted
  <2> QED BY <1>2, <1>3, <2>1, <2>2, <2>3, <2>4, <2>6, <2>7, OpenFrame
<1>10. CASE CommitId(t)
  <2>1. db # 0 /\ vaultId = Seen(db).id /\ vaultId # 0 /\ store.id \in {0, vaultId}
    BY <1>4, <1>10 DEF CommitId, At, Opened
  <2>2. UNCHANGED <<db, vaultId>> /\ task'[t].at = "finish" /\ task'[t].op = "unlock"
    BY <1>1, <1>3, <1>6, <1>10, GotoSteps DEF CommitId, vaultVars
  <2>3. writer' = 0 /\ work' = store' /\ store'.id = vaultId
    <3>1. CASE writer = db
      BY <1>10, <2>1, <3>1 DEF CommitId, Commit, Seen
    <3>2. CASE writer # db
      BY <1>5, <1>10, <2>1, <3>2 DEF CommitId, Commit, Seen, fileVars
    <3> QED BY <3>1, <3>2
  <2>4. Salted'
    BY <1>2, <2>1, <2>3 DEF SessionParts, Salted
  <2>5. Seen(db)' = store'
    BY <2>1, <2>2, <2>3 DEF Seen
  <2>6. Opened(task[t])'
    BY <2>1, <2>2, <2>3, <2>5 DEF Opened
  <2> QED BY <1>2, <1>3, <2>1, <2>2, <2>3, <2>4, <2>6, OpenFrame
<1> QED BY <1>7, <1>8, <1>9, <1>10

LEMMA SessionFinishUnlock ==
  ASSUME Always, SessionParts, NEW t \in Tasks, FinishUnlock(t)
  PROVE  SessionParts'
<1>1. TaskTypeOK /\ task[t].password \in Passwords
  BY PartTypes DEF Always, Task
<1>2. task[t].op = "unlock" /\ task[t].at = "finish"
  BY DEF FinishUnlock, At
<1>3. Opened(task[t]) /\ \A o \in Tasks : o # t => task[o] = Idle
  BY <1>2 DEF SessionParts, Openers
<1>4. writer = 0 /\ db # 0 /\ vaultId = Seen(db).id /\ vaultId # 0
  BY <1>2, <1>3 DEF Opened
<1>5. Seen(db) = store /\ work = store
  BY <1>4 DEF Seen, SessionParts, Connected
<1>6. \A o \in Tasks : task'[o] = Idle
  BY <1>1, <1>3, ReturnSteps DEF FinishUnlock
<1>7. Derive(task[t].password) /\ UNCHANGED <<db, vaultId, store, work, writer, badTags>>
  BY DEF FinishUnlock, fileVars
<1> QED BY <1>1, <1>4, <1>5, <1>6, <1>7, IdleShape, SessionDerive

LEMMA SessionLock ==
  ASSUME Always, SessionParts, Lock \/ AutoLock
  PROVE  SessionParts'
<1>1. VaultTypeOK /\ TaskTypeOK /\ task' = Marked /\ LockNow
  BY PartTypes DEF Always, Lock, AutoLock
<1>2. key' = 0 /\ UNCHANGED <<db, vaultId, store, work, writer, badTags>>
  BY <1>1 DEF LockNow, fileVars
<1>3. /\ DOMAIN keys' = DOMAIN keys /\ DOMAIN keys = 1 .. Len(keys)
      /\ \A k \in DOMAIN keys : keys'[k].salt = keys[k].salt /\ keys'[k].password = keys[k].password
  BY <1>1, ZeroedKeys DEF LockNow, VaultTypeOK
<1>4. \A o \in Tasks : /\ task'[o].op = task[o].op /\ task'[o].at = task[o].at
                       /\ task'[o].conn = task[o].conn /\ task'[o].secret = task[o].secret
                       /\ task[o] = Idle => task'[o] = Idle
  BY <1>1, MarkedSteps
<1>5. Salted'
  BY <1>2, <1>3 DEF SessionParts, Salted
<1>6. Openers'
  <2>1. Seen(db)' = Seen(db)
    BY <1>2 DEF Seen
  <2>2. ASSUME NEW o \in Tasks, task'[o].op = "unlock"
        PROVE  Opened(task[o])' /\ \A r \in Tasks : r # o => task'[r] = Idle
    BY <1>2, <1>4, <2>1, <2>2 DEF SessionParts, Openers, Opened
  <2> QED BY <2>2 DEF Openers
<1>7. Ready' /\ Connected'
  BY <1>2, <1>4 DEF SessionParts, Ready, Connected, Serves
<1>8. Excused'
  BY <1>2, <1>3 DEF SessionParts, Excused, Always, Ranges
<1> QED BY <1>5, <1>6, <1>7, <1>8 DEF SessionParts

LEMMA SessionEnds ==
  ASSUME Always, SessionParts, Shutdown \/ Crash
  PROVE  SessionParts'
<1>1. VaultTypeOK /\ ProcessEnds
  BY PartTypes DEF Always, Shutdown, Crash
<1>2. /\ key' = 0 /\ db' = 0 /\ writer' = 0 /\ work' = store /\ UNCHANGED <<store, badTags>>
      /\ \A o \in Tasks : task'[o] = Idle
  BY <1>1 DEF ProcessEnds
<1>3. /\ DOMAIN keys' = DOMAIN keys /\ DOMAIN keys = 1 .. Len(keys)
      /\ \A k \in DOMAIN keys : keys'[k].salt = keys[k].salt /\ keys'[k].password = keys[k].password
  BY <1>1, ZeroedKeys DEF ProcessEnds, VaultTypeOK
<1>4. Salted' /\ Excused'
  BY <1>2, <1>3 DEF SessionParts, Salted, Excused, Always, Ranges
<1>5. Openers' /\ Ready' /\ Connected'
  BY <1>2, IdleShape DEF Openers, Ready, Connected
<1> QED BY <1>4, <1>5 DEF SessionParts

LEMMA SessionNext == Always /\ Session /\ [Next]_vars => Session'
<1> SUFFICES ASSUME Always, Session, [Next]_vars, ~raced' PROVE SessionParts'
  BY DEF Session
<1>1. CASE Next
  <2>1. ~raced
    BY ZenonT(30), <1>1 DEF Next, Request, Step, Unlock, Call, List, Add, Get, Update, Delete, Start, Connect,
       SelectId, InsertId, CommitId, FinishUnlock, SelectRow, Decrypt, Write, CommitRow, Finish,
       Lock, AutoLock, Shutdown, Crash
  <2>2. SessionParts
    BY <2>1 DEF Session
  <2>3. ASSUME NEW t \in Tasks, Request(t) PROVE SessionParts'
    BY <2>2, <2>3, RequestCases, SessionUnlock, SessionStart
  <2>4. ASSUME NEW t \in Tasks, Step(t) PROVE SessionParts'
    BY <2>2, <2>4, SessionOpen, SessionFinishUnlock, SessionServe DEF Step
  <2> QED BY <1>1, <2>2, <2>3, <2>4, SessionLock, SessionEnds DEF Next
<1>2. CASE UNCHANGED vars
  BY <1>2 DEF vars, vaultVars, fileVars, Session, SessionParts, Salted, Openers, Opened, Seen, Ready,
     Connected, Excused
<1> QED BY <1>1, <1>2

LEMMA SessionInvariant == Spec => []Session
<1>1. Init => Session
  <2> SUFFICES ASSUME Init PROVE SessionParts
    BY DEF Session
  <2>1. /\ key = 0 /\ keys = <<>> /\ db = 0 /\ store = Empty /\ work = Empty /\ writer = 0
        /\ badTags = {} /\ \A t \in Tasks : task[t] = Idle
    BY DEF Init
  <2> QED BY <2>1, IdleShape DEF SessionParts, Salted, Openers, Ready, Connected, Excused
<1> QED BY <1>1, SessionNext, AlwaysInvariant, PTL DEF Spec

(* Every stored secret can be read in a later session with its password, and *)
(* so can every secret this session will store, unless two requests opened  *)
(* the database at once.                                                   *)
THEOREM StoredSecretsReadable == Spec => []SecretsStayReadable
<1>1. Always /\ Session => SecretsStayReadable
  <2> SUFFICES ASSUME Always, SessionParts
               PROVE  /\ \A c \in Ids : store.by[c] # 0 => /\ keys[store.by[c]].salt = store.id
                                                           /\ store.id # 0
                      /\ key # 0 => keys[key].salt = store.id
    BY DEF Session, SecretsStayReadable
  <2>1. DOMAIN keys = 1 .. Len(keys) /\ Len(keys) \in Nat
    BY PartTypes DEF Always, VaultTypeOK
  <2>2. \A n \in 0 .. Len(keys) : n # 0 => n \in DOMAIN keys
    BY <2>1
  <2> QED BY <2>2 DEF Always, Ranges, SessionParts, Salted
<1> QED BY <1>1, AlwaysInvariant, SessionInvariant, PTL

(* When no request is in progress nothing is left uncommitted, whatever      *)
(* failed or was locked meanwhile.                                         *)
THEOREM NothingUncommitted == Spec => []NothingLeftUncommitted
<1>1. Session => NothingLeftUncommitted
  BY IdleShape DEF Session, SessionParts, Connected, NothingLeftUncommitted, Quiet
<1> QED BY <1>1, SessionInvariant, PTL

(* A decryption fails only for another password, or because the vault was    *)
(* locked while the request waited.                                        *)
THEOREM FailuresExcused == Spec => []BadTagsAreExcused
<1>1. Session => BadTagsAreExcused
  BY DEF Session, SessionParts, Excused, BadTagsAreExcused
<1> QED BY <1>1, SessionInvariant, PTL

-----------------------------------------------------------------------------
(* What is stored.  Unlike what is proved above this holds however requests  *)
(* overlap, two that open the database included: the connections they use   *)
(* may differ, but one at a time holds the write lock, what it sees goes     *)
(* beyond what is committed, and no two additions are of one credential.     *)
Adds(u) == u.op = "add"

Attached ==
    \A t \in Tasks : /\ Serves(task[t]) => task[t].conn # 0
                     /\ task[t].op = "unlock" /\ task[t].at # "connect" => db # 0

(* What is marked deleted is a row of the table. *)
MarksRows(d) == d.deleted \subseteq Rows(d)

Behind == /\ Keeps(store, work) /\ (writer = 0 => work = store)
          /\ MarksRows(store) /\ MarksRows(work)

Untaken(c) == store.by[c] = 0 /\ work.by[c] = 0

Apart ==
    /\ \A c \in Ids : c > added => Untaken(c)
    /\ \A t \in Tasks : Adds(task[t]) =>
          /\ task[t].cred <= added /\ task[t].at # "decrypt"
          /\ task[t].at = "write" => Untaken(task[t].cred)
          /\ \A o \in Tasks : o # t /\ Adds(task[o]) => task[o].cred # task[t].cred

(* A request that waits for its COMMIT can rely on it. *)
Kept ==
    \A t \in Tasks : task[t].at = "commit" =>
        Holds(store, task[t]) \/ (writer = task[t].conn /\ Holds(work, task[t]))

(* The id a deletion is about to be of is unknown, or has a row by now.     *)
Erases(u) == u.op = "delete"
Names ==
    \A t \in Tasks : Erases(task[t]) =>
        /\ task[t].at # "decrypt"
        /\ task[t].at = "write" => task[t].cred = Unknown \/ work.by[task[t].cred] # 0

Safe == Attached /\ Behind /\ Apart /\ Kept /\ Names

LEMMA KeepsOn ==
  ASSUME NEW d \in Database, NEW e \in Database, NEW f \in Database
  PROVE  /\ Keeps(d, d)
         /\ Keeps(d, e) /\ Keeps(e, f) => Keeps(d, f)
<1>1. d.id \in Nat /\ e.id \in Nat /\ \A c \in Ids : d.by[c] \in Nat /\ e.by[c] \in Nat
  BY DEF Database
<1> QED BY <1>1 DEF Keeps

LEMMA HoldsOn ==
  ASSUME NEW d, NEW e, Keeps(d, e), NEW u, Holds(d, u),
         Adds(u) => u.cred \in Ids /\ u.key # 0
  PROVE  Holds(e, u)
BY DEF Keeps, Holds, Adds

(* What one step does to the database. *)
FileTurns ==
    \/ UNCHANGED fileVars
    \/ writer # 0 /\ store' = work /\ writer' = 0 /\ UNCHANGED work
    \/ /\ writer' # 0 /\ writer \in {0, writer'} /\ UNCHANGED store /\ Keeps(work, work')
       /\ MarksRows(work) => MarksRows(work')

LEMMA AddKeeps ==
  ASSUME NEW d \in Database, NEW u \in Task, u.op \in {"add", "delete"}, u.cred \in Ids,
         Adds(u) => d.by[u.cred] = 0,
         Erases(u) => u.cred = Unknown \/ d.by[u.cred] # 0
  PROVE  /\ Keeps(d, Changed(d, u)) /\ Holds(Changed(d, u), u)
         /\ MarksRows(d) => MarksRows(Changed(d, u))
         /\ \A c \in Ids : Changed(d, u).by[c] = d.by[c] \/ (Adds(u) /\ c = u.cred)
<1>1. CASE u.op = "add"
  <2>1. Changed(d, u) = [d EXCEPT !.by[u.cred] = u.key]
    BY <1>1 DEF Changed
  <2> DEFINE e == [d EXCEPT !.by[u.cred] = u.key]
  <2>2. e.id = d.id /\ e.deleted = d.deleted
        /\ \A c \in Ids : e.by[c] = IF c = u.cred THEN u.key ELSE d.by[c]
    BY DEF Database
  <2> HIDE DEF e
  <2>3. Keeps(d, e) /\ Holds(e, u)
    BY <1>1, <2>2 DEF Keeps, Holds, Adds
  <2>4. MarksRows(d) => MarksRows(e)
    BY <1>1, <2>2 DEF MarksRows, Rows, Adds
  <2> QED BY <1>1, <2>1, <2>2, <2>3, <2>4 DEF e, Adds
<1>2. CASE u.op = "delete"
  <2>1. Changed(d, u) = [d EXCEPT !.deleted = @ \cup (Rows(d) \cap {u.cred})]
    BY <1>2 DEF Changed
  <2> DEFINE e == [d EXCEPT !.deleted = @ \cup (Rows(d) \cap {u.cred})]
  <2>2. e.id = d.id /\ e.by = d.by /\ e.deleted = d.deleted \cup (Rows(d) \cap {u.cred})
    BY DEF Database
  <2> HIDE DEF e
  <2>3. Keeps(d, e)
    BY <2>2 DEF Keeps
  <2>4. Holds(e, u)
    BY <1>2, <2>2 DEF Holds, Erases, Rows
  <2>5. MarksRows(d) => MarksRows(e)
    BY <2>2 DEF MarksRows, Rows
  <2> QED BY <1>2, <2>1, <2>2, <2>3, <2>4, <2>5 DEF Adds, e
<1> QED BY <1>1, <1>2

LEMMA StepTurns ==
  ASSUME Always, Safe, NEW t \in Tasks, Step(t)
  PROVE  /\ FileTurns /\ UNCHANGED added
         /\ \A c \in Ids : work'.by[c] = work.by[c] \/ (Adds(task[t]) /\ c = task[t].cred)
         /\ task'[t].at = "commit" =>
                task'[t].op = "unlock" \/ (writer' = task[t].conn /\ Holds(work', task[t]))
<1>1. /\ TaskTypeOK /\ FileTypeOK /\ CountTypeOK /\ task[t] \in Task /\ store \in Database
      /\ work \in Database /\ Named /\ VaultTypeOK
  BY PartTypes DEF Always, FileTypeOK
<1>2. Keeps(work, work) /\ Keeps(store, work) /\ (writer = 0 => work = store)
  BY <1>1, KeepsOn DEF Safe, Behind
<1>3. UNCHANGED added
  BY DEF Step, Connect, SelectId, InsertId, CommitId, FinishUnlock, SelectRow, Decrypt, Write,
         CommitRow, Finish, countVars
<1>4. CASE InsertId(t)
  <2>1. task[t].op = "unlock" /\ db # 0
    BY <1>4, PlaceTells DEF InsertId, At, Safe, Attached
  <2>2. task'[t] = Idle \/ task'[t].op = "unlock"
    BY <2>1, <1>1, <1>4, GotoSteps, ReturnSteps DEF InsertId, Places
  <2>3. MayWrite(db) => Seen(db) = work
    BY <1>2 DEF MayWrite, Seen
  <2>4. ASSUME work.id = 0, NEW n, work' = [work EXCEPT !.id = n]
        PROVE  /\ Keeps(work, work') /\ work'.by = work.by
               /\ MarksRows(work) => MarksRows(work')
    BY <1>1, <2>4 DEF Keeps, Database, MarksRows, Rows
  <2>5. UNCHANGED fileVars \/ (MayWrite(db) /\ writer' = db /\ UNCHANGED store
                               /\ Keeps(work, work') /\ work'.by = work.by
                               /\ (MarksRows(work) => MarksRows(work')))
    BY <1>2, <1>4, <2>3, <2>4 DEF InsertId, WriteTo
  <2> QED BY <1>3, <2>1, <2>2, <2>5, IdleShape DEF FileTurns, MayWrite, fileVars
<1>5. CASE Write(t)
  <2> DEFINE u == task[t]
  <2>1. Serves(u) /\ u.conn # 0 /\ u.at = "write"
    BY <1>5, PlaceTells DEF Write, At, Safe, Attached
  <2>2. MayWrite(u.conn) => Seen(u.conn) = work
    BY <1>2 DEF MayWrite, Seen
  <2>3. CASE ~MayWrite(u.conn)
    BY <1>1, <1>3, <1>5, <2>3, ReturnSteps, IdleShape DEF Write, FileTurns, fileVars
  <2>4. CASE MayWrite(u.conn)
    <3>1. writer' = u.conn /\ work' = Changed(work, u) /\ UNCHANGED store
      BY <1>5, <2>2, <2>4 DEF Write, WriteTo
    <3>2. /\ Keeps(work, work') /\ Holds(work', u)
          /\ MarksRows(work) => MarksRows(work')
          /\ \A c \in Ids : work'.by[c] = work.by[c] \/ (Adds(u) /\ c = u.cred)
      <4>1. CASE u.op \in {"add", "delete"}
        <5>1. /\ u.cred \in Ids /\ (Adds(u) => work.by[u.cred] = 0)
              /\ Erases(u) => u.cred = Unknown \/ work.by[u.cred] # 0
          BY <1>1, <2>1, <4>1 DEF Named, Safe, Apart, Untaken, Names
        <5> HIDE DEF u
        <5>2. u \in Task
          BY <1>1 DEF u
        <5> QED BY ONLY <1>1, <3>1, <4>1, <5>1, <5>2, AddKeeps
      <4>2. CASE u.op \notin {"add", "delete"}
        BY <1>2, <3>1, <4>2 DEF Changed, Holds
      <4> QED BY <4>1, <4>2
    <3> QED BY <1>3, <2>1, <2>4, <3>1, <3>2 DEF FileTurns, MayWrite
  <2> QED BY <2>3, <2>4
<1>6. CASE CommitId(t) \/ CommitRow(t)
  <2>1. \E c : c # 0 /\ Commit(c)
    BY <1>6, PlaceTells DEF CommitId, CommitRow, At, Safe, Attached
  <2>2. task'[t].at = "finish"
    BY <1>1, <1>6, GotoSteps DEF CommitId, CommitRow, Places
  <2> QED BY <1>3, <2>1, <2>2 DEF Commit, FileTurns, fileVars
<1>7. CASE Connect(t) \/ SelectId(t) \/ FinishUnlock(t) \/ SelectRow(t) \/ Decrypt(t) \/ Finish(t)
  <2>1. UNCHANGED fileVars
    BY <1>7 DEF Connect, SelectId, FinishUnlock, SelectRow, Decrypt, Finish
  <2>2. task'[t].at = "commit" => task'[t].op = "unlock"
    <3>1. CASE SelectId(t)
      BY <3>1, StepKeeps, IdleShape DEF SelectId, Step, Always
    <3>2. CASE Connect(t) \/ FinishUnlock(t) \/ Decrypt(t) \/ Finish(t)
      BY <1>1, <3>2, GotoSteps, ReturnSteps, IdleShape
         DEF Connect, FinishUnlock, Decrypt, Finish, Places
    <3>3. CASE SelectRow(t)
      <4>1. CASE Found(task[t])
        <5> DEFINE n == Seen(task[t].conn).by[task[t].cred]
        <5>1. n \in Nat
          BY <1>1, <4>1, SeenTypes DEF Found, Named, Database
        <5>2. task' = [task EXCEPT ![t].at = "decrypt", ![t].secret = n]
          BY <3>3, <4>1 DEF SelectRow
        <5> HIDE DEF n
        <5>3. "decrypt" \in Places
          BY DEF Places
        <5>4. task'[t].at = "decrypt"
          BY ONLY <1>1, <5>1, <5>2, <5>3, KeepSteps, Zenon
        <5> QED BY <5>4
      <4>2. CASE ~Found(task[t])
        BY <1>1, <3>3, <4>2, ReturnSteps, IdleShape DEF SelectRow
      <4> QED BY <4>1, <4>2
    <3> QED BY <1>7, <3>1, <3>2, <3>3
  <2> QED BY <1>3, <2>1, <2>2 DEF FileTurns, fileVars
<1> QED BY <1>4, <1>5, <1>6, <1>7 DEF Step

LEMMA BehindOn ==
  ASSUME FileTypeOK, Behind, FileTurns
  PROVE  Behind' /\ Keeps(store, store')
<1>1. store \in Database /\ work \in Database /\ writer \in Nat
  BY DEF FileTypeOK
<1>2. Keeps(store, store) /\ Keeps(work, work)
  BY <1>1, KeepsOn
<1>3. CASE UNCHANGED fileVars
  BY <1>2, <1>3 DEF fileVars, Behind
<1>4. CASE writer # 0 /\ store' = work /\ writer' = 0 /\ UNCHANGED work
  BY <1>2, <1>4 DEF Behind
<1>5. CASE /\ writer' # 0 /\ UNCHANGED store /\ Keeps(work, work')
           /\ MarksRows(work) => MarksRows(work')
  <2>1. Keeps(store, work')
    BY <1>1, <1>5 DEF Keeps, Behind, Database
  <2> QED BY <1>2, <1>5, <2>1 DEF Behind
<1> QED BY <1>3, <1>4, <1>5 DEF FileTurns

(* What a request that waits for its COMMIT wrote stays written, until it is *)
(* stored.                                                                   *)
LEMMA KeptOn ==
  ASSUME Always, Safe, FileTurns, NEW t \in Tasks, task[t].at = "commit"
  PROVE  /\ Holds(store', task[t]) \/ (writer' = task[t].conn /\ Holds(work', task[t]))
         /\ Holds(store, task[t]) => Holds(store', task[t])
<1> DEFINE u == task[t]
<1>1. Adds(u) => u.cred \in Ids /\ u.key # 0
  BY PartTypes DEF Always, Named, Adds, Ranges, Serves
<1>2. Keeps(store, store') /\ Keeps(store, work)
  BY BehindOn, PartTypes DEF Always, Safe, Behind
<1>3. Holds(store, u) => Holds(store', u)
  BY <1>1, <1>2, HoldsOn
<1>4. u.op = "unlock" \/ (Serves(u) /\ u.conn # 0)
  BY PlaceTells DEF Safe, Attached
<1>5. CASE u.op = "unlock"
  BY <1>5 DEF Holds
<1>6. CASE Holds(store, u)
  BY <1>3, <1>6
<1>7. CASE u.conn # 0 /\ ~Holds(store, u)
  <2>1. writer = u.conn /\ Holds(work, u)
    BY <1>7 DEF Safe, Kept
  <2>2. CASE UNCHANGED fileVars
    BY <2>1, <2>2 DEF fileVars
  <2>3. CASE store' = work
    BY <1>7, <2>1, <2>3
  <2>4. CASE writer' # 0 /\ writer \in {0, writer'} /\ Keeps(work, work')
    BY <1>1, <1>7, <2>1, <2>4, HoldsOn
  <2> QED BY <1>7, <2>2, <2>3, <2>4 DEF FileTurns
<1> QED BY <1>3, <1>4, <1>5, <1>6, <1>7

(* A deletion has one statement. *)
LEMMA ErasesOn ==
  ASSUME Always, Safe, NEW t \in Tasks, Step(t), Erases(task[t])
  PROVE  task'[t] = Idle \/ task'[t].at \in {"commit", "finish"}
<1>1. TaskTypeOK
  BY PartTypes DEF Always
<1>2. ~SelectRow(t) /\ ~Connect(t) /\ ~SelectId(t) /\ ~InsertId(t) /\ ~CommitId(t)
      /\ ~FinishUnlock(t)
  BY PlaceTells DEF Erases, SelectRow, Connect, SelectId, InsertId, CommitId, FinishUnlock, At
<1>3. Write(t) \/ CommitRow(t) => Return(t) \/ Goto(t, "commit") \/ Goto(t, "finish")
  BY DEF Write, CommitRow
<1>4. Finish(t) => Return(t)
  BY DEF Finish
<1>5. ~Decrypt(t)
  BY DEF Safe, Names, Erases, Decrypt, At
<1> QED BY <1>1, <1>2, <1>3, <1>4, <1>5, GotoSteps, ReturnSteps DEF Step, Places

(* A request that goes on. *)
LEMMA SafeStep ==
  ASSUME Always, Safe, NEW t \in Tasks, Step(t)
  PROVE  Safe'
<1>1. /\ FileTurns /\ UNCHANGED added
      /\ \A c \in Ids : work'.by[c] = work.by[c] \/ (Adds(task[t]) /\ c = task[t].cred)
      /\ task'[t].at = "commit" =>
             task'[t].op = "unlock" \/ (writer' = task[t].conn /\ Holds(work', task[t]))
  BY StepTurns
<1>2. /\ \A o \in Tasks : o # t => task'[o] = task[o]
      /\ \/ task'[t] = Idle
         \/ /\ task'[t].op = task[t].op /\ task'[t].cred = task[t].cred
            /\ task'[t].conn = task[t].conn /\ task'[t].key = task[t].key
  BY StepKeeps DEF Always
<1>3. /\ TaskTypeOK /\ FileTypeOK /\ CountTypeOK /\ Named /\ VaultTypeOK
  BY PartTypes DEF Always
<1>4. ASSUME Adds(task[t]) PROVE task'[t] = Idle \/ task'[t].at \in {"commit", "finish"}
  <2>1. ~SelectRow(t) /\ ~Connect(t) /\ ~SelectId(t) /\ ~InsertId(t) /\ ~CommitId(t)
        /\ ~FinishUnlock(t) /\ ~Decrypt(t)
    BY <1>4, PlaceTells DEF Adds, SelectRow, Connect, SelectId, InsertId, CommitId, FinishUnlock,
       Decrypt, At, Safe, Apart
  <2>2. Write(t) \/ CommitRow(t) \/ Finish(t)
    BY <2>1 DEF Step
  <2> QED BY <1>3, <2>2, GotoSteps, ReturnSteps DEF Write, CommitRow, Finish, Places
<1>5. Attached'
  <2>1. \A o \in Tasks : Serves(task'[o]) => task'[o].conn # 0
    BY <1>2, IdleShape DEF Safe, Attached, Serves
  <2>2. ASSUME NEW o \in Tasks, task'[o].op = "unlock", task'[o].at # "connect" PROVE db' # 0
    <3>1. CASE Connect(t)
      BY <1>3, <3>1 DEF Connect, CountTypeOK
    <3>2. CASE ~Connect(t)
      <4>1. db' = db
        BY <3>2 DEF Step, SelectId, InsertId, CommitId, FinishUnlock, SelectRow, Decrypt, Write,
                    CommitRow, Finish, vaultVars
      <4>2. o = t => task[t].op = "unlock" /\ task[t].at # "connect"
        <5>1. o = t => task[t].op = "unlock"
          BY <1>2, <2>2, IdleShape
        <5>2. task[t].at # "connect"
          BY <3>2, PlaceTells DEF Step, SelectId, InsertId, CommitId, FinishUnlock, SelectRow,
             Decrypt, Write, CommitRow, Finish, At
        <5> QED BY <5>1, <5>2
      <4> QED BY <1>2, <2>2, <4>1, <4>2 DEF Safe, Attached
    <3> QED BY <3>1, <3>2
  <2> QED BY <2>1, <2>2 DEF Attached, Serves
<1>6. Behind'
  BY <1>1, <1>3, BehindOn DEF Safe
<1>7. Apart'
  <2>1. \A c \in Ids : store'.by[c] = store.by[c] \/ store'.by[c] = work.by[c]
    BY <1>1 DEF FileTurns, fileVars
  <2>2. \A c \in Ids : Untaken(c) /\ ~(Adds(task[t]) /\ c = task[t].cred) => Untaken(c)'
    BY <1>1, <2>1 DEF Untaken
  <2>3. \A c \in Ids : c > added => Untaken(c)'
    <3>1. Adds(task[t]) => task[t].cred \in Ids /\ task[t].cred <= added
      BY <1>3 DEF Safe, Apart, Named, Adds
    <3>2. \A c \in Ids : c > added => ~(c <= added)
      BY <1>3, Constants DEF Ids, CountTypeOK
    <3> QED BY <2>2, <3>1, <3>2 DEF Safe, Apart
  <2>4. ASSUME NEW o \in Tasks, Adds(task'[o])
        PROVE  /\ Adds(task[o]) /\ task'[o].cred = task[o].cred
               /\ task'[o].cred <= added /\ task'[o].at # "decrypt"
               /\ task'[o].at = "write" => o # t /\ task[o].at = "write"
    BY <1>2, <1>4, <2>4, IdleTask DEF Safe, Apart, Adds
  <2>5. ASSUME NEW o \in Tasks, Adds(task'[o]), task'[o].at = "write" 
        PROVE  store'.by[task'[o].cred] = 0 /\ work'.by[task'[o].cred] = 0
    <3>1. Untaken(task[o].cred) /\ task[o].cred \in Ids /\ task'[o] = task[o]
          /\ ~(Adds(task[t]) /\ task[o].cred = task[t].cred)
      BY <1>2, <1>3, <2>4, <2>5 DEF Safe, Apart, Named, Adds
    <3> QED BY <2>2, <3>1 DEF Untaken
  <2> QED BY <1>1, <2>3, <2>4, <2>5 DEF Safe, Apart, Adds, Untaken
<1>8. Kept'
  <2>1. ASSUME NEW o \in Tasks, task'[o].at = "commit"
        PROVE  Holds(store', task'[o]) \/ (writer' = task'[o].conn /\ Holds(work', task'[o]))
    <3>1. CASE o = t
      BY <1>1, <1>2, <2>1, <3>1, IdleShape DEF Holds
    <3>2. CASE o # t
      BY <1>1, <1>2, <2>1, <3>2, KeptOn
    <3> QED BY <3>1, <3>2
  <2> QED BY <2>1 DEF Kept, Holds
<1>9. Names'
  <2>1. Keeps(work, work')
    BY <1>1, <1>3, KeepsOn DEF FileTypeOK, FileTurns, fileVars
  <2>2. Erases(task'[t]) => task'[t].at \in {"commit", "finish"}
    <3>1. Erases(task'[t]) => Erases(task[t]) /\ task'[t] # Idle
      BY <1>2, IdleTask DEF Erases
    <3> QED BY <3>1, ErasesOn
  <2>3. ASSUME NEW o \in Tasks, o # t, Erases(task[o])
        PROVE  /\ task'[o] = task[o] /\ task[o].cred \in Ids
               /\ task[o].at # "decrypt"
               /\ task[o].at = "write" => task[o].cred = Unknown \/ work'.by[task[o].cred] # 0
    <3>1. task'[o] = task[o] /\ task[o].cred \in Ids
      BY <1>2, <1>3, <2>3 DEF Named, Erases
    <3> QED BY <2>1, <2>3, <3>1 DEF Safe, Names, Keeps
  <2> QED BY <1>2, <2>2, <2>3 DEF Names, Erases
<1> QED BY <1>5, <1>6, <1>7, <1>8, <1>9 DEF Safe

(* A new request: an addition is of a credential nobody else is adding.      *)
LEMMA RequestTurns ==
  ASSUME Always, NEW t \in Tasks, Request(t)
  PROVE  /\ UNCHANGED <<db, fileVars>> /\ added' \in {added, added + 1}
         /\ \A o \in Tasks : o # t => task'[o] = task[o]
         /\ \/ task'[t] = Idle
            \/ task'[t].op = "unlock" /\ task'[t].at = "connect"
            \/ /\ Serves(task'[t]) /\ task'[t].at \in {"select", "write"}
               /\ task'[t].conn = db /\ db # 0
               /\ Adds(task'[t]) => /\ task'[t].cred = added + 1 /\ added' = added + 1
                                    /\ task'[t].cred \in Ids
               /\ Erases(task'[t]) => task'[t].cred \in Nameable
<1>1. ASSUME NEW p \in Passwords, Unlock(t, p)
      PROVE  /\ UNCHANGED <<db, fileVars, added>> /\ \A o \in Tasks : o # t => task'[o] = task[o]
             /\ task'[t] = Idle \/ (task'[t].op = "unlock" /\ task'[t].at = "connect")
  <2>1. UNCHANGED added
    BY <1>1 DEF Unlock
  <2>2. CASE db = 0
    BY <1>1, <2>1, <2>2, OpeningTask DEF vaultVars
  <2>3. CASE db # 0
    BY <1>1, <2>1, <2>3, UnlockedTask DEF Unlock, Call
  <2> QED BY <2>2, <2>3
<1>2. /\ {"list", "add", "get", "update", "delete"} \subseteq Ops
      /\ {"select", "write"} \subseteq Places
  BY DEF Ops, Places
<1>3. ASSUME NEW op \in {"list", "add", "get", "update", "delete"},
             NEW place \in {"select", "write"}, NEW c \in {0} \cup Ids, Start(t, op, place, c)
      PROVE  /\ UNCHANGED <<db, fileVars>> /\ db # 0
             /\ \A o \in Tasks : o # t => task'[o] = task[o]
             /\ Serves(task'[t]) /\ task'[t].at \in {"select", "write"} /\ task'[t].conn = db
             /\ task'[t].op = op /\ task'[t].cred = c
  <2>1. op \in Ops /\ place \in Places /\ op \notin {"none", "unlock"}
    BY <1>2
  <2>2. /\ task'[t].op = op /\ task'[t].at = place /\ task'[t].conn = db /\ task'[t].cred = c
        /\ \A o \in Tasks : o # t => task'[o] = task[o]
    BY <1>3, <2>1, StartedTask
  <2>3. UNCHANGED <<db, fileVars>> /\ db # 0
    BY <1>3 DEF Start
  <2> QED BY <2>1, <2>2, <2>3 DEF Serves
<1>4. CASE Add(t)
  <2>1. added + 1 \in Ids
    <3>1. added \in Nat /\ calls \in 0 .. MaxCalls /\ (calls < MaxCalls => added + 1 \in Ids)
      BY PartTypes, Constants DEF Always, CountTypeOK, Ids, Unknown
    <3> QED BY <1>4, <3>1 DEF Add, Start, Call
  <2> QED BY <1>3, <1>4, <2>1 DEF Add, Adds, Erases
<1>5. CASE List(t) \/ \E c \in Ids : Get(t, c) \/ Update(t, c) \/ Delete(t, c)
  BY <1>3, <1>5 DEF List, Get, Update, Delete, Adds, Erases
<1> QED BY <1>1, <1>4, <1>5 DEF Request

LEMMA SafeRequest ==
  ASSUME Always, Safe, NEW t \in Tasks, Request(t)
  PROVE  Safe' /\ UNCHANGED store /\ task'[t].at # "finish"
         /\ \A o \in Tasks : o # t => task'[o] = task[o]
<1>1. /\ UNCHANGED <<db, store, work, writer>> /\ added' \in {added, added + 1}
      /\ \A o \in Tasks : o # t => task'[o] = task[o]
  BY RequestTurns DEF fileVars
<1>2. \/ task'[t] = Idle
      \/ task'[t].op = "unlock" /\ task'[t].at = "connect"
      \/ /\ Serves(task'[t]) /\ task'[t].at \in {"select", "write"}
         /\ task'[t].conn = db /\ db # 0
         /\ Adds(task'[t]) => /\ task'[t].cred = added + 1 /\ added' = added + 1
                              /\ task'[t].cred \in Ids
         /\ Erases(task'[t]) => task'[t].cred \in Nameable
  BY RequestTurns
<1>3. added \in Nat /\ Named
  BY PartTypes, Constants DEF Always, CountTypeOK
<1>4. Attached'
  BY <1>1, <1>2, IdleShape DEF Safe, Attached, Serves
<1>5. Behind'
  BY <1>1 DEF Safe, Behind, Keeps, MarksRows, Rows
<1>6. Apart'
  <2>1. \A c \in Ids : c > added' => Untaken(c)'
    BY <1>1, <1>3 DEF Safe, Apart, Untaken, Ids
  <2>2. ASSUME NEW o \in Tasks, Adds(task'[o]), o # t
        PROVE  /\ task'[o] = task[o] /\ task[o].cred \in Ids /\ task[o].cred <= added
               /\ task[o].cred # added + 1 /\ task[o].cred <= added'
    <3>1. task'[o] = task[o] /\ task[o].cred \in Ids /\ task[o].cred <= added
      BY <1>1, <1>3, <2>2 DEF Safe, Apart, Named, Adds
    <3> QED BY <1>1, <1>3, <3>1 DEF Ids
  <2>3. Adds(task'[t]) => /\ task'[t].cred = added + 1 /\ added' = added + 1
                          /\ task'[t].cred \in Ids /\ task'[t].at # "decrypt"
                          /\ store'.by[task'[t].cred] = 0 /\ work'.by[task'[t].cred] = 0
    BY <1>1, <1>2, <1>3, IdleTask DEF Safe, Apart, Untaken, Adds, Ids
  <2>4. ASSUME NEW o \in Tasks, Adds(task'[o])
        PROVE  /\ task'[o].cred <= added' /\ task'[o].at # "decrypt"
               /\ task'[o].at = "write" => store'.by[task'[o].cred] = 0 /\ work'.by[task'[o].cred] = 0
               /\ \A q \in Tasks : q # o /\ Adds(task'[q]) => task'[q].cred # task'[o].cred
    <3>1. CASE o = t
      BY <1>3, <2>2, <2>3, <2>4, <3>1
    <3>2. CASE o # t
      BY <1>1, <2>2, <2>3, <2>4, <3>2 DEF Safe, Apart, Untaken
    <3> QED BY <3>1, <3>2
  <2> QED BY <2>1, <2>4 DEF Apart, Adds, Untaken
<1>7. Kept'
  BY <1>1, <1>2, IdleTask DEF Safe, Kept, Holds
<1>8. Names'
  <2>1. Erases(task'[t]) => task'[t].cred = Unknown \/ work'.by[task'[t].cred] # 0
    <3>1. Erases(task'[t]) => task'[t].cred \in Nameable
      BY <1>2, IdleTask DEF Erases
    <3>2. Rows(store) \subseteq Rows(work)
      BY DEF Safe, Behind, Keeps, Rows
    <3> QED BY <1>1, <3>1, <3>2 DEF Nameable, Rows
  <2>2. Erases(task'[t]) => task'[t].at # "decrypt"
    BY <1>2, IdleTask DEF Erases
  <2> QED BY <1>1, <2>1, <2>2 DEF Safe, Names, Erases
<1> QED BY <1>1, <1>2, <1>4, <1>5, <1>6, <1>7, <1>8, IdleTask DEF Safe

LEMMA SafeLock ==
  ASSUME Always, Safe, Lock \/ AutoLock
  PROVE  Safe' /\ UNCHANGED store /\ \A t \in Tasks : task'[t].at = task[t].at
<1>1. TaskTypeOK /\ task' = Marked /\ UNCHANGED <<db, store, work, writer, added>>
  BY PartTypes DEF Always, Lock, AutoLock, LockNow, fileVars
<1>2. \A o \in Tasks : /\ task'[o].op = task[o].op /\ task'[o].at = task[o].at
                       /\ task'[o].cred = task[o].cred /\ task'[o].key = task[o].key
                       /\ task'[o].conn = task[o].conn
  <2>1. \A o \in Tasks : task'[o] = task[o] \/ task'[o] = [task[o] EXCEPT !.locked = TRUE]
    BY <1>1, MarkedSteps
  <2>2. \A u \in Task : [u EXCEPT !.locked = TRUE].cred = u.cred
    BY DEF Task
  <2> QED BY <1>1, <2>1, <2>2, MarkedSteps DEF TaskTypeOK
<1>3. Attached'
  BY <1>1, <1>2 DEF Safe, Attached, Serves
<1>4. Behind'
  BY <1>1 DEF Safe, Behind, Keeps, MarksRows, Rows
<1>5. Apart'
  BY <1>1, <1>2 DEF Safe, Apart, Untaken, Adds
<1>6. Kept'
  BY <1>1, <1>2 DEF Safe, Kept, Holds
<1>7. Names'
  BY <1>1, <1>2 DEF Safe, Names, Erases
<1> QED BY <1>1, <1>2, <1>3, <1>4, <1>5, <1>6, <1>7 DEF Safe

LEMMA SafeEnds ==
  ASSUME Always, Safe, Shutdown \/ Crash
  PROVE  Safe' /\ UNCHANGED store /\ \A t \in Tasks : task'[t].at # "finish"
<1>1. /\ UNCHANGED <<store, added>> /\ work' = store /\ writer' = 0
      /\ \A t \in Tasks : task'[t] = Idle
  BY DEF Shutdown, Crash, ProcessEnds
<1>2. Keeps(store, store)
  BY PartTypes, KeepsOn DEF Always, FileTypeOK
<1>3. Attached' /\ Kept'
  BY <1>1, IdleShape DEF Attached, Kept, Serves
<1>4. Behind'
  BY <1>1, <1>2 DEF Safe, Behind, MarksRows, Rows
<1>6. Names'
  BY <1>1, IdleTask DEF Names, Erases
<1>5. Apart'
  BY <1>1, IdleTask DEF Safe, Apart, Untaken, Adds
<1> QED BY <1>1, <1>3, <1>4, <1>5, <1>6, IdleTask DEF Safe

LEMMA SafeNext == Always /\ Safe /\ [Next]_vars => Safe'
<1> SUFFICES ASSUME Always, Safe, [Next]_vars PROVE Safe'
  OBVIOUS
<1>1. CASE Next
  BY <1>1, SafeStep, SafeRequest, SafeLock, SafeEnds DEF Next
<1>2. CASE UNCHANGED vars
  BY <1>2 DEF vars, vaultVars, fileVars, countVars, Safe, Attached, Behind, Apart, Kept, Untaken,
              Keeps, Holds, Serves, Adds, Names, Erases, MarksRows, Rows
<1> QED BY <1>1, <1>2

LEMMA SafeInit == Init => Safe
<1> SUFFICES ASSUME Init PROVE Safe
  OBVIOUS
<1>1. store = Empty /\ work = Empty /\ writer = 0 /\ \A t \in Tasks : task[t] = Idle
  BY DEF Init
<1>2. Keeps(Empty, Empty) /\ MarksRows(Empty) /\ \A c \in Ids : Empty.by[c] = 0
  BY DEF Empty, Keeps, MarksRows
<1> QED BY <1>1, <1>2, IdleShape, IdleTask 
    DEF Safe, Attached, Behind, Apart, Kept, Untaken, Adds, Serves, Names, Erases

(* A step that leaves a COMMIT behind is the COMMIT. *)
LEMMA StepStores ==
  ASSUME Always, Safe, Next
  PROVE  StoreKeeps
<1>1. FileTypeOK /\ TaskTypeOK /\ Keeps(store, store)
  BY PartTypes, KeepsOn DEF Always, FileTypeOK
<1>2. ASSUME NEW t \in Tasks, Step(t) PROVE StoreKeeps
  <2>1. FileTurns /\ Keeps(store, store') /\ \A o \in Tasks : o # t => task'[o] = task[o]
    BY <1>1, <1>2, StepTurns, StepKeeps, BehindOn DEF Always, Safe
  <2>2. ASSUME NEW o \in Tasks, task[o].at = "commit", task'[o].at = "finish"
        PROVE  Holds(store', task[o])
    <3>1. o = t
      BY <2>1, <2>2
    <3>2. CommitId(t) \/ CommitRow(t)
      BY <1>1, <1>2, <2>2, <3>1, PlaceTells, ReturnSteps, IdleTask
         DEF Step, Connect, SelectId, InsertId, FinishUnlock, SelectRow, Decrypt, Write, Finish, At
    <3>3. CASE CommitId(t)
      BY <3>1, <3>3 DEF CommitId, Holds
    <3>4. CASE CommitRow(t)
      <4>1. writer = task[t].conn => store' = work
        BY <3>4 DEF CommitRow, Commit
      <4>2. Holds(store, task[t]) \/ (writer = task[t].conn /\ Holds(work, task[t]))
        BY <2>2, <3>1 DEF Safe, Kept
      <4> QED BY <2>1, <2>2, <3>1, <4>1, <4>2, KeptOn
    <3> QED BY <3>2, <3>3, <3>4
  <2> QED BY <2>1, <2>2 DEF StoreKeeps, At
<1>3. ASSUME NEW t \in Tasks, Request(t) PROVE StoreKeeps
  BY <1>1, <1>3, SafeRequest DEF StoreKeeps, At
<1>4. CASE Lock \/ AutoLock \/ Shutdown \/ Crash
  BY <1>1, <1>4, SafeLock, SafeEnds DEF StoreKeeps, At
<1> QED BY <1>2, <1>3, <1>4 DEF Next

(* What is stored in the vault is never replaced or taken back, and an        *)
(* addition or a deletion that goes on behind its COMMIT is stored, whatever *)
(* requests overlap, first unlocks included, and wherever the process ends. *)
THEOREM StoredStays == Spec => StoredForGood
<1>1. Always /\ Safe /\ [Next]_vars => [StoreKeeps]_vars
  BY StepStores
<1> QED BY <1>1, SafeInit, SafeNext, AlwaysInvariant, PTL DEF Spec, StoredForGood

-----------------------------------------------------------------------------
(* The log and the database.  An addition is logged after its statement was  *)
(* committed, a deletion before its statement: between them the request is  *)
(* on its way.  There is one connection, and nobody finds the file locked.  *)
(* The deletion of an unknown id is logged as well, and changes no row.     *)
Adding(u, c) == u.op = "add" /\ u.cred = c /\ u.at \in {"commit", "finish"}
Erasing(u, c) == u.op = "delete" /\ u.cred = c /\ u.at = "write"

MatchParts ==
    /\ LogIsWhole
    /\ \A c \in Ids : work.by[c] # 0 <=> \/ Logged(<<"added", c>>)
                                         \/ \E t \in Tasks : Adding(task[t], c)
    /\ \A c \in Ids : Logged(<<"deleted", c>>) =>
           c \in work.deleted \cup {Unknown} \/ \E t \in Tasks : Erasing(task[t], c)

Matching == ~raced /\ crashes = 0 => MatchParts

(* While no line is damaged an entry adds itself and nothing else. *)
LEMMA EntryAdds ==
  ASSUME AuditTypeOK, LogIsWhole, NEW f \in Events, WriteLine(NewLine(EnsureInitialized, f))
  PROVE  LogIsWhole' /\ \A e : Logged(e)' <=> Logged(e) \/ e = f
<1> DEFINE l == NewLine(EnsureInitialized, f)
<1>1. file \in Seq(Line) /\ l \in Line /\ l.state = "whole" /\ l.event = f
  BY HeadTypes, LineTypes DEF AuditTypeOK, NewLine
<1>2. file' = Append(file, l)
  BY DEF WriteLine, Open, LogIsWhole, LastLine
<1> HIDE DEF l
<1>3. /\ DOMAIN file = 1 .. Len(file) /\ DOMAIN file' = 1 .. Len(file) + 1 /\ Len(file) \in Nat
      /\ file'[Len(file) + 1] = l /\ \A i \in 1 .. Len(file) : file'[i] = file[i]
  BY <1>1, <1>2
<1>4. \A i \in 1 .. Len(file) + 1 : i \in 1 .. Len(file) \/ i = Len(file) + 1
  BY <1>3
<1>5. \A i \in 1 .. Len(file) : i \in 1 .. Len(file) + 1
  BY <1>3
<1>6. LogIsWhole'
  BY <1>1, <1>3, <1>4 DEF LogIsWhole
<1>7. ASSUME NEW e, Logged(e) \/ e = f PROVE Logged(e)'
  <2>1. Len(file) + 1 \in DOMAIN file'
    BY <1>3
  <2> QED BY <1>1, <1>3, <1>5, <1>7, <2>1 DEF Logged
<1>8. ASSUME NEW e, Logged(e)' PROVE Logged(e) \/ e = f
  BY <1>1, <1>3, <1>4, <1>8 DEF Logged
<1> QED BY <1>6, <1>7, <1>8

(* A step that neither adds nor deletes. *)
LEMMA MatchKept ==
  ASSUME MatchParts, LogIsWhole',
         \A c \in Ids : /\ Logged(<<"added", c>>)' <=> Logged(<<"added", c>>)
                        /\ Logged(<<"deleted", c>>)' <=> Logged(<<"deleted", c>>)
                        /\ work'.by[c] = work.by[c],
         work'.deleted = work.deleted,
         \A o \in Tasks : \A c \in Ids : /\ Adding(task'[o], c) <=> Adding(task[o], c)
                                         /\ Erasing(task[o], c) => Erasing(task'[o], c)
  PROVE  MatchParts'
<1>1. ASSUME NEW c \in Ids
      PROVE  work'.by[c] # 0 <=> \/ Logged(<<"added", c>>)'
                                 \/ \E t \in Tasks : Adding(task'[t], c)
  BY DEF MatchParts
<1>2. ASSUME NEW c \in Ids, Logged(<<"deleted", c>>)'
      PROVE  c \in work'.deleted \cup {Unknown} \/ \E t \in Tasks : Erasing(task'[t], c)
  BY <1>2 DEF MatchParts
<1> QED BY <1>1, <1>2 DEF MatchParts

(* Entries that tell of no addition and no deletion. *)
LEMMA OtherEntries ==
  ASSUME AuditTypeOK, MatchParts,
         \/ UNCHANGED auditVars
         \/ \E f \in Events : f[1] \notin {"added", "deleted"} /\ WriteLine(NewLine(EnsureInitialized, f))
  PROVE  /\ LogIsWhole'
         /\ \A c \in Ids : /\ Logged(<<"added", c>>)' <=> Logged(<<"added", c>>)
                           /\ Logged(<<"deleted", c>>)' <=> Logged(<<"deleted", c>>)
<1>1. CASE UNCHANGED auditVars
  BY <1>1 DEF auditVars, MatchParts, LogIsWhole, Logged
<1>2. ASSUME NEW f \in Events, f[1] \notin {"added", "deleted"},
             WriteLine(NewLine(EnsureInitialized, f))
      PROVE  /\ LogIsWhole'
             /\ \A c \in Ids : /\ Logged(<<"added", c>>)' <=> Logged(<<"added", c>>)
                               /\ Logged(<<"deleted", c>>)' <=> Logged(<<"deleted", c>>)
  <2>1. LogIsWhole' /\ \A e : Logged(e)' <=> Logged(e) \/ e = f
    BY <1>2, EntryAdds DEF MatchParts
  <2>2. \A c : <<"added", c>> # f /\ <<"deleted", c>> # f
    BY <1>2
  <2> QED BY <2>1, <2>2
<1> QED BY <1>1, <1>2

(* The requests that open the database or read from it. *)
LEMMA MatchRead ==
  ASSUME Always, SessionParts, MatchParts, NEW t \in Tasks,
         \/ Connect(t) \/ SelectId(t) \/ InsertId(t) \/ CommitId(t) \/ FinishUnlock(t)
         \/ SelectRow(t) \/ Decrypt(t) \/ CommitRow(t)
  PROVE  MatchParts'
<1>1. TaskTypeOK /\ FileTypeOK /\ AuditTypeOK /\ task[t] \in Task /\ Step(t)
  BY PartTypes DEF Always, Types, TypeOK, Step
<1>2. UNCHANGED auditVars \/ \E f \in Events : f[1] \notin {"added", "deleted"}
                                             /\ WriteLine(NewLine(EnsureInitialized, f))
  BY Constants DEF Connect, SelectId, InsertId, CommitId, FinishUnlock, SelectRow, Decrypt,
                   CommitRow, Derive, Record
<1>3. \A c \in Ids : work'.by[c] = work.by[c] /\ work'.deleted = work.deleted
  <2>1. CASE InsertId(t)
    <3>1. task[t].op = "unlock" /\ task[t].at = "insert"
      BY <2>1, PlaceTells DEF InsertId, At
    <3>2. Seen(db) = work
      BY <3>1 DEF SessionParts, Openers, Opened, Connected, Seen
    <3>3. work' = work \/ work' = [work EXCEPT !.id = task[t].secret]
      BY <2>1, <3>2 DEF InsertId, WriteTo, fileVars
    <3> QED BY <1>1, <3>3 DEF FileTypeOK, Database
  <2>2. CASE ~InsertId(t)
    BY <2>2 DEF Connect, SelectId, CommitId, FinishUnlock, SelectRow, Decrypt, CommitRow, Commit,
                fileVars
  <2> QED BY <2>1, <2>2
<1>4. work'.deleted = work.deleted
  <2>1. CASE InsertId(t)
    <3>1. task[t].op = "unlock" /\ task[t].at = "insert"
      BY <2>1, PlaceTells DEF InsertId, At
    <3>2. Seen(db) = work
      BY <3>1 DEF SessionParts, Openers, Opened, Connected, Seen
    <3>3. work' = work \/ work' = [work EXCEPT !.id = task[t].secret]
      BY <2>1, <3>2 DEF InsertId, WriteTo, fileVars
    <3> QED BY <1>1, <3>3 DEF FileTypeOK, Database
  <2>2. CASE ~InsertId(t)
    BY <2>2 DEF Connect, SelectId, CommitId, FinishUnlock, SelectRow, Decrypt, CommitRow, Commit,
                fileVars
  <2> QED BY <2>1, <2>2
<1>5. \A c \in Ids : /\ Adding(task'[t], c) <=> Adding(task[t], c)
                     /\ Erasing(task[t], c) => Erasing(task'[t], c)
  <2>1. CASE task[t].op \in {"unlock", "list", "get"}
    <3>1. task'[t] = Idle \/ task'[t].op = task[t].op
      BY <1>1, StepKeeps DEF Always
    <3> QED BY <2>1, <3>1, IdleTask DEF Adding, Erasing
  <2>2. CASE Decrypt(t)
    <3>1. task'[t] = Idle \/ task'[t].at = "write"
      BY <1>1, <2>2, GotoSteps, ReturnSteps DEF Decrypt, Places
    <3> QED BY <2>2, <3>1, IdleTask DEF Decrypt, At, Adding, Erasing
  <2>3. CASE CommitRow(t)
    <3>1. task'[t].at = "finish" /\ task'[t].op = task[t].op /\ task'[t].cred = task[t].cred
      BY <1>1, <2>3, GotoSteps DEF CommitRow, Places
    <3> QED BY <2>3, <3>1 DEF CommitRow, At, Adding, Erasing
  <2> QED BY <2>1, <2>2, <2>3, PlaceTells
          DEF Connect, SelectId, InsertId, CommitId, FinishUnlock, SelectRow, At
<1>6. \A o \in Tasks : o # t => task'[o] = task[o]
  BY <1>1, StepKeeps DEF Always
<1> QED BY <1>1, <1>2, <1>3, <1>4, <1>5, <1>6, OtherEntries, MatchKept

(* The statement: what is added is on its way, what is deleted was.         *)
LEMMA MatchWrite ==
  ASSUME Always, Safe, SessionParts, MatchParts, NEW t \in Tasks, Write(t)
  PROVE  MatchParts'
<1> DEFINE u == task[t]
<1>1. /\ TaskTypeOK /\ FileTypeOK /\ u \in Task /\ UNCHANGED auditVars /\ u.at = "write"
      /\ Step(t)
  BY PartTypes DEF Always, Write, At, Step
<1>2. Serves(u) /\ u.conn = db /\ Seen(db) = work /\ MayWrite(db)
  BY <1>1, PlaceTells, Serving DEF SessionParts, Connected, Seen, MayWrite
<1>3. work' = Changed(work, u) /\ Goto(t, "commit")
  BY <1>2 DEF Write, WriteTo
<1>4. /\ task'[t].at = "commit" /\ task'[t].op = u.op /\ task'[t].cred = u.cred
      /\ \A o \in Tasks : o # t => task'[o] = task[o]
  BY <1>1, <1>3, GotoSteps DEF Places
<1>5. LogIsWhole' /\ \A e : Logged(e)' <=> Logged(e)
  BY <1>1 DEF auditVars, MatchParts, LogIsWhole, Logged
<1>6. ASSUME u.op \notin {"add", "delete"} PROVE MatchParts'
  <2>1. work' = work
    BY <1>3, <1>6 DEF Changed
  <2>2. \A o \in Tasks : \A c \in Ids : /\ Adding(task'[o], c) <=> Adding(task[o], c)
                                        /\ Erasing(task[o], c) => Erasing(task'[o], c)
    BY <1>4, <1>6 DEF Adding, Erasing
  <2> QED BY <1>5, <2>1, <2>2, MatchKept
<1>7. ASSUME u.op = "add" PROVE MatchParts'
  <2>1. u.cred \in Ids /\ u.key # 0
    BY <1>2, <1>7, PartTypes DEF Always, Types, Named, Ranges, VaultTypeOK
  <2>2. work'.deleted = work.deleted /\ \A c \in Ids :
            work'.by[c] = IF c = u.cred THEN u.key ELSE work.by[c]
    BY <1>1, <1>3, <1>7, <2>1 DEF Changed, FileTypeOK, Database
  <2>3. ASSUME NEW c \in Ids, c = u.cred
        PROVE  work'.by[c] # 0 /\ \E o \in Tasks : Adding(task'[o], c)
    BY <1>4, <1>7, <2>1, <2>2, <2>3 DEF Adding
  <2>4. ASSUME NEW c \in Ids, c # u.cred
        PROVE  work'.by[c] # 0 <=> \/ Logged(<<"added", c>>)'
                                   \/ \E o \in Tasks : Adding(task'[o], c)
    <3>1. \A o \in Tasks : Adding(task'[o], c) <=> Adding(task[o], c)
      BY <1>4, <2>4 DEF Adding
    <3> QED BY <1>5, <2>2, <2>4, <3>1 DEF MatchParts
  <2>5. ASSUME NEW c \in Ids, Logged(<<"deleted", c>>)'
        PROVE  c \in work'.deleted \cup {Unknown} \/ \E o \in Tasks : Erasing(task'[o], c)
    <3>1. \A o \in Tasks : Erasing(task[o], c) => Erasing(task'[o], c)
      BY <1>4, <1>7 DEF Erasing
    <3> QED BY <1>5, <2>2, <2>5, <3>1 DEF MatchParts
  <2> QED BY <1>5, <2>3, <2>4, <2>5 DEF MatchParts
<1>8. ASSUME u.op = "delete" PROVE MatchParts'
  <2>1. /\ work'.deleted = work.deleted \cup (Rows(work) \cap {u.cred})
        /\ \A c \in Ids : work'.by[c] = work.by[c]
    BY <1>1, <1>3, <1>8 DEF Changed, FileTypeOK, Database
  <2>2. ASSUME NEW c \in Ids
        PROVE  work'.by[c] # 0 <=> \/ Logged(<<"added", c>>)'
                                   \/ \E o \in Tasks : Adding(task'[o], c)
    <3>1. \A o \in Tasks : Adding(task'[o], c) <=> Adding(task[o], c)
      BY <1>4, <1>8 DEF Adding
    <3> QED BY <1>5, <2>1, <3>1 DEF MatchParts
  <2>3. ASSUME NEW c \in Ids, Logged(<<"deleted", c>>)'
        PROVE  c \in work'.deleted \cup {Unknown} \/ \E o \in Tasks : Erasing(task'[o], c)
    <3>1. \A o \in Tasks : Erasing(task[o], c) => Erasing(task'[o], c) \/ c = u.cred
      BY <1>4, <1>8 DEF Erasing
    <3>2. c = u.cred => c = Unknown \/ c \in work'.deleted
      BY <1>1, <1>8, <2>1 DEF Safe, Names, Erases, Rows
    <3> QED BY <1>5, <2>1, <2>3, <3>1, <3>2 DEF MatchParts
  <2> QED BY <1>5, <2>2, <2>3 DEF MatchParts
<1> QED BY <1>6, <1>7, <1>8

(* An addition is logged when it is done. *)
LEMMA MatchFinish ==
  ASSUME Always, MatchParts, NEW t \in Tasks, Finish(t)
  PROVE  MatchParts'
<1> DEFINE u == task[t]
<1>1. /\ TaskTypeOK /\ AuditTypeOK /\ u.at = "finish" /\ UNCHANGED work
      /\ (u.op \in {"add", "update"} => u.cred \in Ids)
  BY PartTypes DEF Always, Types, TypeOK, Named, Finish, At, fileVars
<1>2. task'[t] = Idle /\ \A o \in Tasks : o # t => task'[o] = task[o]
  BY <1>1, ReturnSteps DEF Finish
<1>3. \A c \in Ids : ~Adding(task'[t], c) /\ ~Erasing(task[t], c)
  BY <1>1, <1>2, IdleTask DEF Adding, Erasing
<1>4. CASE u.op # "add"
  <2>1. UNCHANGED auditVars \/ \E f \in Events : f[1] \notin {"added", "deleted"}
                                             /\ WriteLine(NewLine(EnsureInitialized, f))
    BY <1>1, <1>4, Constants DEF Finish, Record
  <2>2. \A o \in Tasks : \A c \in Ids : /\ Adding(task'[o], c) <=> Adding(task[o], c)
                                        /\ Erasing(task[o], c) => Erasing(task'[o], c)
    BY <1>2, <1>3, <1>4 DEF Adding
  <2> QED BY <1>1, <2>1, <2>2, OtherEntries, MatchKept
<1>5. CASE u.op = "add"
  <2>1. WriteLine(NewLine(EnsureInitialized, <<"added", u.cred>>)) /\ <<"added", u.cred>> \in Events
    BY <1>1, <1>5, Constants DEF Finish, Record
  <2>2. LogIsWhole' /\ \A e : Logged(e)' <=> Logged(e) \/ e = <<"added", u.cred>>
    BY <1>1, <2>1, EntryAdds DEF MatchParts
  <2>3. ASSUME NEW c \in Ids
        PROVE  work'.by[c] # 0 <=> \/ Logged(<<"added", c>>)'
                                   \/ \E o \in Tasks : Adding(task'[o], c)
    <3>1. Logged(<<"added", c>>)' <=> Logged(<<"added", c>>) \/ c = u.cred
      BY <2>2
    <3>2. \A o \in Tasks : Adding(task[o], c) <=> Adding(task'[o], c) \/ (o = t /\ c = u.cred)
      BY <1>1, <1>2, <1>3, <1>5 DEF Adding
    <3> QED BY <1>1, <3>1, <3>2 DEF MatchParts
  <2>4. ASSUME NEW c \in Ids, Logged(<<"deleted", c>>)'
        PROVE  c \in work'.deleted \cup {Unknown} \/ \E o \in Tasks : Erasing(task'[o], c)
    <3>1. Logged(<<"deleted", c>>)
      BY <2>2, <2>4
    <3>2. \A o \in Tasks : Erasing(task[o], c) => Erasing(task'[o], c)
      BY <1>2, <1>3
    <3> QED BY <1>1, <3>1, <3>2 DEF MatchParts
  <2> QED BY <2>2, <2>3, <2>4 DEF MatchParts
<1> QED BY <1>4, <1>5

(* A request begins: what is deleted is on its way. *)
LEMMA MatchStart ==
  ASSUME Always, MatchParts, NEW t \in Tasks,
         \/ List(t) \/ Add(t)
         \/ \E c \in Ids : Get(t, c) \/ Update(t, c) \/ Delete(t, c)
  PROVE  MatchParts'
<1>1. AuditTypeOK /\ {"list", "add", "get", "update", "delete"} \subseteq Ops
      /\ {"select", "write"} \subseteq Places
  BY DEF Always, Types, TypeOK, Ops, Places
<1>2. added + 1 \in Ids \/ ~Add(t)
  <2>1. added \in Nat /\ calls \in 0 .. MaxCalls /\ (calls < MaxCalls => added + 1 \in Ids)
    BY PartTypes, Constants DEF Always, CountTypeOK, Ids, Unknown
  <2> QED BY <2>1 DEF Add, Start, Call
<1>3. UNCHANGED work
  BY DEF List, Add, Get, Update, Delete, Start, fileVars
<1>4. ASSUME NEW op \in {"list", "add", "get", "update", "delete"}, NEW place \in {"select", "write"},
             NEW c \in {0} \cup Ids, Start(t, op, place, c), NEW d \in Ids
      PROVE  \A o \in Tasks : /\ Adding(task'[o], d) <=> Adding(task[o], d)
                              /\ Erasing(task[o], d) => Erasing(task'[o], d)
  BY <1>1, <1>4, StartedTask, IdleTask DEF Adding, Erasing
<1>5. CASE List(t) \/ Add(t) \/ \E c \in Ids : Get(t, c) \/ Update(t, c)
  <2>1. UNCHANGED auditVars \/ \E f \in Events : f[1] \notin {"added", "deleted"}
                                               /\ WriteLine(NewLine(EnsureInitialized, f))
    BY <1>5, Constants DEF List, Add, Get, Update, Record
  <2>2. \A d \in Ids : \A o \in Tasks : /\ Adding(task'[o], d) <=> Adding(task[o], d)
                                        /\ Erasing(task[o], d) => Erasing(task'[o], d)
    BY <1>2, <1>4, <1>5 DEF List, Add, Get, Update
  <2> QED BY <1>1, <1>3, <2>1, <2>2, OtherEntries, MatchKept
<1>6. ASSUME NEW c \in Ids, Delete(t, c) PROVE MatchParts'
  <2>1. WriteLine(NewLine(EnsureInitialized, <<"deleted", c>>)) /\ <<"deleted", c>> \in Events
    BY <1>6, Constants DEF Delete, Record
  <2>2. LogIsWhole' /\ \A e : Logged(e)' <=> Logged(e) \/ e = <<"deleted", c>>
    BY <1>1, <2>1, EntryAdds DEF MatchParts
  <2>3. Start(t, "delete", "write", c)
    BY <1>6 DEF Delete
  <2>4. Erasing(task'[t], c)
    <3>1. "delete" \in Ops /\ "write" \in Places /\ c \in {0} \cup Ids
      BY DEF Ops, Places
    <3>2. task'[t].op = "delete" /\ task'[t].at = "write" /\ task'[t].cred = c
      BY <2>3, <3>1, StartedTask
    <3> QED BY <3>2 DEF Erasing
  <2>5. \A d \in Ids : \A o \in Tasks : /\ Adding(task'[o], d) <=> Adding(task[o], d)
                                        /\ Erasing(task[o], d) => Erasing(task'[o], d)
    BY <1>4, <2>3
  <2>6. ASSUME NEW d \in Ids
        PROVE  work'.by[d] # 0 <=> \/ Logged(<<"added", d>>)'
                                   \/ \E o \in Tasks : Adding(task'[o], d)
    <3>1. Logged(<<"added", d>>)' <=> Logged(<<"added", d>>)
      BY <2>2
    <3> QED BY <1>3, <2>5, <3>1 DEF MatchParts
  <2>7. ASSUME NEW d \in Ids, Logged(<<"deleted", d>>)'
        PROVE  d \in work'.deleted \cup {Unknown} \/ \E o \in Tasks : Erasing(task'[o], d)
    <3>1. Logged(<<"deleted", d>>) \/ d = c
      BY <2>2, <2>7
    <3> QED BY <1>3, <2>4, <2>5, <3>1 DEF MatchParts
  <2> QED BY <2>2, <2>6, <2>7 DEF MatchParts
<1> QED BY <1>5, <1>6

LEMMA MatchUnlock ==
  ASSUME Always, MatchParts, NEW t \in Tasks, NEW p \in Passwords, Unlock(t, p)
  PROVE  MatchParts'
<1>1. AuditTypeOK
  BY DEF Always, Types, TypeOK
<1>2. UNCHANGED auditVars \/ \E f \in Events : f[1] \notin {"added", "deleted"}
                                             /\ WriteLine(NewLine(EnsureInitialized, f))
  BY Constants DEF Unlock, Derive, Record
<1>3. UNCHANGED work
  BY DEF Unlock, fileVars
<1>4. \A d \in Ids : \A o \in Tasks : /\ Adding(task'[o], d) <=> Adding(task[o], d)
                                      /\ Erasing(task[o], d) => Erasing(task'[o], d)
  <2>1. CASE db = 0
    <3>1. task[t] = Idle
      BY <2>1 DEF Unlock, Call
    <3> QED BY <2>1, <3>1, OpeningTask, IdleTask DEF Adding, Erasing
  <2>2. CASE db # 0
    BY <2>2, UnlockedTask
  <2> QED BY <2>1, <2>2
<1> QED BY <1>1, <1>2, <1>3, <1>4, OtherEntries, MatchKept

LEMMA MatchLock ==
  ASSUME Always, MatchParts, Lock \/ AutoLock
  PROVE  MatchParts'
<1>1. AuditTypeOK /\ TaskTypeOK /\ task' = Marked /\ LockNow
  BY PartTypes DEF Always, Types, TypeOK, Lock, AutoLock
<1>2. \E f \in Events : f[1] \notin {"added", "deleted"} /\ WriteLine(NewLine(EnsureInitialized, f))
  BY <1>1, Constants DEF LockNow, Record
<1>3. UNCHANGED work
  BY <1>1 DEF LockNow, fileVars
<1>4. \A o \in Tasks : /\ task'[o].op = task[o].op /\ task'[o].at = task[o].at
                       /\ task'[o].cred = task[o].cred
  <2>1. \A o \in Tasks : task'[o] = task[o] \/ task'[o] = [task[o] EXCEPT !.locked = TRUE]
    BY <1>1, MarkedSteps
  <2>2. \A u \in Task : [u EXCEPT !.locked = TRUE].cred = u.cred
    BY DEF Task
  <2> QED BY <1>1, <2>1, <2>2, MarkedSteps DEF TaskTypeOK
<1> QED BY <1>1, <1>2, <1>3, <1>4, OtherEntries, MatchKept DEF Adding, Erasing

(* close() waits for the requests: all is committed, and nothing on its way. *)
LEMMA MatchShutdown ==
  ASSUME Always, SessionParts, MatchParts, Shutdown
  PROVE  MatchParts'
<1>1. AuditTypeOK /\ \A t \in Tasks : task[t] = Idle /\ task'[t] = Idle
  BY DEF Always, Types, TypeOK, Shutdown, ProcessEnds
<1>2. \E f \in Events : f[1] \notin {"added", "deleted"} /\ WriteLine(NewLine(EnsureInitialized, f))
  BY Constants DEF Shutdown
<1>3. UNCHANGED work
  BY <1>1, IdleShape DEF SessionParts, Connected, Shutdown, ProcessEnds
<1> QED BY <1>1, <1>2, <1>3, OtherEntries, MatchKept

LEMMA MatchNext == Always /\ Safe /\ Session /\ Matching /\ [Next]_vars => Matching'
<1> SUFFICES ASSUME Always, Safe, Session, Matching, [Next]_vars, ~raced', crashes' = 0 PROVE MatchParts'
  BY DEF Matching
<1>1. CASE Next
  <2>1. ~raced
    BY ZenonT(30), <1>1 DEF Next, Request, Step, Unlock, Call, List, Add, Get, Update, Delete, Start, Connect,
       SelectId, InsertId, CommitId, FinishUnlock, SelectRow, Decrypt, Write, CommitRow, Finish,
       Lock, AutoLock, Shutdown, Crash
  <2>2. crashes = 0 /\ ~Crash
    <3>1. crashes \in Nat
      BY PartTypes, Constants DEF Always, CountTypeOK
    <3>2. ~Crash
      BY <3>1 DEF Crash
    <3> QED BY <1>1, <3>2 DEF Next, Request, Step, Unlock, List, Add, Get, Update, Delete,
            Start, Connect, SelectId, InsertId, CommitId, FinishUnlock, SelectRow, Decrypt, Write,
            CommitRow, Finish, Lock, AutoLock, LockNow, Shutdown, countVars
  <2>3. SessionParts /\ MatchParts
    BY <2>1, <2>2 DEF Session, Matching
  <2>4. ASSUME NEW t \in Tasks, Request(t) PROVE MatchParts'
    BY <2>3, <2>4, MatchUnlock, MatchStart DEF Request
  <2>5. ASSUME NEW t \in Tasks, Step(t) PROVE MatchParts'
    BY <2>3, <2>5, MatchRead, MatchWrite, MatchFinish DEF Step
  <2> QED BY <1>1, <2>2, <2>3, <2>4, <2>5, MatchLock, MatchShutdown DEF Next
<1>2. CASE UNCHANGED vars
  BY <1>2 DEF vars, auditVars, fileVars, countVars, Matching, MatchParts, LogIsWhole, Logged
<1> QED BY <1>1, <1>2

(* When no request is in progress the credentials in the database are those  *)
(* whose addition is logged, and marked deleted are exactly those of them   *)
(* whose deletion is logged, unless the process crashed or two requests      *)
(* opened the database at once.  Nothing is said of the deletions of unknown *)
(* ids, which are logged too.                                               *)
THEOREM LogAndStore == Spec => []LogMatchesStore
<1>1. Init => Matching
  <2> SUFFICES ASSUME Init PROVE MatchParts
    BY DEF Matching
  <2>1. file = <<>> /\ work = Empty /\ \A t \in Tasks : task[t] = Idle
    BY DEF Init, AuditInit
  <2> QED BY <2>1, IdleTask DEF MatchParts, LogIsWhole, Logged, Adding, Empty
<1>2. Always /\ Safe /\ Session /\ Matching /\ DeletionsAreLogged => LogMatchesStore
  <2> SUFFICES ASSUME Always, Safe, SessionParts, MatchParts, DeletionsAreLogged, Quiet,
                      NEW c \in Ids
               PROVE  /\ c \in Rows(store) <=> Logged(<<"added", c>>)
                      /\ c \in store.deleted <=> c \in Rows(store) /\ Logged(<<"deleted", c>>)
    BY DEF Session, Matching, LogMatchesStore
  <2>1. work = store
    BY IdleShape DEF SessionParts, Connected, Quiet
  <2>2. \A t \in Tasks : ~Adding(task[t], c) /\ ~Erasing(task[t], c)
    BY IdleTask DEF Quiet, Adding, Erasing
  <2>3. store.deleted \subseteq Rows(store)
    BY DEF Safe, Behind, MarksRows
  <2>4. c = Unknown => c \notin Rows(store)
    <3>1. Unknown \in Ids /\ Unknown > added
      BY PartTypes, Constants DEF Always, CountTypeOK, Ids, Unknown
    <3> QED BY <3>1 DEF Safe, Apart, Untaken, Rows
  <2>5. c \in Rows(store) <=> Logged(<<"added", c>>)
    BY <2>1, <2>2 DEF MatchParts, Rows
  <2>6. Logged(<<"deleted", c>>) => c \in store.deleted \cup {Unknown}
    BY <2>1, <2>2 DEF MatchParts
  <2>7. c \in store.deleted => Logged(<<"deleted", c>>)
    BY DEF MatchParts, DeletionsAreLogged
  <2> QED BY <2>3, <2>4, <2>5, <2>6, <2>7
<1> QED BY <1>1, <1>2, MatchNext, SafeInit, SafeNext, AlwaysInvariant, SessionInvariant, DeletionsInLog, PTL
    DEF Spec
=============================================================================

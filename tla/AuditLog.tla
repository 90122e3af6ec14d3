------------------------------ MODULE AuditLog ------------------------------
(***************************************************************************)
(* security/audit_log.py, class AuditLog: a JSONL file in which every      *)
(* entry holds the hash of the one before it.  append() has no suspension  *)
(* point while its lock is free, and it holds the lock only within such a  *)
(* stretch: it is one step.                                                *)
(*                                                                         *)
(* The hash of an entry is the sequence of what it and all its             *)
(* predecessors hold: equal exactly if the entries are.  The genesis hash  *)
(* is the empty sequence.                                                  *)
(***************************************************************************)
EXTENDS Naturals, Sequences

CONSTANT Events      \* what is logged

VARIABLES
    file,      \* the lines of the log; a torn one cannot be parsed, an open one is also not ended
    head       \* what the AuditLog object remembers of it

auditVars == <<file, head>>

Links == Seq(Nat \X Events)
Line == [state : {"whole", "open", "torn"}, seq : Nat, event : Events, prev : Links, hash : Links]
Head1 == [initialized : BOOLEAN, seq : Nat, hash : Links]

AuditTypeOK == file \in Seq(Line) /\ head \in Head1

Fresh == [initialized |-> FALSE, seq |-> 0, hash |-> <<>>]

AuditInit == file = <<>> /\ head = Fresh

LastLine == file[Len(file)]
Readable == file # <<>> /\ LastLine.state = "whole"
Open == file # <<>> /\ LastLine.state = "open"

(* Wrong variant: the first line is taken for the last one. *)
EnsureInitializedFromFirst ==
    CASE head.initialized -> head
      [] ~head.initialized /\ ~Readable -> [Fresh EXCEPT !.initialized = TRUE]
      [] OTHER -> [initialized |-> TRUE, seq |-> file[1].seq + 1, hash |-> file[1].hash]

(* _ensure_initialized(): a last line that cannot be parsed counts as none. *)
EnsureInitialized ==
    CASE head.initialized -> head
      [] ~head.initialized /\ ~Readable -> [Fresh EXCEPT !.initialized = TRUE]
      [] OTHER -> [initialized |-> TRUE, seq |-> LastLine.seq + 1, hash |-> LastLine.hash]

NewLine(h, e) == [state |-> "whole", seq |-> h.seq, event |-> e, prev |-> h.hash,
                  hash |-> Append(h.hash, <<h.seq, e>>)]

(* append(): what is written after an open line is lost in it. *)
WriteLine(l) ==
    file' = IF Open THEN [file EXCEPT ![Len(file)].state = "torn"] ELSE Append(file, l)

Record(e) ==
    LET l == NewLine(EnsureInitialized, e) IN
    /\ WriteLine(l)
    /\ head' = [initialized |-> TRUE, seq |-> l.seq + 1, hash |-> l.hash]

(* The process ends, perhaps with part of a line written. *)
AuditRestart == head' = Fresh /\ UNCHANGED file
AuditTorn ==
    /\ head' = Fresh
    /\ file' = IF Open THEN file
               ELSE Append(file, [state |-> "open", seq |-> 0, event |-> CHOOSE e \in Events : TRUE,
                                  prev |-> <<>>, hash |-> <<>>])

(* verify(): whether it finds no error. *)
Verified ==
    \A i \in DOMAIN file :
        /\ file[i].state = "whole"
        /\ file[i].prev = IF i = 1 THEN <<>> ELSE file[i - 1].hash

Logged(e) == \E i \in DOMAIN file : file[i].state = "whole" /\ file[i].event = e
=============================================================================

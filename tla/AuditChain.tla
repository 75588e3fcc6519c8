------------------------------ MODULE AuditChain ------------------------------
(***************************************************************************)
(* The hash chain of api/audit.py.  The handlers of the gateway append to  *)
(* it from threads of their own, and so does each call of manage.py, a     *)
(* process of its own on the same database.  The lock is the process's;    *)
(* the row that is last is read before the transaction of the INSERT       *)
(* begins.                                                                 *)
(*                                                                         *)
(* A digest is the sequence of entries it was computed from, which keeps   *)
(* any two of them apart.                                                  *)
(***************************************************************************)
EXTENDS Integers, Sequences

CONSTANTS
  Recorders,    \* the threads that record
  ProcessOf,    \* the process of each
  AuditEntries, \* what they record
  MaxRows       \* bound of the model: the length of the log

VARIABLES
  auditLog,   \* the table audit_log
  recording,  \* what each thread has read and is about to insert
  altered     \* history: a row was changed or removed behind the gateway's back

uvars == <<auditLog, recording, altered>>

NoEntry == [at |-> "idle"]
GENESIS == <<>>
Digest(prev, entry) == Append(prev, entry)

LastHash == IF auditLog = <<>> THEN GENESIS ELSE auditLog[Len(auditLog)].hash

UInit ==
  /\ auditLog = <<>>
  /\ recording = [w \in Recorders |-> NoEntry]
  /\ altered = FALSE

LockFree(w) ==
  \A v \in Recorders : ProcessOf[v] = ProcessOf[w] => recording[v] = NoEntry

\* Mutant: the lock is not taken.
RecordReads_unlocked(w, entry) ==
  /\ recording[w] = NoEntry
  /\ Len(auditLog) < MaxRows
  /\ recording' = [recording EXCEPT ![w] = [at |-> "insert", prev |-> LastHash, entry |-> entry]]
  /\ UNCHANGED <<auditLog, altered>>
\* record takes the lock and reads the hash of the last row.
RecordReads(w, entry) ==
  /\ LockFree(w)
  /\ Len(auditLog) < MaxRows
  /\ recording' = [recording EXCEPT ![w] = [at |-> "insert", prev |-> LastHash, entry |-> entry]]
  /\ UNCHANGED <<auditLog, altered>>

Row(prev, entry) == [prev |-> prev, entry |-> entry, hash |-> Digest(prev, entry)]

RecordInserts(w) ==
  /\ recording[w] # NoEntry
  /\ auditLog' = Append(auditLog, Row(recording[w].prev, recording[w].entry))
  /\ recording' = [recording EXCEPT ![w] = NoEntry]
  /\ UNCHANGED altered

\* The module's record: a failed INSERT is printed, and the request goes on.
RecordFails(w) ==
  /\ recording[w] # NoEntry
  /\ recording' = [recording EXCEPT ![w] = NoEntry]
  /\ UNCHANGED <<auditLog, altered>>

\* Somebody edits an entry, or removes one that others follow.
Alters(i) ==
  /\ ~altered
  /\ altered' = TRUE
  /\ \/ \E e \in AuditEntries \ {auditLog[i].entry} : auditLog' = [auditLog EXCEPT ![i].entry = e]
     \/ /\ i < Len(auditLog)
        /\ auditLog' = SubSeq(auditLog, 1, i - 1) \o SubSeq(auditLog, i + 1, Len(auditLog))
  /\ UNCHANGED recording

UNext ==
  \/ \E w \in Recorders, e \in AuditEntries : RecordReads(w, e)
  \/ \E w \in Recorders : RecordInserts(w) \/ RecordFails(w)
  \/ \E i \in DOMAIN auditLog : Alters(i)

USpec == UInit /\ [][UNext]_uvars

-----------------------------------------------------------------------------
\* Mutant: each row is looked at for itself.
Verified_rowsOnly(log) ==
  \A i \in DOMAIN log : log[i].hash = Digest(log[i].prev, log[i].entry)
\* verify: "intact".
Verified(log) ==
  \A i \in DOMAIN log :
    /\ log[i].prev = (IF i = 1 THEN GENESIS ELSE log[i - 1].hash)
    /\ log[i].hash = Digest(log[i].prev, log[i].entry)

\* verify finds nothing wrong with a log nobody has altered, however the threads
\* that record overlap and whichever of their inserts fail: the log is the chain
\* verify expects.  It takes one process; two can fork the chain.
UnalteredIsIntact == ~altered => Verified(auditLog)

\* verify finds an entry that was edited or removed, however many were recorded
\* after it, and by a thread that had read the last hash before it was altered.
AlterationIsFound == altered => ~Verified(auditLog)
=============================================================================

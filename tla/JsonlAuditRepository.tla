------------------------ MODULE JsonlAuditRepository ------------------------
(***************************************************************************)
(* audit/jsonl_audit_repository.cpp: the JSON Lines sink behind            *)
(* ports::IAuditRepository.  append() serializes the record outside the    *)
(* lock and then, under the repository's own mutex, inserts the line and   *)
(* the newline into the ofstream, flushes it and looks at the stream       *)
(* state.  The ofstream is opened once, in the constructor, and never      *)
(* reopened or cleared.                                                    *)
(*                                                                         *)
(* The file is a sequence of tokens: a whole serialized record, a proper   *)
(* prefix of one (what a short write or a crash leaves), or a newline.     *)
(***************************************************************************)
EXTENDS ServiceProcess, Sequences

VARIABLES
  file,          \* the tokens that reached the operating system
  buffer,        \* tokens inserted into the ofstream and not yet written
  stream,        \* "closed" (the open failed), "good", or "bad" (badbit set)
  opened_at,     \* length of the file when this process opened it (history)
  audit_mutex,   \* the thread holding JsonlAuditRepository::mutex_
  append_pc,     \* where each thread is inside append()
  append_record, \* the record it is appending
  append_result, \* the AuditAppendResult it returned
  submitted,     \* the records append() was ever called with (history)
  acknowledged   \* the records append() ever answered Ok for (history)

auditVars == <<file, buffer, stream, opened_at, audit_mutex, append_pc,
               append_record, append_result, submitted, acknowledged>>

AppendPcs == {"idle", "lock", "line", "newline", "flush", "check", "returned"}
AppendResults == {"Ok", "OpenFailure", "WriteFailure"}
StreamStates == {"closed", "good", "bad"}

NoRecord == <<>>
Line(r) == [part |-> "line", record |-> r]
Fragment(r) == [part |-> "fragment", record |-> r]
Newline == [part |-> "newline", record |-> NoRecord]

----------------------------------------------------------------------------
(* The constructor: std::ios::app keeps what the file already holds. *)
OpenStream(contents) ==
  /\ stream' \in {"good", "closed"}
  /\ opened_at' = Len(contents)
  /\ buffer' = <<>>

AuditInit ==
  /\ file = <<>> /\ buffer = <<>> /\ opened_at = 0
  /\ stream \in {"good", "closed"}
  /\ audit_mutex = NoThread
  /\ append_pc = [t \in Threads |-> "idle"]
  /\ append_record = [t \in Threads |-> NoRecord]
  /\ append_result = [t \in Threads |-> "Ok"]
  /\ submitted = {} /\ acknowledged = {}

(* Fault: the status of the result object is never set. *)
AppendReturnsUnset(t, result) ==
  /\ append_pc' = [append_pc EXCEPT ![t] = "returned"]
  /\ append_result' = [append_result EXCEPT ![t] = "Unset"]

(* append() returns result to thread t, which still holds its record. *)
AppendReturns(t, result) ==
  /\ append_pc' = [append_pc EXCEPT ![t] = "returned"]
  /\ append_result' = [append_result EXCEPT ![t] = result]

(* serialize(record).dump() succeeds and the thread goes for the mutex. *)
StartAppend(t, r) ==
  /\ append_pc[t] = "idle"
  /\ append_record' = [append_record EXCEPT ![t] = r]
  /\ submitted' = submitted \cup {r}
  /\ append_pc' = [append_pc EXCEPT ![t] = "lock"]
  /\ UNCHANGED <<file, buffer, stream, opened_at, audit_mutex, append_result, acknowledged>>

(* serialize() or dump() throws, before the mutex and the stream. *)
AppendThrows(t, r) ==
  /\ append_pc[t] = "idle"
  /\ append_record' = [append_record EXCEPT ![t] = r]
  /\ submitted' = submitted \cup {r}
  /\ AppendReturns(t, "WriteFailure")
  /\ UNCHANGED <<file, buffer, stream, opened_at, audit_mutex, acknowledged>>

(* Fault: no lock_guard around the insertions. *)
LockStreamUnguarded(t) ==
  /\ append_pc[t] = "lock"
  /\ stream # "closed"
  /\ audit_mutex' = t
  /\ append_pc' = [append_pc EXCEPT ![t] = "line"]
  /\ UNCHANGED <<file, buffer, stream, opened_at, append_record, append_result,
                 submitted, acknowledged>>

LockStream(t) ==
  /\ append_pc[t] = "lock"
  /\ audit_mutex = NoThread
  /\ stream # "closed"
  /\ audit_mutex' = t
  /\ append_pc' = [append_pc EXCEPT ![t] = "line"]
  /\ UNCHANGED <<file, buffer, stream, opened_at, append_record, append_result,
                 submitted, acknowledged>>

(* The mutex is taken, is_open() is false, and the guard releases it. *)
LockClosedStream(t) ==
  /\ append_pc[t] = "lock"
  /\ audit_mutex = NoThread
  /\ stream = "closed"
  /\ AppendReturns(t, "OpenFailure")
  /\ UNCHANGED <<file, buffer, stream, opened_at, audit_mutex, append_record,
                 submitted, acknowledged>>

(* A formatted insertion does nothing once the stream is bad.  A line is at *)
(* most eight 63-byte names and a dozen numbers, less than the 1024 bytes   *)
(* from which libstdc++ bypasses the buffer, so inserting never writes.     *)
Insert(t, from, to, token) ==
  /\ append_pc[t] = from
  /\ buffer' = IF stream = "good" THEN Append(buffer, token) ELSE buffer
  /\ append_pc' = [append_pc EXCEPT ![t] = to]
  /\ UNCHANGED <<file, stream, opened_at, audit_mutex, append_record, append_result,
                 submitted, acknowledged>>

InsertLine(t) == Insert(t, "line", "newline", Line(append_record[t]))
InsertNewline(t) == Insert(t, "newline", "flush", Newline)

(* What write(2) may have put in the file when it did not put all of it.   *)
PartialWrites(tokens) ==
  LET firsts(n) == SubSeq(tokens, 1, n)
  IN  {firsts(n) : n \in 0 .. Len(tokens) - 1} \cup
      {firsts(n) \o <<Fragment(tokens[n + 1].record)>> :
         n \in {m \in 0 .. Len(tokens) - 1 : tokens[m + 1].part = "line"}}

(* flush() on a good stream writes the whole buffer. *)
FlushWrites(t) ==
  /\ append_pc[t] = "flush"
  /\ stream = "good"
  /\ file' = file \o buffer
  /\ buffer' = <<>>
  /\ append_pc' = [append_pc EXCEPT ![t] = "check"]
  /\ UNCHANGED <<stream, opened_at, audit_mutex, append_record, append_result,
                 submitted, acknowledged>>

(* Fault: the stream state is cleared after a failed flush. *)
FlushFailsAndClears(t) ==
  /\ append_pc[t] = "flush"
  /\ stream = "good"
  /\ \E part \in PartialWrites(buffer) : file' = file \o part
  /\ append_pc' = [append_pc EXCEPT ![t] = "check"]
  /\ UNCHANGED <<buffer, stream, opened_at, audit_mutex, append_record, append_result,
                 submitted, acknowledged>>

(* A short or failed write: some of the buffer is in the file and badbit is *)
(* set; no code ever clears it.                                             *)
FlushFails(t) ==
  /\ append_pc[t] = "flush"
  /\ stream = "good"
  /\ \E part \in PartialWrites(buffer) : file' = file \o part
  /\ stream' = "bad"
  /\ append_pc' = [append_pc EXCEPT ![t] = "check"]
  /\ UNCHANGED <<buffer, opened_at, audit_mutex, append_record, append_result,
                 submitted, acknowledged>>

(* Fault: the write is tried again, under the lock, until it succeeds. *)
FlushBadStreamRetrying(t) ==
  /\ append_pc[t] = "flush"
  /\ stream = "bad"
  /\ append_pc' = [append_pc EXCEPT ![t] = "line"]
  /\ UNCHANGED <<file, buffer, stream, opened_at, audit_mutex, append_record,
                 append_result, submitted, acknowledged>>

(* flush() on a bad stream is no operation. *)
FlushBadStream(t) ==
  /\ append_pc[t] = "flush"
  /\ stream = "bad"
  /\ append_pc' = [append_pc EXCEPT ![t] = "check"]
  /\ UNCHANGED <<file, buffer, stream, opened_at, audit_mutex, append_record,
                 append_result, submitted, acknowledged>>

(* Fault: the stream state is not looked at after the flush. *)
CheckStreamNever(t) ==
  /\ append_pc[t] = "check"
  /\ AppendReturns(t, "Ok")
  /\ acknowledged' = acknowledged \cup {append_record[t]}
  /\ audit_mutex' = NoThread
  /\ UNCHANGED <<file, buffer, stream, opened_at, append_record, submitted>>

(* if (!stream_): the answer is the stream's state, and the guard unlocks. *)
CheckStream(t) ==
  /\ append_pc[t] = "check"
  /\ AppendReturns(t, IF stream = "good" THEN "Ok" ELSE "WriteFailure")
  /\ acknowledged' = IF stream = "good" THEN acknowledged \cup {append_record[t]}
                                        ELSE acknowledged
  /\ audit_mutex' = NoThread
  /\ UNCHANGED <<file, buffer, stream, opened_at, append_record, submitted>>

(* The caller has the answer; the locals of the call are gone. *)
TakeAppendResult(t) ==
  /\ append_pc[t] = "returned"
  /\ append_pc' = [append_pc EXCEPT ![t] = "idle"]
  /\ append_record' = [append_record EXCEPT ![t] = NoRecord]
  /\ append_result' = [append_result EXCEPT ![t] = "Ok"]
  /\ UNCHANGED <<file, buffer, stream, opened_at, audit_mutex, submitted, acknowledged>>

(* Everything append() does on its own once it was called. *)
AppendStep(t) ==
  \/ LockStream(t) \/ LockClosedStream(t)
  \/ InsertLine(t) \/ InsertNewline(t)
  \/ FlushWrites(t) \/ FlushFails(t) \/ FlushBadStream(t)
  \/ CheckStream(t)

(* The process dies, possibly in the middle of the write, and the next one *)
(* constructs a repository on the same path.                               *)
AuditRestart ==
  /\ \E part \in {<<>>} \cup
        (IF stream = "good" /\ \E t \in Threads : append_pc[t] = "flush"
         THEN PartialWrites(buffer) ELSE {}) :
       file' = file \o part
  /\ OpenStream(file')
  /\ audit_mutex' = NoThread
  /\ append_pc' = [t \in Threads |-> "idle"]
  /\ append_record' = [t \in Threads |-> NoRecord]
  /\ append_result' = [t \in Threads |-> "Ok"]
  /\ UNCHANGED <<submitted, acknowledged>>

----------------------------------------------------------------------------
(* The variables stay in their types; every record around was submitted. *)
Tokens(R) == [part : {"line", "fragment", "newline"}, record : R \cup {NoRecord}]

AuditTypeOK ==
  /\ file \in Seq(Tokens(submitted)) /\ buffer \in Seq(Tokens(submitted))
  /\ stream \in StreamStates
  /\ opened_at \in 0 .. Len(file)
  /\ audit_mutex \in Threads \cup {NoThread}
  /\ append_pc \in [Threads -> AppendPcs]
  /\ append_record \in [Threads -> submitted \cup {NoRecord}]
  /\ append_result \in [Threads -> AppendResults]
  /\ acknowledged \subseteq submitted

(* The record's whole line is in the file, with its newline. *)
HasLine(r) ==
  \E i \in 1 .. Len(file) - 1 : file[i] = Line(r) /\ file[i + 1] = Newline

(* "Ok only after write + flush to the OS stream": whatever append() ever    *)
(* answered Ok for is whole and terminated in the file, whichever threads,   *)
(* failed writes and restarts came between the insertion and now.            *)
AcknowledgedIsWhole == \A r \in acknowledged : HasLine(r)

(* One process never writes behind its own torn tail: every line it writes   *)
(* but its first starts right after a newline, because a failed flush leaves *)
(* the stream bad for good and because line and newline are inserted under   *)
(* one lock.                                                                 *)
TornTailStaysLast ==
  \A i \in opened_at + 2 .. Len(file) :
     file[i] # Newline => file[i - 1] = Newline

(* "no retries": no record is in the file twice, whole or in part, also when *)
(* the write of its line failed half way and later appends follow.           *)
AtMostOneCopy ==
  \A i, j \in 1 .. Len(file) :
     i # j /\ file[i] # Newline => file[i].record # file[j].record

(* "a pre-existing malformed line never affects appends": a record that was  *)
(* acknowledged is alone on its line.  A torn tail without a newline, left   *)
(* by the previous process, refutes it.                                      *)
AcknowledgedIsReadable ==
  \A r \in acknowledged :
     \E i \in 1 .. Len(file) - 1 :
        /\ file[i] = Line(r) /\ file[i + 1] = Newline
        /\ i > 1 => file[i - 1] = Newline
=============================================================================

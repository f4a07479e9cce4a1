-------------------------- MODULE ProxyServiceProofs --------------------------
(***************************************************************************)
(* What ProxyService::handle() keeps for any number of worker threads,     *)
(* requests and restarts and for every set of statement texts: requests    *)
(* are processed one at a time, no success leaves the service without its  *)
(* audit record whole in the file, and the file is in the order of the     *)
(* requests, has no request twice, and never contradicts what a client was *)
(* told.                                                                   *)
(***************************************************************************)
EXTENDS ProxyService, JsonlAuditRepositoryProofs, RequestProcessingProofs

ServiceTypeOK ==
  /\ pc \in [Threads -> Pcs]
  /\ sql \in [Threads -> Sqls \cup {BlankSql}]
  /\ request_id \in [Threads -> Nat]
  /\ processing = [t \in Threads |-> processing[t]]
  /\ mutex \in Threads \cup {NoThread}
  /\ next_request_id \in Nat \ {0}
  /\ arrived \in 0 .. MaxRequests
  /\ boot \in 1 .. MaxBoots
  /\ exec_pc \in [Threads -> ExecPcs]

(* The mutex is held by exactly the thread inside the pipeline. *)
MutexHeld == \A t \in Threads : pc[t] \notin {"idle", "lock"} <=> mutex = t

(* The executor and the repository run only inside the call to them. *)
CallsNest ==
  \A t \in Threads : /\ exec_pc[t] # "idle" => pc[t] = "execute"
                     /\ append_pc[t] # "idle" <=> pc[t] = "appending"

(* The result of a rejected text tells no more of the reason than that. *)
ToldAsRejected(result, record) ==
  record.outcome = "PolicyRejected" => result = Failure(client_failure_for(record.details.reason))

(* A failure has one of the reasons there are. *)
WellFormed(result) ==
  \/ result.kind \in {"rows", "write"}
  \/ \E reason \in ServiceFailures : result = Failure(reason)

(* A record and the result it is kept with. *)
Matches(p, tag) ==
  /\ WellFormed(p.result) /\ ToldAsRejected(p.result, p.record)
  /\ p.record.tag = tag
  /\ p.record.outcome = OutcomeOf(p.result)
  /\ p.record.outcome \in AuditOutcomes
  /\ p.record.outcome = "Success" => succeeded(p.result)
  /\ p.record # NoRecord

(* What is appended is the record of this request and of this result. *)
RecordsMatch ==
  \A t \in Threads :
    /\ pc[t] \in {"append", "appending"} => Matches(processing[t], Tag(t))
    /\ pc[t] = "appending" => append_record[t] = processing[t].record

(* Every success that left has an acknowledged record. *)
SuccessIsAcknowledged ==
  \A reply \in replies :
     succeeded(reply.result) =>
       \E r \in acknowledged : r.tag = reply.tag /\ r.outcome = "Success"

ServiceInv ==
  /\ AuditInv
  /\ ServiceTypeOK
  /\ MutexHeld
  /\ CallsNest
  /\ RecordsMatch
  /\ SuccessIsAcknowledged

----------------------------------------------------------------------------
(* The outcome the trail has for each kind of result. *)
LEMMA OutcomeTable ==
  /\ \A result : succeeded(result) => OutcomeOf(result) = "Success"
  /\ OutcomeOf(Failure("EmptyInput")) = "PolicyRejected"
  /\ OutcomeOf(Failure("PolicyRejected")) = "PolicyRejected"
  /\ OutcomeOf(Failure("UnparseableSql")) = "ParsingFailure"
  /\ OutcomeOf(Failure("DatabaseUnavailable")) = "DatabaseFailure"
  /\ OutcomeOf(Failure("QueryFailed")) = "DatabaseFailure"
  /\ OutcomeOf(Failure("MaskingRefused")) = "MaskingRefused"
  /\ OutcomeOf(Failure("InternalError")) = "InternalFailure"
BY DEF OutcomeOf, Failure, succeeded

(* A record is not the absence of one. *)
LEMMA RecordIsSome ==
  ASSUME NEW tag, NEW outcome, NEW details, NEW tables
  PROVE  Record(tag, outcome, details, tables) # NoRecord
<1>1. "tag" \in DOMAIN Record(tag, outcome, details, tables)
  BY DEF Record
<1>2. "tag" \notin DOMAIN NoRecord
  BY DEF NoRecord
<1> QED
  BY <1>1, <1>2

(* Every way out of process() pairs a result with the record of the same     *)
(* request and of the same outcome.                                          *)
LEMMA InternalMatches ==
  ASSUME NEW tag
  PROVE  Matches(InternalProcessing(tag), tag)
<1>1. internal_failure(tag) # NoRecord
  BY RecordIsSome DEF internal_failure
<1>2. /\ internal_failure(tag).tag = tag
      /\ internal_failure(tag).outcome = "InternalFailure"
      /\ "InternalFailure" \in AuditOutcomes
  BY DEF internal_failure, Record, AuditOutcomes
<1>3. WellFormed(Failure("InternalError"))
  BY DEF WellFormed, ServiceFailures
<1> QED
  BY <1>1, <1>2, <1>3, OutcomeTable DEF Matches, InternalProcessing, ToldAsRejected

(* A pair matches when its factory threw or made the record of this request. *)
LEMMA ProcessingMatches ==
  ASSUME NEW tag, NEW result, NEW record,
         \/ record = Throws
         \/ /\ record.tag = tag /\ record.outcome = OutcomeOf(result)
            /\ record.outcome \in AuditOutcomes /\ record # NoRecord
            /\ record.outcome = "Success" => succeeded(result)
            /\ WellFormed(result) /\ ToldAsRejected(result, record)
  PROVE  Matches(Processing(tag, result, record), tag)
BY InternalMatches DEF Matches, Processing

(* A rejected text is recorded as a rejection of this request. *)
LEMMA DeniedMatches ==
  ASSUME NEW tag, NEW analysis, NEW decision
  PROVE  Matches(ProcessDenied(tag, analysis, decision), tag)
<1>1. /\ parsing_failure(tag).tag = tag /\ parsing_failure(tag).outcome = "ParsingFailure"
      /\ parsing_failure(tag) # NoRecord
  <2>1. parsing_failure(tag) # NoRecord
    BY RecordIsSome DEF parsing_failure
  <2> QED
    BY <2>1 DEF parsing_failure, Record
<1>2. ASSUME NEW details, NEW tables
      PROVE  \/ policy_rejected(tag, details, tables) = Throws
             \/ /\ policy_rejected(tag, details, tables).tag = tag
                /\ policy_rejected(tag, details, tables).outcome = "PolicyRejected"
                /\ policy_rejected(tag, details, tables).details = details
                /\ policy_rejected(tag, details, tables) # NoRecord
  <2>1. policy_rejected(tag, details, tables) # Throws => policy_rejected(tag, details, tables) # NoRecord
    BY RecordIsSome DEF policy_rejected, Requiring
  <2> QED
    BY <2>1 DEF policy_rejected, Requiring, Record
<1>3. OutcomeOf(Failure(client_failure_for(decision.reason))) = "PolicyRejected"
  BY OutcomeTable DEF client_failure_for
<1>4. "ParsingFailure" \in AuditOutcomes /\ "PolicyRejected" \in AuditOutcomes
  BY DEF AuditOutcomes
<1>5. /\ WellFormed(Failure("UnparseableSql"))
      /\ WellFormed(Failure(client_failure_for(decision.reason)))
  BY DEF WellFormed, ServiceFailures, client_failure_for
<1>6. \A type, count : PolicyRejectedDetails(decision.reason, type, count).reason = decision.reason
  BY DEF PolicyRejectedDetails
<1>7. CASE decision.reason = "UnparseableSql"
  BY <1>1, <1>4, <1>5, <1>7, OutcomeTable, ProcessingMatches DEF ProcessDenied, ToldAsRejected
<1>8. CASE decision.reason # "UnparseableSql"
  <2> DEFINE details == PolicyRejectedDetails(decision.reason, analysis.statement_type,
                                              analysis.statement_count)
             record == policy_rejected(tag, details, analysis.tables)
             result == Failure(client_failure_for(decision.reason))
  <2>1. ProcessDenied(tag, analysis, decision) = Processing(tag, result, record)
    BY <1>8 DEF ProcessDenied
  <2>2. details.reason = decision.reason
    BY <1>6
  <2> HIDE DEF details
  <2>3. \/ record = Throws
        \/ /\ record.tag = tag /\ record.outcome = "PolicyRejected"
           /\ record.details = details /\ record # NoRecord
    BY <1>2
  <2> HIDE DEF record
  <2>4. record = Throws \/ ToldAsRejected(result, record)
    BY <2>2, <2>3 DEF ToldAsRejected
  <2> HIDE DEF result
  <2>5. Matches(Processing(tag, result, record), tag)
    BY <1>3, <1>4, <1>5, <2>3, <2>4, ProcessingMatches DEF result
  <2> QED
    BY <2>1, <2>5
<1> QED
  BY <1>7, <1>8

(* So does every pair made of an execution result. *)
LEMMA ExecutedMatches ==
  ASSUME NEW tag, NEW analysis, NEW execution
  PROVE  Matches(ProcessExecuted(tag, analysis, execution), tag)
<1>1. Matches(ProcessFailed(tag, analysis, execution.status), tag)
  <2>1. ASSUME NEW details, NEW tables
        PROVE  \/ database_failure(tag, details, tables) = Throws
               \/ /\ database_failure(tag, details, tables).tag = tag
                  /\ database_failure(tag, details, tables).outcome = "DatabaseFailure"
                  /\ database_failure(tag, details, tables) # NoRecord
    <3>1. database_failure(tag, details, tables) # Throws => database_failure(tag, details, tables) # NoRecord
      BY RecordIsSome DEF database_failure, Requiring
    <3> QED
      BY <3>1 DEF database_failure, Requiring, Record
  <2>2. "DatabaseFailure" \in AuditOutcomes
    BY DEF AuditOutcomes
  <2>3. WellFormed(Failure("DatabaseUnavailable")) /\ WellFormed(Failure("QueryFailed"))
    BY DEF WellFormed, ServiceFailures
  <2> QED
    BY <2>1, <2>2, <2>3, OutcomeTable, ProcessingMatches DEF ProcessFailed, ToldAsRejected
<1>2. Matches(ProcessWritten(tag, analysis, execution.affected_rows), tag)
  <2>1. ASSUME NEW details, NEW tables
        PROVE  \/ write_success(tag, details, tables) = Throws
               \/ /\ write_success(tag, details, tables).tag = tag
                  /\ write_success(tag, details, tables).outcome = "Success"
                  /\ write_success(tag, details, tables) # NoRecord
    <3>1. write_success(tag, details, tables) # Throws => write_success(tag, details, tables) # NoRecord
      BY RecordIsSome DEF write_success, Requiring
    <3> QED
      BY <3>1 DEF write_success, Requiring, Record
  <2>2. /\ OutcomeOf(Written(execution.affected_rows)) = "Success"
        /\ succeeded(Written(execution.affected_rows)) /\ "Success" \in AuditOutcomes
        /\ WellFormed(Written(execution.affected_rows))
    BY OutcomeTable DEF Written, succeeded, AuditOutcomes, WellFormed
  <2> QED
    BY <2>1, <2>2, InternalMatches, ProcessingMatches DEF ProcessWritten, ToldAsRejected
<1>3. Matches(ProcessRead(tag, analysis, execution), tag)
  <2>1. ASSUME NEW details, NEW tables
        PROVE  \/ success(tag, details, tables) = Throws
               \/ /\ success(tag, details, tables).tag = tag
                  /\ success(tag, details, tables).outcome = "Success"
                  /\ success(tag, details, tables) # NoRecord
    <3>1. success(tag, details, tables) # Throws => success(tag, details, tables) # NoRecord
      BY RecordIsSome DEF success, Requiring
    <3> QED
      BY <3>1 DEF success, Requiring, Record
  <2>2. ASSUME NEW details, NEW tables
        PROVE  \/ masking_refused(tag, details, tables) = Throws
               \/ /\ masking_refused(tag, details, tables).tag = tag
                  /\ masking_refused(tag, details, tables).outcome = "MaskingRefused"
                  /\ masking_refused(tag, details, tables) # NoRecord
    <3>1. masking_refused(tag, details, tables) # Throws => masking_refused(tag, details, tables) # NoRecord
      BY RecordIsSome DEF masking_refused, Requiring
    <3> QED
      BY <3>1 DEF masking_refused, Requiring, Record
  <2>3. /\ \A masked : /\ OutcomeOf(to_masked_result(execution, masked)) = "Success"
                       /\ succeeded(to_masked_result(execution, masked))
                       /\ WellFormed(to_masked_result(execution, masked))
        /\ "Success" \in AuditOutcomes /\ "MaskingRefused" \in AuditOutcomes
    BY OutcomeTable DEF to_masked_result, Rows, succeeded, AuditOutcomes, WellFormed
  <2>4. WellFormed(Failure("MaskingRefused"))
    BY DEF WellFormed, ServiceFailures
  <2> QED
    BY <2>1, <2>2, <2>3, <2>4, OutcomeTable, InternalMatches, ProcessingMatches
    DEF ProcessRead, ToldAsRejected
<1> QED
  BY <1>1, <1>2, <1>3 DEF ProcessExecuted

----------------------------------------------------------------------------
(* The invariant holds when the service has started. *)
LEMMA InitInv == Init => ServiceInv
<1> SUFFICES ASSUME Init PROVE ServiceInv
  OBVIOUS
<1>1. AuditInv
  BY AuditInitInv DEF Init
<1>2. ServiceTypeOK
  BY RequestsAssumption, BootsAssumption DEF Init, ExecInit, ServiceTypeOK, Pcs, ExecPcs
<1> QED
  BY <1>1, <1>2, ThreadsAssumption
  DEF Init, AuditInit, ExecInit, ServiceInv, MutexHeld, CallsNest, RecordsMatch,
      SuccessIsAcknowledged

(* The steps of handle() that leave the repository alone. *)
LEMMA HandleInv ==
  ASSUME ServiceInv, NEW t \in Threads, NEW text \in Sqls, Handle(t, text)
  PROVE  ServiceInv'
<1>1. AuditInv'
  BY StutterInv DEF ServiceInv, Handle
<1>2. ServiceTypeOK'
  BY RequestsAssumption DEF ServiceInv, Handle, ServiceTypeOK, Pcs, execVars
<1>3. MutexHeld' /\ CallsNest'
  BY DEF ServiceInv, Handle, ServiceTypeOK, MutexHeld, CallsNest, execVars, auditVars
<1>4. RecordsMatch' /\ SuccessIsAcknowledged'
  BY DEF ServiceInv, Handle, ServiceTypeOK, RecordsMatch, SuccessIsAcknowledged, Tag,
         auditVars
<1> QED
  BY <1>1, <1>2, <1>3, <1>4 DEF ServiceInv

(* Taking the free mutex. *)
LEMMA AcquireInv ==
  ASSUME ServiceInv, NEW t \in Threads, Acquire(t)
  PROVE  ServiceInv'
<1>1. AuditInv'
  BY StutterInv DEF ServiceInv, Acquire
<1>2. ServiceTypeOK'
  BY DEF ServiceInv, Acquire, ServiceTypeOK, Pcs, execVars
<1>3. MutexHeld' /\ CallsNest'
  BY ThreadsAssumption
  DEF ServiceInv, Acquire, ServiceTypeOK, MutexHeld, CallsNest, execVars, auditVars
<1>4. RecordsMatch' /\ SuccessIsAcknowledged'
  BY DEF ServiceInv, Acquire, ServiceTypeOK, RecordsMatch, SuccessIsAcknowledged, Tag,
         auditVars
<1> QED
  BY <1>1, <1>2, <1>3, <1>4 DEF ServiceInv

(* process() returns a pair that matches, wherever it comes from. *)
LEMMA ProcessedInv ==
  ASSUME ServiceInv, NEW t \in Threads, NEW p, pc[t] \in {"process", "execute"},
         Matches(p, Tag(t)), Processed(t, p),
         exec_pc' \in [Threads -> ExecPcs], exec_pc'[t] = "idle",
         \A u \in Threads \ {t} : exec_pc'[u] = exec_pc[u]
  PROVE  ServiceInv'
<1>1. AuditInv'
  BY StutterInv DEF ServiceInv, Processed
<1>2. ServiceTypeOK'
  BY DEF ServiceInv, Processed, ServiceTypeOK, Pcs
<1>3. MutexHeld' /\ CallsNest'
  BY DEF ServiceInv, Processed, ServiceTypeOK, MutexHeld, CallsNest, auditVars
<1>4. RecordsMatch' /\ SuccessIsAcknowledged'
  BY DEF ServiceInv, Processed, ServiceTypeOK, RecordsMatch, SuccessIsAcknowledged, Tag,
         auditVars
<1> QED
  BY <1>1, <1>2, <1>3, <1>4 DEF ServiceInv

(* The ways in which process() returns. *)
LEMMA ProcessInv ==
  ASSUME ServiceInv, NEW t \in Threads,
         \/ Deny(t) \/ ParserThrows(t) \/ Complete(t)
         \/ ThrowBeforeExecution(t) \/ ThrowAfterExecution(t)
  PROVE  ServiceInv'
<1>1. PICK p : Processed(t, p) /\ Matches(p, Tag(t))
  BY DeniedMatches, ExecutedMatches, InternalMatches
  DEF Deny, ParserThrows, Complete, ThrowBeforeExecution, ThrowAfterExecution
<1>2. /\ pc[t] \in {"process", "execute"}
      /\ exec_pc' \in [Threads -> ExecPcs] /\ exec_pc'[t] = "idle"
      /\ \A u \in Threads \ {t} : exec_pc'[u] = exec_pc[u]
  BY DEF ServiceInv, ServiceTypeOK, CallsNest, ExecPcs, execVars, TakeExecution, Deny,
         ParserThrows, Complete, ThrowBeforeExecution, ThrowAfterExecution
<1> QED
  BY <1>1, <1>2, ProcessedInv

(* Handing an approved text to the executor. *)
LEMMA ApproveInv ==
  ASSUME ServiceInv, NEW t \in Threads, Approve(t)
  PROVE  ServiceInv'
<1>1. AuditInv'
  BY StutterInv DEF ServiceInv, Approve
<1>2. ServiceTypeOK'
  BY DEF ServiceInv, Approve, Execute, ServiceTypeOK, Pcs, ExecPcs
<1>3. MutexHeld' /\ CallsNest'
  BY DEF ServiceInv, Approve, Execute, ServiceTypeOK, MutexHeld, CallsNest, auditVars
<1>4. RecordsMatch' /\ SuccessIsAcknowledged'
  BY DEF ServiceInv, Approve, Execute, ServiceTypeOK, RecordsMatch, SuccessIsAcknowledged,
         Tag, auditVars
<1> QED
  BY <1>1, <1>2, <1>3, <1>4 DEF ServiceInv

(* The steps at which handle() meets the repository. *)
LEMMA AuditCallInv ==
  ASSUME ServiceInv, NEW t \in Threads, Audit(t)
  PROVE  ServiceInv'
<1> DEFINE r == processing[t].record
<1>1. /\ pc[t] = "append" /\ pc' = [pc EXCEPT ![t] = "appending"]
      /\ StartAppend(t, r) \/ AppendThrows(t, r)
      /\ UNCHANGED <<sql, request_id, processing, mutex, next_request_id, arrived, replies,
                     execVars, boot>>
  BY DEF Audit
<1>2. AuditInv'
  BY <1>1, StartInv DEF ServiceInv
<1>3. /\ append_record' = [append_record EXCEPT ![t] = r] /\ UNCHANGED acknowledged
      /\ append_pc'[t] # "idle" /\ \A u \in Threads \ {t} : append_pc'[u] = append_pc[u]
  BY <1>1 DEF StartAppend, AppendThrows, AppendReturns, ServiceInv, AuditInv, AuditTypeOK
<1>4. ServiceTypeOK'
  BY <1>1 DEF ServiceInv, ServiceTypeOK, Pcs, execVars
<1>5. MutexHeld' /\ CallsNest'
  BY <1>1, <1>3 DEF ServiceInv, ServiceTypeOK, MutexHeld, CallsNest, execVars
<1>6. RecordsMatch' /\ SuccessIsAcknowledged'
  <2>1. append_record \in [Threads -> submitted \cup {NoRecord}]
    BY DEF ServiceInv, AuditInv, AuditTypeOK
  <2> QED
    BY <1>1, <1>3, <2>1 DEF ServiceInv, ServiceTypeOK, RecordsMatch, SuccessIsAcknowledged,
                            Tag
<1> QED
  BY <1>2, <1>4, <1>5, <1>6 DEF ServiceInv

(* The one step that lets a result out: a success is only let out when       *)
(* append() answered Ok, and then its record is acknowledged.                *)
LEMMA ReplyInv ==
  ASSUME ServiceInv, NEW t \in Threads, Reply(t)
  PROVE  ServiceInv'
<1> DEFINE reply == [tag |-> Tag(t), sql |-> sql[t],
                     result |-> ResultAfter(processing[t].result, append_result[t])]
<1>1. /\ pc[t] = "appending" /\ pc' = [pc EXCEPT ![t] = "idle"]
      /\ replies' = replies \cup {reply} /\ mutex' = NoThread
      /\ sql' = [sql EXCEPT ![t] = BlankSql]
      /\ request_id' = [request_id EXCEPT ![t] = 0]
      /\ processing' = [processing EXCEPT ![t] = NoProcessing]
      /\ UNCHANGED <<next_request_id, arrived, execVars, boot>>
  BY DEF Reply, ResultOf
<1>2. /\ append_pc[t] = "returned" /\ append_pc' = [append_pc EXCEPT ![t] = "idle"]
      /\ append_record' = [append_record EXCEPT ![t] = NoRecord]
      /\ UNCHANGED acknowledged
  BY DEF Reply, TakeAppendResult
<1>3. AuditInv'
  BY TakeAppendResultInv DEF ServiceInv, Reply
<1>4. ServiceTypeOK'
  BY <1>1 DEF ServiceInv, ServiceTypeOK, Pcs, execVars
<1>5. MutexHeld' /\ CallsNest'
  BY <1>1, <1>2, ThreadsAssumption
  DEF ServiceInv, AuditInv, AuditTypeOK, ServiceTypeOK, MutexHeld, CallsNest, execVars
<1>6. RecordsMatch'
  BY <1>1, <1>2 DEF ServiceInv, AuditInv, AuditTypeOK, ServiceTypeOK, RecordsMatch, Tag
<1>7. SuccessIsAcknowledged'
  <2>1. ASSUME succeeded(reply.result)
        PROVE  \E r \in acknowledged : r.tag = reply.tag /\ r.outcome = "Success"
    <3>1. append_result[t] = "Ok" /\ succeeded(processing[t].result)
      BY <2>1 DEF ResultAfter, succeeded, Failure
    <3>2. append_record[t] \in acknowledged
      BY <1>2, <3>1 DEF ServiceInv, AuditInv, CallersKnow
    <3>3. append_record[t].tag = Tag(t) /\ append_record[t].outcome = "Success"
      BY <1>1, <3>1, OutcomeTable DEF ServiceInv, RecordsMatch, Matches
    <3> QED
      BY <3>2, <3>3
  <2> HIDE DEF reply
  <2> QED
    BY <1>1, <1>2, <2>1 DEF ServiceInv, SuccessIsAcknowledged
<1> QED
  BY <1>3, <1>4, <1>5, <1>6, <1>7 DEF ServiceInv

(* The steps of append() on behalf of handle(). *)
LEMMA RepositoryInv ==
  ASSUME ServiceInv, NEW t \in Threads, Repository(t)
  PROVE  ServiceInv'
<1>1. AuditInv'
  BY AppendStepInv DEF ServiceInv, Repository
<1>2. /\ append_pc[t] # "idle" /\ append_pc'[t] # "idle"
      /\ \A u \in Threads \ {t} : append_pc'[u] = append_pc[u]
      /\ append_record' = append_record /\ acknowledged \subseteq acknowledged'
  BY DEF Repository, AppendStep, LockStream, LockClosedStream, InsertLine, InsertNewline,
         Insert, FlushWrites, FlushFails, FlushBadStream, CheckStream, AppendReturns,
         ServiceInv, AuditInv, AuditTypeOK
<1>3. UNCHANGED <<serviceVars, execVars, boot>>
  BY DEF Repository
<1>4. ServiceTypeOK' /\ MutexHeld'
  BY <1>3 DEF ServiceInv, ServiceTypeOK, MutexHeld, serviceVars, execVars
<1>5. CallsNest'
  BY <1>2, <1>3 DEF ServiceInv, CallsNest, serviceVars, execVars
<1>6. RecordsMatch' /\ SuccessIsAcknowledged'
  BY <1>2, <1>3 DEF ServiceInv, RecordsMatch, SuccessIsAcknowledged, Tag, serviceVars
<1> QED
  BY <1>1, <1>4, <1>5, <1>6 DEF ServiceInv

(* The executor's and the server's steps touch nothing but its own state. *)
LEMMA ExecutorInv ==
  ASSUME ServiceInv, (\E t \in Threads : Executor(t)) \/ Server
  PROVE  ServiceInv'
<1>1. UNCHANGED <<serviceVars, auditVars, boot>>
  BY DEF Executor, Server
<1>2. /\ exec_pc' \in [Threads -> ExecPcs]
      /\ \A u \in Threads : exec_pc'[u] # "idle" => exec_pc[u] # "idle"
  BY DEF Executor, Server, LateCommit, ExecuteStep, Connect, BeginTransaction, RunStatement,
         SendCommit, ServerCommits, CommitAcknowledged, LoseConnection, FailExecution,
         CommitInDoubt, Advance, ExecReturns, ExecPcs, ServiceInv, ServiceTypeOK
<1>3. AuditInv'
  BY <1>1, StutterInv DEF ServiceInv
<1>4. ServiceTypeOK' /\ MutexHeld' /\ CallsNest'
  BY <1>1, <1>2 DEF ServiceInv, ServiceTypeOK, MutexHeld, CallsNest, serviceVars, auditVars
<1>5. RecordsMatch' /\ SuccessIsAcknowledged'
  BY <1>1 DEF ServiceInv, RecordsMatch, SuccessIsAcknowledged, Tag, serviceVars, auditVars
<1> QED
  BY <1>3, <1>4, <1>5 DEF ServiceInv

(* A restart leaves no thread inside anything. *)
LEMMA RestartInv ==
  ASSUME ServiceInv, Restart
  PROVE  ServiceInv'
<1>1. AuditInv'
  BY AuditRestartInv DEF ServiceInv, Restart
<1>2. ServiceTypeOK'
  BY BootsAssumption DEF ServiceInv, Restart, ExecRestart, ServiceTypeOK, Pcs, ExecPcs
<1>3. MutexHeld' /\ CallsNest' /\ RecordsMatch'
  BY ThreadsAssumption
  DEF Restart, ExecRestart, AuditRestart, MutexHeld, CallsNest, RecordsMatch
<1>4. SuccessIsAcknowledged'
  BY DEF ServiceInv, Restart, AuditRestart, SuccessIsAcknowledged
<1> QED
  BY <1>1, <1>2, <1>3, <1>4 DEF ServiceInv

(* Every step of the service keeps the invariant. *)
LEMMA NextInv == ServiceInv /\ [Next]_vars => ServiceInv'
<1> SUFFICES ASSUME ServiceInv, [Next]_vars
             PROVE  ServiceInv'
  OBVIOUS
<1>1. CASE UNCHANGED vars
  <2>1. AuditInv'
    BY <1>1, StutterInv DEF ServiceInv, vars
  <2> QED
    BY <1>1, <2>1
    DEF vars, serviceVars, execVars, auditVars, ServiceInv, ServiceTypeOK, MutexHeld,
        CallsNest, RecordsMatch, SuccessIsAcknowledged, Tag
<1>2. CASE AllServed
  BY <1>1, <1>2 DEF AllServed
<1>3. ASSUME NEW t \in Threads, HandleStep(t)
      PROVE  ServiceInv'
  BY <1>3, AcquireInv, ProcessInv, ApproveInv, AuditCallInv, ReplyInv, RepositoryInv,
     ExecutorInv
  DEF HandleStep, PipelineStep
<1> QED
  BY <1>1, <1>2, <1>3, HandleInv, ExecutorInv, RestartInv DEF Next

----------------------------------------------------------------------------
(* The service's variables stay in their types, for every set of texts. *)
THEOREM TypeCorrectness == Spec => []TypeOK
<1>1. ServiceInv => TypeOK
  BY DEF ServiceInv, AuditInv, ServiceTypeOK, TypeOK
<1> QED
  BY <1>1, InitInv, NextInv, PTL DEF Spec

(* handle() processes exactly one request at a time. *)
THEOREM RequestsAreSerialized == Spec => []OneRequestAtATime
<1>1. ServiceInv => OneRequestAtATime
  BY DEF ServiceInv, MutexHeld, CallsNest, OneRequestAtATime
<1> QED
  BY <1>1, InitInv, NextInv, PTL DEF Spec

(* A client that was given rows or a write confirmation has its Success      *)
(* record whole in the audit file, for ever.                                 *)
THEOREM SuccessesAreAudited == Spec => []SuccessIsAudited
<1>1. ServiceInv => SuccessIsAudited
  BY DEF ServiceInv, AuditInv, SuccessIsAcknowledged, AcknowledgedIsWhole, SuccessIsAudited
<1> QED
  BY <1>1, InitInv, NextInv, PTL DEF Spec

----------------------------------------------------------------------------
(* What the requests' tags tell: every request that has been answered,     *)
(* recorded or has changed something drew its id before the one that holds *)
(* the mutex.                                                              *)

Tags == [boot : Nat, request_id : Nat]

Before(a, b) ==
  a.boot < b.boot \/ (a.boot = b.boot /\ a.request_id < b.request_id)

(* The tag the next request will draw. *)
NextTag == [boot |-> boot, request_id |-> next_request_id]

(* The tag of a request that is over: drawn, and not the one being served. *)
Past(tag) ==
  /\ tag \in Tags
  /\ Before(tag, NextTag)
  /\ \A t \in Threads : mutex = t => tag # Tag(t)

(* The request being served is the last one that drew an id. *)
HolderIsLatest == \A t \in Threads : mutex = t => request_id[t] + 1 = next_request_id

(* A record was submitted for a request that is over, or is the one the      *)
(* holder is appending.                                                      *)
SubmittedOnce ==
  \A r \in submitted :
     Past(r.tag) \/ \E t \in Threads : pc[t] = "appending" /\ r = append_record[t]

(* Only requests that are over were answered. *)
RepliesArePast == \A reply \in replies : Past(reply.tag)

TrailInv ==
  /\ ServiceInv
  /\ CopyInv
  /\ HolderIsLatest
  /\ SubmittedOnce
  /\ RepliesArePast
  /\ TrailIsInRequestOrder
  /\ TrailAgreesWithReplies

----------------------------------------------------------------------------
(* A step that concerns neither the requests' order nor their records. *)
Quiet ==
  /\ UNCHANGED <<boot, next_request_id, mutex, request_id, auditVars, replies>>
  /\ \A t \in Threads : pc'[t] = "appending" <=> pc[t] = "appending"

(* All other steps. *)
LEMMA StepKinds ==
  ASSUME ServiceInv, [Next]_vars
  PROVE  \/ Quiet \/ Restart
         \/ \E t \in Threads : Acquire(t) \/ Audit(t) \/ Reply(t) \/ Repository(t)
<1>1. pc \in [Threads -> Pcs]
  BY DEF ServiceInv, ServiceTypeOK
<1>2. CASE UNCHANGED vars \/ AllServed \/ Server
  BY <1>2 DEF AllServed, Server, vars, serviceVars, Quiet
<1>3. ASSUME NEW t \in Threads, NEW text \in Sqls, Handle(t, text)
      PROVE  Quiet
  BY <1>1, <1>3 DEF Handle, Quiet
<1>4. ASSUME NEW t \in Threads, Approve(t) \/ Executor(t)
      PROVE  Quiet
  BY <1>1, <1>4 DEF Approve, Executor, Quiet, serviceVars
<1>5. ASSUME NEW t \in Threads,
             \/ Deny(t) \/ ParserThrows(t) \/ Complete(t)
             \/ ThrowBeforeExecution(t) \/ ThrowAfterExecution(t)
      PROVE  Quiet
  <2>1. (\E p : Processed(t, p)) /\ pc[t] \in {"process", "execute"}
    BY <1>5 DEF Deny, ParserThrows, Complete, ThrowBeforeExecution, ThrowAfterExecution
  <2> QED
    BY <1>1, <2>1 DEF Processed, Quiet
<1> QED
  BY <1>2, <1>3, <1>4, <1>5 DEF Next, HandleStep, PipelineStep

(* The holder's tag is one, and was drawn. *)
LEMMA TagIsDrawn ==
  ASSUME ServiceInv, HolderIsLatest, NEW t \in Threads, mutex = t
  PROVE  Tag(t) \in Tags /\ Before(Tag(t), NextTag)
<1>1. boot \in Nat /\ request_id[t] \in Nat /\ next_request_id \in Nat
  BY BootsAssumption DEF ServiceInv, ServiceTypeOK
<1>2. request_id[t] < next_request_id
  BY <1>1 DEF HolderIsLatest
<1> QED
  BY <1>1, <1>2 DEF Tag, Tags, Before, NextTag

(* Whatever is over was begun before the request being served. *)
LEMMA PastIsBefore ==
  ASSUME ServiceInv, HolderIsLatest, NEW t \in Threads, mutex = t, NEW tag, Past(tag)
  PROVE  Before(tag, Tag(t)) /\ tag # Tag(t)
<1>1. boot \in Nat /\ request_id[t] \in Nat /\ request_id[t] + 1 = next_request_id
  BY BootsAssumption DEF ServiceInv, ServiceTypeOK, HolderIsLatest
<1>2. /\ tag = [boot |-> tag.boot, request_id |-> tag.request_id]
      /\ tag.boot \in Nat /\ tag.request_id \in Nat
  BY DEF Past, Tags
<1>3. ~(tag.boot = boot /\ tag.request_id = request_id[t])
  BY <1>2 DEF Past, Tag
<1>4. tag.boot < boot \/ (tag.boot = boot /\ tag.request_id < request_id[t] + 1)
  BY <1>1 DEF Past, Before, NextTag
<1> QED
  BY <1>1, <1>2, <1>3, <1>4 DEF Before, Tag, Past

(* What is over stays over. *)
LEMMA PastStays ==
  ASSUME ServiceInv, [Next]_vars, NEW tag, Past(tag)
  PROVE  Past(tag)'
<1>1. /\ tag \in Tags /\ tag.boot \in Nat /\ tag.request_id \in Nat
      /\ tag.boot < boot \/ (tag.boot = boot /\ tag.request_id < next_request_id)
  BY DEF Past, Tags, Before, NextTag
<1>2. boot \in Nat /\ next_request_id \in Nat /\ request_id \in [Threads -> Nat]
  BY BootsAssumption DEF ServiceInv, ServiceTypeOK
<1>3. CASE UNCHANGED <<boot, next_request_id, mutex, request_id>>
  BY <1>3 DEF Past, Tags, Before, NextTag, Tag
<1>4. ASSUME NEW t \in Threads, Acquire(t)
      PROVE  Past(tag)'
  <2>1. /\ mutex' = t /\ request_id'[t] = next_request_id
        /\ next_request_id' = next_request_id + 1 /\ boot' = boot
    BY <1>2, <1>4 DEF Acquire
  <2>2. tag.boot < boot' \/ (tag.boot = boot' /\ tag.request_id < next_request_id')
    BY <1>1, <1>2, <2>1
  <2>3. ~(tag.boot = boot' /\ tag.request_id = request_id'[t])
    BY <1>1, <1>2, <2>1
  <2>4. tag # Tag(t)'
    BY <2>3 DEF Tag
  <2> QED
    BY <1>1, <2>1, <2>2, <2>4 DEF Past, Tags, Before, NextTag, Tag
<1>5. CASE mutex' = NoThread /\ boot' = boot /\ next_request_id' = next_request_id
  BY <1>1, <1>5, ThreadsAssumption DEF Past, Tags, Before, NextTag, Tag
<1>6. CASE mutex' = NoThread /\ boot' = boot + 1
  <2>1. tag.boot < boot'
    BY <1>1, <1>2, <1>6
  <2> QED
    BY <1>1, <1>6, <2>1, ThreadsAssumption DEF Past, Tags, Before, NextTag, Tag
<1>7. ASSUME NEW t \in Threads, Audit(t) \/ Repository(t)
      PROVE  UNCHANGED <<boot, next_request_id, mutex, request_id>>
  BY <1>7 DEF Audit, Repository, serviceVars
<1>8. ASSUME NEW t \in Threads, Reply(t)
      PROVE  mutex' = NoThread /\ boot' = boot /\ next_request_id' = next_request_id
  BY <1>8 DEF Reply
<1>9. Restart => mutex' = NoThread /\ boot' = boot + 1
  BY DEF Restart
<1> QED
  BY <1>3, <1>4, <1>5, <1>6, <1>7, <1>8, <1>9, StepKinds DEF Quiet

(* The request being served is over when it is answered, or lost. *)
LEMMA ServedBecomesPast ==
  ASSUME ServiceInv, HolderIsLatest, NEW t \in Threads, mutex = t, NEW tag, tag = Tag(t),
         Reply(t) \/ Restart
  PROVE  Past(tag)'
<1>1. /\ tag \in Tags /\ tag.boot = boot /\ tag.request_id = request_id[t]
      /\ boot \in Nat /\ request_id[t] \in Nat /\ request_id[t] < next_request_id
  BY BootsAssumption, TagIsDrawn
  DEF Tag, ServiceInv, ServiceTypeOK, HolderIsLatest
<1>2. mutex' = NoThread
  BY DEF Reply, Restart
<1>3. \/ boot' = boot /\ next_request_id' = next_request_id
      \/ boot' = boot + 1
  BY DEF Reply, Restart
<1>4. tag.boot < boot' \/ (tag.boot = boot' /\ tag.request_id < next_request_id')
  BY <1>1, <1>3
<1> QED
  BY <1>1, <1>2, <1>4, ThreadsAssumption DEF Past, Tags, Before, NextTag, Tag

----------------------------------------------------------------------------
(* The thread inside append() is the one that holds the mutex. *)
LEMMA AppendingHolds ==
  ASSUME ServiceInv, NEW t \in Threads, pc[t] \in {"append", "appending"}
  PROVE  /\ mutex = t
         /\ \A u \in Threads : pc[u] = "appending" => u = t
BY DEF ServiceInv, MutexHeld

(* A record that was submitted for the request being served is the one its   *)
(* thread is appending.                                                      *)
LEMMA RecordOfHolder ==
  ASSUME ServiceInv, HolderIsLatest, SubmittedOnce, NEW t \in Threads,
         pc[t] \in {"append", "appending"}, NEW r \in submitted, r.tag = Tag(t)
  PROVE  pc[t] = "appending" /\ r = append_record[t]
<1>1. mutex = t /\ \A u \in Threads : pc[u] = "appending" => u = t
  BY AppendingHolds
<1>2. ~Past(r.tag)
  BY <1>1, PastIsBefore
<1> QED
  BY <1>1, <1>2 DEF SubmittedOnce

(* Any other record belongs to a request that is over. *)
LEMMA RecordOfPast ==
  ASSUME ServiceInv, HolderIsLatest, SubmittedOnce, NEW t \in Threads,
         pc[t] \in {"append", "appending"}, NEW r \in submitted,
         pc[t] = "append" \/ r # append_record[t]
  PROVE  Past(r.tag)
BY AppendingHolds DEF SubmittedOnce

(* Ids are drawn under the mutex. *)
LEMMA HolderIsLatestInv ==
  ASSUME ServiceInv, HolderIsLatest, [Next]_vars
  PROVE  HolderIsLatest'
<1>1. ASSUME NEW t \in Threads, Acquire(t)
      PROVE  HolderIsLatest'
  BY <1>1 DEF Acquire, HolderIsLatest, ServiceInv, ServiceTypeOK
<1>2. CASE mutex' = NoThread
  BY <1>2, ThreadsAssumption DEF HolderIsLatest
<1>3. CASE UNCHANGED <<next_request_id, mutex, request_id>>
  BY <1>3 DEF HolderIsLatest
<1> QED
  BY <1>1, <1>2, <1>3, StepKinds
  DEF Quiet, Audit, Repository, Reply, Restart, serviceVars

(* append() is called once for a request. *)
LEMMA SubmittedOnceInv ==
  ASSUME ServiceInv, HolderIsLatest, SubmittedOnce, [Next]_vars
  PROVE  SubmittedOnce'
<1>1. \A r \in submitted : Past(r.tag) => Past(r.tag)'
  <2> TAKE r \in submitted
  <2> QED
    BY PastStays
<1>2. CASE /\ UNCHANGED <<submitted, append_record>>
           /\ \A u \in Threads : pc'[u] = "appending" <=> pc[u] = "appending"
  BY <1>1, <1>2 DEF SubmittedOnce
<1>3. ASSUME NEW t \in Threads, Audit(t)
      PROVE  SubmittedOnce'
  <2> DEFINE q == processing[t].record
  <2>1. /\ pc[t] = "append" /\ pc'[t] = "appending"
        /\ submitted' = submitted \cup {q} /\ append_record'[t] = q
    BY <1>3 DEF Audit, StartAppend, AppendThrows, ServiceInv, ServiceTypeOK, AuditInv,
                AuditTypeOK
  <2>2. \A r \in submitted : Past(r.tag)
    BY <2>1, RecordOfPast
  <2> HIDE DEF q
  <2> QED
    BY <1>1, <2>1, <2>2 DEF SubmittedOnce
<1>4. ASSUME \/ Restart
             \/ \E t \in Threads : Reply(t)
      PROVE  SubmittedOnce'
  <2>1. submitted' = submitted
    BY <1>4 DEF Restart, AuditRestart, Reply, TakeAppendResult
  <2>2. ASSUME NEW r \in submitted
        PROVE  Past(r.tag)'
    <3>1. CASE Past(r.tag)
      BY <1>1, <3>1
    <3>2. ASSUME NEW u \in Threads, pc[u] = "appending", r = append_record[u]
          PROVE  Past(r.tag)'
      <4>1. mutex = u /\ r.tag = Tag(u)
        BY <3>2, AppendingHolds DEF ServiceInv, RecordsMatch, Matches
      <4>2. Restart \/ Reply(u)
        BY <1>4, <3>2, AppendingHolds DEF Reply
      <4> QED
        BY <4>1, <4>2, ServedBecomesPast
    <3> QED
      BY <3>1, <3>2 DEF SubmittedOnce
  <2> QED
    BY <2>1, <2>2 DEF SubmittedOnce
<1>5. ASSUME NEW t \in Threads, Acquire(t)
      PROVE  /\ UNCHANGED <<submitted, append_record>>
             /\ \A u \in Threads : pc'[u] = "appending" <=> pc[u] = "appending"
  BY <1>5 DEF Acquire, auditVars, ServiceInv, ServiceTypeOK
<1>6. ASSUME NEW t \in Threads, Repository(t)
      PROVE  /\ UNCHANGED <<submitted, append_record>>
             /\ \A u \in Threads : pc'[u] = "appending" <=> pc[u] = "appending"
  BY <1>6 DEF Repository, AppendStep, LockStream, LockClosedStream, InsertLine, InsertNewline,
              Insert, FlushWrites, FlushFails, FlushBadStream, CheckStream, serviceVars
<1> QED
  BY <1>2, <1>3, <1>4, <1>5, <1>6, StepKinds DEF Quiet, auditVars

(* A request that is answered is over. *)
LEMMA RepliesArePastInv ==
  ASSUME ServiceInv, HolderIsLatest, RepliesArePast, [Next]_vars
  PROVE  RepliesArePast'
<1>1. \A reply \in replies : Past(reply.tag)'
  <2> TAKE reply \in replies
  <2> QED
    BY PastStays DEF RepliesArePast
<1>2. ASSUME NEW t \in Threads, Reply(t)
      PROVE  RepliesArePast'
  <2> DEFINE new == [tag |-> Tag(t), sql |-> sql[t], result |-> ResultOf(t)]
  <2>1. replies' = replies \cup {new} /\ new.tag = Tag(t)
    BY <1>2 DEF Reply
  <2>2. mutex = t
    BY <1>2, AppendingHolds DEF Reply
  <2>3. ASSUME NEW tag, tag = Tag(t)
        PROVE  Past(tag)'
    BY <1>2, <2>2, <2>3, ServedBecomesPast
  <2> HIDE DEF new
  <2>4. ASSUME NEW reply \in replies'
        PROVE  Past(reply.tag)'
    BY <1>1, <2>1, <2>3
  <2> QED
    BY <2>4 DEF RepliesArePast
<1>3. CASE UNCHANGED replies
  BY <1>1, <1>3 DEF RepliesArePast
<1> QED
  BY <1>2, <1>3, StepKinds DEF Quiet, Acquire, Audit, Repository, Restart, serviceVars

(* append() is called with a record that is new, so the repository's "no     *)
(* retries" facts hold in the service.                                       *)
LEMMA CopyInvInv ==
  ASSUME ServiceInv, CopyInv, HolderIsLatest, SubmittedOnce, [Next]_vars
  PROVE  CopyInv'
<1>1. ASSUME NEW t \in Threads, Audit(t)
      PROVE  CopyInv'
  <2> DEFINE q == processing[t].record
  <2>1. pc[t] = "append" /\ (StartAppend(t, q) \/ AppendThrows(t, q))
    BY <1>1 DEF Audit
  <2>2. q.tag = Tag(t) /\ q # NoRecord
    BY <2>1 DEF ServiceInv, RecordsMatch, Matches
  <2>3. q \notin submitted
    BY <2>1, <2>2, RecordOfHolder
  <2> QED
    BY <2>1, <2>2, <2>3, StartCopyInv DEF ServiceInv
<1>2. ASSUME NEW t \in Threads, Reply(t)
      PROVE  CopyInv'
  BY <1>2, TakeCopyInv DEF Reply, ServiceInv
<1>3. ASSUME NEW t \in Threads, Repository(t)
      PROVE  CopyInv'
  BY <1>3, AppendStepCopyInv DEF Repository, ServiceInv
<1>4. CASE Restart
  BY <1>4, RestartCopyInv DEF Restart, ServiceInv
<1>5. CASE UNCHANGED auditVars
  BY <1>5, CopyStutterInv
<1> QED
  BY <1>1, <1>2, <1>3, <1>4, <1>5, StepKinds DEF Quiet, Acquire

----------------------------------------------------------------------------
(* A write puts the record of the request being served behind the records of *)
(* requests that are over, and no reply was given for it.                    *)
LEMMA WriteKeepsTrail ==
  ASSUME TrailInv, NEW t \in Threads, append_pc[t] = "flush", NEW r \in submitted,
         r = append_record[t], NEW w \in Writings(r), w \in Seq(Tokens(submitted)),
         file' = file \o w, replies' = replies
  PROVE  TrailIsInRequestOrder' /\ TrailAgreesWithReplies'
<1> DEFINE n == Len(file)
<1> USE DEF TrailInv
<1>1. /\ n \in Nat /\ Len(file') \in Nat /\ Len(file') >= n
      /\ \A i \in 1 .. n : i \in 1 .. Len(file') /\ file'[i] = file[i]
      /\ \A i \in 1 .. Len(file') :
           \/ i \in 1 .. n
           \/ i = n + 1 /\ (file'[i] = Line(r) \/ file'[i] = Fragment(r))
           \/ i = n + 2 /\ file'[i] = Newline
  <2>1. file \in Seq(Tokens(submitted))
    BY DEF ServiceInv, AuditInv, AuditTypeOK
  <2> QED
    BY <2>1, WriteTokens
<1>2. pc[t] = "appending" /\ mutex = t /\ r.tag = Tag(t)
  <2>1. pc[t] = "appending"
    BY DEF ServiceInv, CallsNest
  <2> QED
    BY <2>1, AppendingHolds DEF ServiceInv, RecordsMatch, Matches
<1>3. ASSUME NEW i \in 1 .. n, file[i] # Newline
      PROVE  Before(file[i].record.tag, r.tag)
  <2>1. file[i].record \in submitted
    BY <1>3, TokenOfFile
  <2>2. file[i].record # r
    BY DEF CopyInv, PendingIsFresh, Unwritten
  <2>3. Past(file[i].record.tag)
    BY <1>2, <2>1, <2>2, RecordOfPast
  <2> QED
    BY <1>2, <2>3, PastIsBefore
<1>4. /\ Line(r).record = r /\ Fragment(r).record = r
      /\ Line(r) # Newline /\ Fragment(r) # Newline
  BY TokenRecords
<1> HIDE DEF n
<1>5. TrailIsInRequestOrder'
  <2>1. ASSUME NEW i \in 1 .. Len(file'), NEW j \in 1 .. Len(file'), i < j,
               file'[i] # Newline, file'[j] # Newline
        PROVE  Before(file'[i].record.tag, file'[j].record.tag)
    <3>1. CASE j \in 1 .. n
      <4>1. i \in 1 .. n
        BY <1>1, <2>1, <3>1
      <4>2. file'[i] = file[i] /\ file'[j] = file[j]
        BY <1>1, <3>1, <4>1
      <4> QED
        BY <2>1, <3>1, <4>1, <4>2 DEF TrailIsInRequestOrder, Before, n
    <3>2. CASE j \notin 1 .. n
      <4>1. j = n + 1 /\ file'[j].record = r
        BY <1>1, <1>4, <2>1, <3>2
      <4>2. i \in 1 .. n
        BY <1>1, <2>1, <4>1
      <4> QED
        BY <1>1, <1>3, <2>1, <4>1, <4>2
    <3> QED
      BY <3>1, <3>2
  <2> QED
    BY <2>1 DEF TrailIsInRequestOrder, Before, Newline, NoRecord
<1>6. TrailAgreesWithReplies'
  <2>1. ASSUME NEW reply \in replies, NEW i \in 1 .. Len(file') - 1,
               file'[i].part = "line", file'[i + 1] = Newline,
               file'[i].record.tag = reply.tag
        PROVE  file'[i].record.outcome = OutcomeOf(reply.result)
    <3>1. i \in 1 .. Len(file') /\ i + 1 \in 1 .. Len(file')
      BY <1>1
    <3>2. CASE i + 1 \in 1 .. n
      <4>1. i \in 1 .. n - 1 /\ i \in 1 .. n
        BY <1>1, <3>2
      <4>2. file'[i] = file[i] /\ file'[i + 1] = file[i + 1]
        BY <1>1, <3>2, <4>1
      <4> QED
        BY <2>1, <4>1, <4>2 DEF TrailAgreesWithReplies, n
    <3>3. CASE i + 1 \notin 1 .. n
      <4>1. i + 1 = n + 2
        BY <1>1, <1>4, <2>1, <3>1, <3>3
      <4>2. file'[i].record = r
        BY <1>1, <1>4, <3>1, <4>1
      <4>3. reply.tag = Tag(t)
        BY <1>2, <2>1, <4>2
      <4>4. Past(reply.tag)
        BY DEF RepliesArePast
      <4> QED
        BY <1>2, <4>3, <4>4, PastIsBefore
    <3> QED
      BY <3>2, <3>3
  <2> QED
    BY <2>1 DEF TrailAgreesWithReplies, Newline, NoRecord
<1> QED
  BY <1>5, <1>6

(* A whole line of the file whose request is being served was written by its *)
(* thread, and append() has answered or will answer Ok.                      *)
LEMMA LineOfHolder ==
  ASSUME TrailInv, NEW t \in Threads, pc[t] \in {"append", "appending"},
         NEW i \in 1 .. Len(file) - 1, file[i].part = "line", file[i + 1] = Newline,
         file[i].record.tag = Tag(t)
  PROVE  /\ pc[t] = "appending" /\ file[i].record = append_record[t]
         /\ HasLine(append_record[t]) /\ Recorded(t)
<1> USE DEF TrailInv
<1>1. i \in 1 .. Len(file)
  BY DEF ServiceInv, AuditInv, AuditTypeOK
<1>2. file[i] # Newline /\ \A r : file[i] # Fragment(r)
  BY DEF Newline, Fragment
<1>3. PICK r \in submitted : file[i] = Line(r)
  BY <1>1, <1>2 DEF CopyInv, FileIsOfRecords
<1>4. file[i].record = r
  BY <1>3, TokenRecords
<1>5. pc[t] = "appending" /\ r = append_record[t]
  BY <1>3, <1>4, RecordOfHolder
<1>6. HasLine(r)
  BY <1>3 DEF HasLine
<1>7. append_pc[t] # "idle"
  BY <1>5 DEF ServiceInv, CallsNest
<1> QED
  BY <1>4, <1>5, <1>6, <1>7 DEF CopyInv, WholeMeansRecorded

(* A reply agrees with the line of its request: if the line is whole, append *)
(* has answered Ok, and the result goes out as it was recorded.              *)
LEMMA ReplyKeepsTrail ==
  ASSUME TrailInv, NEW t \in Threads, Reply(t)
  PROVE  TrailIsInRequestOrder' /\ TrailAgreesWithReplies'
<1> DEFINE new == [tag |-> Tag(t), sql |-> sql[t], result |-> ResultOf(t)]
<1> USE DEF TrailInv
<1>1. /\ file' = file /\ replies' = replies \cup {new}
      /\ pc[t] = "appending" /\ append_pc[t] = "returned"
  BY DEF Reply, TakeAppendResult
<1>2. new.tag = Tag(t) /\ new.result = ResultOf(t)
  OBVIOUS
<1> HIDE DEF new
<1>3. TrailIsInRequestOrder'
  BY <1>1 DEF TrailIsInRequestOrder, Newline, NoRecord
<1>4. ASSUME NEW i \in 1 .. Len(file) - 1, file[i].part = "line", file[i + 1] = Newline,
             file[i].record.tag = new.tag
      PROVE  file[i].record.outcome = OutcomeOf(new.result)
  <2>1. file[i].record = append_record[t] /\ Recorded(t)
    BY <1>1, <1>2, <1>4, LineOfHolder
  <2>2. append_result[t] = "Ok"
    BY <1>1, <2>1 DEF Recorded
  <2>3. new.result = processing[t].result
    BY <1>2, <2>2 DEF ResultOf, ResultAfter
  <2> QED
    BY <1>1, <2>1, <2>3 DEF ServiceInv, RecordsMatch, Matches
<1>5. TrailAgreesWithReplies'
  BY <1>1, <1>4 DEF TrailAgreesWithReplies, Newline, NoRecord
<1> QED
  BY <1>3, <1>5

(* Every step keeps the order of the trail and its agreement with replies. *)
LEMMA TrailStep ==
  ASSUME TrailInv, [Next]_vars
  PROVE  TrailIsInRequestOrder' /\ TrailAgreesWithReplies'
<1>1. CASE UNCHANGED <<file, replies>>
  BY <1>1 DEF TrailInv, TrailIsInRequestOrder, TrailAgreesWithReplies, Newline, NoRecord
<1>2. ASSUME NEW t \in Threads, Repository(t)
      PROVE  TrailIsInRequestOrder' /\ TrailAgreesWithReplies'
  <2>1. replies' = replies
    BY <1>2 DEF Repository, serviceVars
  <2>2. CASE FlushWrites(t) \/ FlushFails(t)
    <3>1. /\ append_record[t] \in submitted /\ append_pc[t] = "flush"
          /\ \E w \in Writings(append_record[t]) :
               w \in Seq(Tokens(submitted)) /\ file' = file \o w
      BY <2>2, FlushEffect DEF TrailInv, ServiceInv
    <3> QED
      BY <2>1, <3>1, WriteKeepsTrail
  <2>3. CASE ~(FlushWrites(t) \/ FlushFails(t))
    <3>1. file' = file
      BY <1>2, <2>3 DEF Repository, AppendStep, LockStream, LockClosedStream, InsertLine,
                        InsertNewline, Insert, FlushBadStream, CheckStream
    <3> QED
      BY <1>1, <2>1, <3>1
  <2> QED
    BY <2>2, <2>3
<1>3. CASE Restart
  <2>1. replies' = replies /\ AuditRestart
    BY <1>3 DEF Restart
  <2>2. \/ file' = file
        \/ \E t \in Threads : \E w \in Writings(append_record[t]) :
             /\ append_pc[t] = "flush" /\ append_record[t] \in submitted
             /\ w \in Seq(Tokens(submitted)) /\ file' = file \o w
    BY <2>1, RestartEffect DEF TrailInv, ServiceInv
  <2> QED
    BY <1>1, <2>1, <2>2, WriteKeepsTrail
<1>4. ASSUME NEW t \in Threads, Acquire(t) \/ Audit(t)
      PROVE  UNCHANGED <<file, replies>>
  BY <1>4 DEF Acquire, Audit, StartAppend, AppendThrows, auditVars
<1>5. Quiet => UNCHANGED <<file, replies>>
  BY DEF Quiet, auditVars
<1> QED
  BY <1>1, <1>2, <1>3, <1>4, <1>5, StepKinds, ReplyKeepsTrail DEF TrailInv

(* The invariant holds at the start. *)
LEMMA TrailInit == Init => TrailInv
<1> SUFFICES ASSUME Init PROVE TrailInv
  OBVIOUS
<1>1. ServiceInv /\ CopyInv
  BY InitInv, CopyInitInv DEF Init
<1> QED
  BY <1>1, ThreadsAssumption
  DEF Init, AuditInit, TrailInv, HolderIsLatest, SubmittedOnce, RepliesArePast,
      TrailIsInRequestOrder, TrailAgreesWithReplies

(* Every step keeps it. *)
LEMMA TrailNext == TrailInv /\ [Next]_vars => TrailInv'
<1> SUFFICES ASSUME TrailInv, [Next]_vars
             PROVE  TrailInv'
  OBVIOUS
<1>1. ServiceInv /\ CopyInv /\ HolderIsLatest /\ SubmittedOnce /\ RepliesArePast
  BY DEF TrailInv
<1> QED
  BY <1>1, NextInv, CopyInvInv, HolderIsLatestInv, SubmittedOnceInv, RepliesArePastInv,
     TrailStep
  DEF TrailInv

----------------------------------------------------------------------------
(* The audit file is in the order in which the requests were served, and has *)
(* no request twice: ids are drawn, and records appended, under one mutex,   *)
(* and a restarted process counts from 1 in a later boot.                    *)
THEOREM TheTrailIsOrdered == Spec => []TrailIsInRequestOrder
<1>1. TrailInv => TrailIsInRequestOrder
  BY DEF TrailInv
<1> QED
  BY <1>1, TrailInit, TrailNext, PTL DEF Spec

(* The line of a request that was answered has the outcome the client was    *)
(* told, through failed appends, withheld successes, crashes in the middle   *)
(* of a write and restarts.                                                  *)
THEOREM TheTrailAgrees == Spec => []TrailAgreesWithReplies
<1>1. TrailInv => TrailAgreesWithReplies
  BY DEF TrailInv
<1> QED
  BY <1>1, TrailInit, TrailNext, PTL DEF Spec

----------------------------------------------------------------------------
(* What the statements handle() has executed do to the database: only the  *)
(* authorized INSERT changes it, at most once per request, and no reply    *)
(* says of the write what is not so, whatever fails, dies or commits late. *)
(* With what is known of the trail this makes the service implement        *)
(* AuditedGateway.                                                         *)

ChangeSet == [tag : Tags, sql : Sqls, affected_rows : AffectedCounts]

(* A request that has changed nothing and will not. *)
Untouched(tag) == \A change \in AllChanges : change.tag # tag

(* A request whose one change is made, with n rows. *)
MadeOnce(tag, n) ==
  /\ \E i \in DOMAIN committed :
       /\ committed[i].tag = tag /\ committed[i].affected_rows = n
       /\ \A j \in DOMAIN committed : committed[j].tag = tag => j = i
  /\ \A change \in in_flight : change.tag # tag

(* What a result tells of the write is so. *)
Truthful(result, tag) ==
  /\ WriteOf(result) = "none" => Untouched(tag)
  /\ WriteOf(result) = "done" => MadeOnce(tag, result.affected_rows)

ChangesTypeOK ==
  /\ committed \in Seq(ChangeSet) /\ in_flight \subseteq ChangeSet
  /\ exec_sql = [t \in Threads |-> exec_sql[t]]
  /\ exec_tag = [t \in Threads |-> exec_tag[t]]
  /\ exec_result = [t \in Threads |-> exec_result[t]]

(* The executor runs the approved text of the request being served. *)
ExecutesOwn ==
  \A t \in Threads :
    /\ pc[t] # "idle" => sql[t] \in Sqls
    /\ exec_pc[t] # "idle" =>
         /\ exec_sql[t] = sql[t] /\ exec_tag[t] = Tag(t)
         /\ evaluate(analyze(sql[t])).allowed

(* Changes belong to requests that are over or to the one being served. *)
ChangesAreServed ==
  \A change \in AllChanges :
     Past(change.tag) \/ \E t \in Threads : mutex = t /\ change.tag = Tag(t)

Uncommitted == {"connect", "begin", "statement", "commit", "committing"}

(* What the open transaction comes to. *)
Transaction(t) ==
  /\ ~Writes(sql[t]) => Untouched(Tag(t))
  /\ exec_pc[t] \in Uncommitted => Untouched(Tag(t))
  /\ exec_pc[t] \in {"commit", "committing", "committed"} =>
       /\ exec_result[t].status = "Ok"
       /\ Writes(sql[t]) => exec_result[t].affected_rows \in AffectedCounts
  /\ (exec_pc[t] \in {"committed", "returned"} /\ exec_result[t].status = "Ok" /\ Writes(sql[t]))
       => MadeOnce(Tag(t), exec_result[t].affected_rows)
  /\ (exec_pc[t] = "returned" /\ exec_result[t].status = "ConnectionFailure")
       => Untouched(Tag(t))

(* What handle() knows of the write of the request it serves. *)
Knows(t) ==
  /\ pc[t] = "process" => Untouched(Tag(t))
  /\ pc[t] = "execute" => exec_pc[t] # "idle" /\ Transaction(t)
  /\ pc[t] \in {"append", "appending"} => Truthful(processing[t].result, Tag(t))

ExecutorKnows == \A t \in Threads : Knows(t)

RepliesTruthful == \A reply \in replies : Truthful(reply.result, reply.tag)

(* Every change that is made, or may be, is the authorized INSERT. *)
OnlyOrderInserts == \A change \in AllChanges : IsOrderInsert(change.sql)

ChangesInv ==
  /\ TrailInv
  /\ ChangesTypeOK
  /\ ExecutesOwn
  /\ ChangesAreServed
  /\ ExecutorKnows
  /\ RepliesTruthful
  /\ OnlyOrderInserts

----------------------------------------------------------------------------
(* What an approved text can write. *)
LEMMA ApprovedText ==
  ASSUME NEW text \in Sqls, evaluate(analyze(text)).allowed
  PROVE  /\ Writes(text) <=> analyze(text).statement_type = "Insert"
         /\ Writes(text) => IsOrderInsert(text)
<1>1. Grammatical(text)
  BY SqlsAssumption
<1>2. Writes(text) <=> text.statements[1].type # "kStmtSelect"
  BY <1>1, AllowedTexts DEF Writes
<1>3. Len(text.statements) = 1 /\ text.statements[1].type \in {"kStmtSelect", "kStmtInsert"}
  BY <1>1, AllowedTexts
<1>4. text.statements[1].type = "kStmtSelect" => analyze(text).statement_type = "Select"
  BY <1>1, AllowedTexts
<1>5. text.statements[1].type = "kStmtInsert" =>
        /\ analyze(text).statement_type = "Insert"
        /\ AuthorizedInsert(text.statements[1])
  BY <1>1, AllowedTexts
<1>6. ASSUME text.statements[1].type = "kStmtInsert"
      PROVE  IsOrderInsert(text)
  BY <1>3, <1>5, <1>6 DEF AuthorizedInsert, IsOrderInsert
<1> QED
  BY <1>2, <1>3, <1>4, <1>5, <1>6

(* What the transaction of thread t adds if it writes. *)
ChangeOf(t) ==
  [tag |-> Tag(t), sql |-> sql[t], affected_rows |-> exec_result[t].affected_rows]

(* The three things that happen to the database. *)
CommitsNow(c) == committed' = Append(committed, c) /\ in_flight' = in_flight
LeftInDoubt(c) == committed' = committed /\ in_flight' = in_flight \cup {c}
CommitsLate(c) ==
  c \in in_flight /\ committed' = Append(committed, c) /\ in_flight' = in_flight \ {c}

(* Adding a change at the end. *)
LEMMA AppendedChange ==
  ASSUME NEW S, NEW q \in Seq(S), NEW c \in S, NEW p, p = Append(q, c)
  PROVE  /\ p \in Seq(S) /\ Len(q) \in Nat /\ Len(p) = Len(q) + 1
         /\ DOMAIN q = 1 .. Len(q) /\ DOMAIN p = 1 .. Len(q) + 1
         /\ \A i \in 1 .. Len(q) : p[i] = q[i]
         /\ p[Len(q) + 1] = c
         /\ {p[i] : i \in DOMAIN p} = {q[i] : i \in DOMAIN q} \cup {c}
<1>1. /\ p \in Seq(S) /\ Len(q) \in Nat /\ Len(p) = Len(q) + 1
      /\ DOMAIN q = 1 .. Len(q) /\ DOMAIN p = 1 .. Len(q) + 1
      /\ \A i \in 1 .. Len(q) : p[i] = q[i]
      /\ p[Len(q) + 1] = c
  BY AppendProperties
<1>2. \A i \in 1 .. Len(q) + 1 : i \in 1 .. Len(q) \/ i = Len(q) + 1
  BY <1>1
<1>3. \A i \in 1 .. Len(q) : i \in 1 .. Len(q) + 1
  BY <1>1
<1>4. Len(q) + 1 \in 1 .. Len(q) + 1
  BY <1>1
<1>5. {p[i] : i \in DOMAIN p} = {q[i] : i \in DOMAIN q} \cup {c}
  BY <1>1, <1>2, <1>3, <1>4, Zenon
<1> QED
  BY <1>1, <1>5

(* What a change leaves as it is: everything about other requests. *)
LEMMA ChangeKeeps ==
  ASSUME ChangesTypeOK, NEW c \in ChangeSet,
         CommitsNow(c) \/ LeftInDoubt(c) \/ CommitsLate(c)
  PROVE  /\ committed' \in Seq(ChangeSet) /\ in_flight' \subseteq ChangeSet
         /\ AllChanges' \subseteq AllChanges \cup {c}
         /\ \A tag : tag # c.tag /\ Untouched(tag) => Untouched(tag)'
         /\ \A tag, n : tag # c.tag /\ MadeOnce(tag, n) => MadeOnce(tag, n)'
<1> DEFINE S == ChangeSet
<1>1. committed \in Seq(S) /\ in_flight \subseteq S /\ c \in S
  BY DEF ChangesTypeOK
<1> HIDE DEF S
<1>2. \/ committed' = committed
      \/ committed' = Append(committed, c)
  BY DEF CommitsNow, LeftInDoubt, CommitsLate
<1>3. in_flight' \subseteq in_flight \cup {c} /\ in_flight' \subseteq S
  BY <1>1 DEF CommitsNow, LeftInDoubt, CommitsLate
<1>4. committed' = Append(committed, c) =>
         /\ committed' \in Seq(S) /\ Len(committed) \in Nat
         /\ DOMAIN committed = 1 .. Len(committed) /\ DOMAIN committed' = 1 .. Len(committed) + 1
         /\ \A i \in 1 .. Len(committed) : committed'[i] = committed[i]
         /\ committed'[Len(committed) + 1] = c
         /\ {committed'[i] : i \in DOMAIN committed'} = {committed[i] : i \in DOMAIN committed} \cup {c}
  BY <1>1, AppendedChange
<1>5. committed' \in Seq(S)
  BY <1>1, <1>2, <1>4
<1>6. AllChanges' \subseteq AllChanges \cup {c}
  <2>1. {committed'[i] : i \in DOMAIN committed'} \subseteq {committed[i] : i \in DOMAIN committed} \cup {c}
    BY <1>2, <1>4
  <2> QED
    BY <1>3, <2>1 DEF AllChanges
<1>7. ASSUME NEW tag, tag # c.tag, Untouched(tag)
      PROVE  Untouched(tag)'
  BY <1>6, <1>7 DEF Untouched
<1>8. ASSUME NEW tag, NEW n, tag # c.tag, MadeOnce(tag, n)
      PROVE  MadeOnce(tag, n)'
  <2>1. \A change \in in_flight' : change.tag # tag
    BY <1>3, <1>8 DEF MadeOnce
  <2>2. CASE committed' = committed
    BY <1>8, <2>1, <2>2 DEF MadeOnce
  <2>3. CASE committed' = Append(committed, c)
    <3>1. PICK i \in DOMAIN committed :
            /\ committed[i].tag = tag /\ committed[i].affected_rows = n
            /\ \A j \in DOMAIN committed : committed[j].tag = tag => j = i
      BY <1>8 DEF MadeOnce
    <3>2. i \in DOMAIN committed' /\ committed'[i] = committed[i]
      BY <1>4, <2>3
    <3>3. ASSUME NEW j \in DOMAIN committed', committed'[j].tag = tag
          PROVE  j = i
      <4>1. j # Len(committed) + 1
        BY <1>4, <1>8, <2>3, <3>3
      <4>2. j \in DOMAIN committed /\ committed'[j] = committed[j]
        BY <1>4, <2>3, <4>1
      <4> QED
        BY <3>1, <3>3, <4>2
    <3> QED
      BY <2>1, <3>1, <3>2, <3>3 DEF MadeOnce
  <2> QED
    BY <1>2, <2>2, <2>3
<1> QED
  BY <1>3, <1>5, <1>6, <1>7, <1>8 DEF S

(* A request that has changed nothing and commits now has its one change. *)
LEMMA FirstCommit ==
  ASSUME ChangesTypeOK, NEW c \in ChangeSet, CommitsNow(c), Untouched(c.tag)
  PROVE  MadeOnce(c.tag, c.affected_rows)'
<1> DEFINE S == ChangeSet
           m == Len(committed) + 1
<1>1. committed \in Seq(S) /\ c \in S /\ committed' = Append(committed, c) /\ in_flight' = in_flight
  BY DEF ChangesTypeOK, CommitsNow
<1> HIDE DEF S
<1>2. /\ Len(committed) \in Nat
      /\ DOMAIN committed = 1 .. Len(committed) /\ DOMAIN committed' = 1 .. m
      /\ \A i \in 1 .. Len(committed) : committed'[i] = committed[i]
      /\ committed'[m] = c
  BY <1>1, AppendedChange
<1>3. /\ \A i \in DOMAIN committed : committed[i].tag # c.tag
      /\ \A change \in in_flight : change.tag # c.tag
  BY DEF Untouched, AllChanges
<1>4. m \in DOMAIN committed' /\ \A j \in DOMAIN committed' : j \in DOMAIN committed \/ j = m
  BY <1>2
<1> HIDE DEF m
<1>5. \A j \in DOMAIN committed' : committed'[j].tag = c.tag => j = m
  BY <1>2, <1>3, <1>4
<1> QED
  BY <1>1, <1>2, <1>3, <1>4, <1>5 DEF MadeOnce

----------------------------------------------------------------------------
(* The transaction that is being committed writes what the policy allows,    *)
(* for the request being served, which has changed nothing yet.              *)
LEMMA CommittingChange ==
  ASSUME ChangesInv, NEW t \in Threads, exec_pc[t] = "committing"
  PROVE  /\ pc[t] = "execute" /\ mutex = t
         /\ exec_sql[t] = sql[t] /\ exec_tag[t] = Tag(t)
         /\ Untouched(Tag(t))
         /\ Writes(sql[t]) => ChangeOf(t) \in ChangeSet /\ IsOrderInsert(sql[t])
<1> USE DEF ChangesInv
<1>1. pc[t] = "execute"
  BY DEF TrailInv, ServiceInv, CallsNest
<1>2. mutex = t
  BY <1>1 DEF TrailInv, ServiceInv, MutexHeld
<1>3. /\ exec_sql[t] = sql[t] /\ exec_tag[t] = Tag(t)
      /\ sql[t] \in Sqls /\ evaluate(analyze(sql[t])).allowed
  BY <1>1 DEF ExecutesOwn
<1>4. /\ Untouched(Tag(t))
      /\ Writes(sql[t]) => exec_result[t].affected_rows \in AffectedCounts
  BY <1>1 DEF ExecutorKnows, Knows, Transaction, Uncommitted
<1>5. Tag(t) \in Tags
  BY <1>2, TagIsDrawn DEF TrailInv
<1>6. Writes(sql[t]) => IsOrderInsert(sql[t])
  BY <1>3, ApprovedText
<1> QED
  BY <1>1, <1>2, <1>3, <1>4, <1>5, <1>6 DEF ChangeOf, ChangeSet

(* Changes(t) is that change, or nothing. *)
LEMMA ChangesAre ==
  ASSUME ChangesInv, NEW t \in Threads, exec_pc[t] = "committing"
  PROVE  /\ Writes(sql[t]) => Changes(t) = <<ChangeOf(t)>> /\ Orphaned(t) = {ChangeOf(t)}
         /\ ~Writes(sql[t]) => Changes(t) = <<>> /\ Orphaned(t) = {}
<1>1. exec_sql[t] = sql[t] /\ exec_tag[t] = Tag(t)
  BY CommittingChange
<1>2. Changes(t) = IF Writes(sql[t]) THEN <<ChangeOf(t)>> ELSE <<>>
  BY <1>1 DEF Changes, ChangeOf
<1>3. \A x : {<<x>>[i] : i \in DOMAIN <<x>>} = {x}
  OBVIOUS
<1>4. \A x : {<<>>[i] : i \in DOMAIN <<>>} = {}
  OBVIOUS
<1> QED
  BY <1>2, <1>3, <1>4 DEF Orphaned

(* At most one transaction is being committed. *)
LEMMA OneCommitting ==
  ASSUME ChangesInv, NEW t \in Threads, NEW u \in Threads,
         exec_pc[t] = "committing", exec_pc[u] = "committing"
  PROVE  t = u
BY CommittingChange

SameDatabase == UNCHANGED <<committed, in_flight>>

(* What each step does to the database. *)
LEMMA DatabaseSteps ==
  ASSUME ChangesInv, [Next]_vars
  PROVE  \/ SameDatabase
         \/ Server /\ \E c \in in_flight : CommitsLate(c)
         \/ \E t \in Threads :
              /\ exec_pc[t] = "committing" /\ Writes(sql[t])
              /\ \/ Executor(t) /\ ServerCommits(t) /\ CommitsNow(ChangeOf(t))
                 \/ Executor(t) /\ CommitInDoubt(t) /\ LeftInDoubt(ChangeOf(t))
                 \/ Restart /\ LeftInDoubt(ChangeOf(t))
<1> DEFINE Goal ==
         \/ SameDatabase
         \/ Server /\ \E c \in in_flight : CommitsLate(c)
         \/ \E t \in Threads :
              /\ exec_pc[t] = "committing" /\ Writes(sql[t])
              /\ \/ Executor(t) /\ ServerCommits(t) /\ CommitsNow(ChangeOf(t))
                 \/ Executor(t) /\ CommitInDoubt(t) /\ LeftInDoubt(ChangeOf(t))
                 \/ Restart /\ LeftInDoubt(ChangeOf(t))
<1>1. committed \in Seq(ChangeSet)
  BY DEF ChangesInv, ChangesTypeOK
<1>2. CASE Server
  BY <1>2 DEF Server, LateCommit, CommitsLate
<1>3. CASE Restart
  <2>1. PICK S \in SUBSET {t \in Threads : exec_pc[t] = "committing"} :
          /\ in_flight' = in_flight \cup UNION {Orphaned(t) : t \in S}
          /\ committed' = committed
    BY <1>3 DEF Restart, ExecRestart
  <2>2. CASE \A t \in S : Orphaned(t) = {}
    <3>1. in_flight' = in_flight
      BY <2>1, <2>2
    <3> QED
      BY <2>1, <3>1 DEF SameDatabase
  <2>3. ASSUME NEW t \in S, Orphaned(t) # {}
        PROVE  Goal
    <3>1. t \in Threads /\ exec_pc[t] = "committing" /\ S = {t}
      BY OneCommitting
    <3>2. Writes(sql[t]) /\ Orphaned(t) = {ChangeOf(t)}
      BY <2>3, <3>1, ChangesAre
    <3>3. UNION {Orphaned(u) : u \in S} = {ChangeOf(t)}
      BY <3>1, <3>2
    <3> QED
      BY <1>3, <2>1, <3>1, <3>2, <3>3 DEF LeftInDoubt
  <2> QED
    BY <2>2, <2>3
<1>4. ASSUME NEW t \in Threads, Executor(t)
      PROVE  Goal
  <2>1. CASE ServerCommits(t)
    <3>1. /\ exec_pc[t] = "committing" /\ in_flight' = in_flight
          /\ committed' = committed \o Changes(t)
      BY <2>1 DEF ServerCommits, Advance
    <3>2. CASE Writes(sql[t])
      <4>1. committed' = committed \o <<ChangeOf(t)>> /\ ChangeOf(t) \in ChangeSet
        BY <3>1, <3>2, ChangesAre, CommittingChange
      <4>2. committed' = Append(committed, ChangeOf(t))
        BY <1>1, <4>1, AppendIsConcat
      <4> QED
        BY <1>4, <2>1, <3>1, <3>2, <4>2 DEF CommitsNow
    <3>3. CASE ~Writes(sql[t])
      <4>1. committed' = committed \o <<>>
        BY <3>1, <3>3, ChangesAre
      <4>2. committed' = committed
        BY <1>1, <4>1, ConcatEmptySeq
      <4> QED
        BY <3>1, <4>2 DEF SameDatabase
    <3> QED
      BY <3>2, <3>3
  <2>2. CASE CommitInDoubt(t)
    <3>1. CASE exec_pc[t] = "committing" /\ Writes(sql[t])
      <4>1. LeftInDoubt(ChangeOf(t))
        BY <2>2, <3>1, ChangesAre DEF CommitInDoubt, LeftInDoubt
      <4> QED
        BY <1>4, <2>2, <3>1, <4>1
    <3>2. CASE ~(exec_pc[t] = "committing" /\ Writes(sql[t]))
      <4>1. SameDatabase
        BY <2>2, <3>2, ChangesAre DEF CommitInDoubt, SameDatabase
      <4> QED
        BY <4>1
    <3> QED
      BY <3>1, <3>2
  <2>3. CASE ~ServerCommits(t) /\ ~CommitInDoubt(t)
    BY <1>4, <2>3 DEF Executor, ExecuteStep, Connect, BeginTransaction, RunStatement,
                      SendCommit, CommitAcknowledged, LoseConnection, FailExecution,
                      SameDatabase
  <2> QED
    BY <2>1, <2>2, <2>3
<1>5. ASSUME NEW t \in Threads,
             \/ \E text \in Sqls : Handle(t, text)
             \/ Acquire(t) \/ Deny(t) \/ ParserThrows(t) \/ Approve(t) \/ Complete(t)
             \/ ThrowBeforeExecution(t) \/ ThrowAfterExecution(t) \/ Audit(t)
             \/ Repository(t) \/ Reply(t)
      PROVE  SameDatabase
  BY <1>5 DEF Handle, Acquire, Deny, ParserThrows, Approve, Execute, Complete, TakeExecution,
              ThrowBeforeExecution, ThrowAfterExecution, Audit, Repository, Reply, execVars,
              SameDatabase
<1>6. CASE AllServed \/ UNCHANGED vars
  BY <1>6 DEF AllServed, vars, execVars, SameDatabase
<1> QED
  BY <1>2, <1>3, <1>4, <1>5, <1>6 DEF Next, HandleStep, PipelineStep

----------------------------------------------------------------------------
(* What is known of a request stays so, unless its own transaction is the    *)
(* one being committed; a late COMMIT never surprises anybody.               *)
LEMMA KnowledgeStays ==
  ASSUME ChangesInv, [Next]_vars, NEW tag,
         \/ SameDatabase \/ Server
         \/ \A t \in Threads : exec_pc[t] = "committing" => tag # Tag(t)
  PROVE  /\ Untouched(tag) => Untouched(tag)'
         /\ \A n : MadeOnce(tag, n) => MadeOnce(tag, n)'
<1>1. ChangesTypeOK
  BY DEF ChangesInv
<1>2. CASE SameDatabase
  BY <1>2 DEF SameDatabase, Untouched, MadeOnce, AllChanges
<1>3. ASSUME NEW c \in in_flight, CommitsLate(c)
      PROVE  /\ Untouched(tag) => Untouched(tag)'
             /\ \A n : MadeOnce(tag, n) => MadeOnce(tag, n)'
  <2>1. c \in ChangeSet
    BY <1>1 DEF ChangesTypeOK
  <2>2. Untouched(tag) => tag # c.tag
    BY DEF Untouched, AllChanges
  <2>3. \A n : MadeOnce(tag, n) => tag # c.tag
    BY DEF MadeOnce
  <2> QED
    BY <1>1, <1>3, <2>1, <2>2, <2>3, ChangeKeeps
<1>4. ASSUME NEW t \in Threads, exec_pc[t] = "committing", Writes(sql[t]), tag # Tag(t),
             CommitsNow(ChangeOf(t)) \/ LeftInDoubt(ChangeOf(t))
      PROVE  /\ Untouched(tag) => Untouched(tag)'
             /\ \A n : MadeOnce(tag, n) => MadeOnce(tag, n)'
  <2>1. ChangeOf(t) \in ChangeSet
    BY <1>4, CommittingChange
  <2>2. ChangeOf(t).tag = Tag(t)
    BY DEF ChangeOf
  <2> QED
    BY <1>1, <1>4, <2>1, <2>2, ChangeKeeps
<1>5. CASE Server
  <2>1. SameDatabase \/ \E c \in in_flight : CommitsLate(c)
    BY <1>5 DEF Server, LateCommit, CommitsLate
  <2> QED
    BY <1>2, <1>3, <2>1
<1> QED
  BY <1>2, <1>3, <1>4, <1>5, DatabaseSteps

(* The transaction being committed is that of the request being served, so   *)
(* what is known of any other request stays so.                              *)
LEMMA PastKnowledgeStays ==
  ASSUME ChangesInv, [Next]_vars, NEW tag, Past(tag), NEW result, Truthful(result, tag)
  PROVE  Truthful(result, tag)'
<1>1. \A t \in Threads : exec_pc[t] = "committing" => tag # Tag(t)
  BY CommittingChange DEF Past
<1> QED
  BY <1>1, KnowledgeStays DEF Truthful

(* The changes stay typed, and each is the authorized INSERT. *)
LEMMA ChangesStayTyped ==
  ASSUME ChangesInv, [Next]_vars
  PROVE  /\ committed' \in Seq(ChangeSet) /\ in_flight' \subseteq ChangeSet
         /\ OnlyOrderInserts'
<1>1. ChangesTypeOK /\ OnlyOrderInserts
  BY DEF ChangesInv
<1>2. CASE SameDatabase
  BY <1>1, <1>2 DEF SameDatabase, ChangesTypeOK, OnlyOrderInserts, AllChanges
<1>3. ASSUME NEW c \in ChangeSet, IsOrderInsert(c.sql),
             CommitsNow(c) \/ LeftInDoubt(c) \/ CommitsLate(c)
      PROVE  /\ committed' \in Seq(ChangeSet) /\ in_flight' \subseteq ChangeSet
             /\ OnlyOrderInserts'
  <2>1. /\ committed' \in Seq(ChangeSet) /\ in_flight' \subseteq ChangeSet
        /\ AllChanges' \subseteq AllChanges \cup {c}
    BY <1>1, <1>3, ChangeKeeps
  <2>2. \A change \in AllChanges' : IsOrderInsert(change.sql)
    BY <1>1, <1>3, <2>1 DEF OnlyOrderInserts
  <2> QED
    BY <2>1, <2>2 DEF OnlyOrderInserts
<1>4. ASSUME NEW c \in in_flight
      PROVE  c \in ChangeSet /\ IsOrderInsert(c.sql)
  BY <1>1 DEF ChangesTypeOK, OnlyOrderInserts, AllChanges
<1>5. ASSUME NEW t \in Threads, exec_pc[t] = "committing", Writes(sql[t])
      PROVE  ChangeOf(t) \in ChangeSet /\ IsOrderInsert(ChangeOf(t).sql)
  <2>1. ChangeOf(t).sql = sql[t]
    BY DEF ChangeOf
  <2> QED
    BY <1>5, <2>1, CommittingChange
<1> QED
  BY <1>2, <1>3, <1>4, <1>5, DatabaseSteps

(* The changes are those of requests that are over or being served. *)
LEMMA ChangesStayServed ==
  ASSUME ChangesInv, [Next]_vars
  PROVE  ChangesAreServed'
<1> DEFINE Served(tag) == Past(tag) \/ \E t \in Threads : mutex = t /\ tag = Tag(t)
<1>1. TrailInv /\ ServiceInv /\ HolderIsLatest
  BY DEF ChangesInv, TrailInv
<1>2. ASSUME NEW tag, Served(tag)
      PROVE  Served(tag)'
  <2>1. CASE Past(tag)
    BY <1>1, <2>1, PastStays
  <2>2. ASSUME NEW t \in Threads, mutex = t, tag = Tag(t)
        PROVE  Served(tag)'
    <3>1. CASE Reply(t) \/ Restart
      BY <1>1, <2>2, <3>1, ServedBecomesPast
    <3>2. ASSUME NEW u \in Threads, Reply(u)
          PROVE  u = t
      BY <1>1, <2>2, <3>2, AppendingHolds DEF Reply
    <3>3. ASSUME NEW u \in Threads, Acquire(u)
          PROVE  FALSE
      BY <2>2, <3>3, ThreadsAssumption DEF Acquire
    <3>4. CASE UNCHANGED <<mutex, boot, request_id>>
      BY <2>2, <3>4 DEF Tag
    <3> QED
      BY <1>1, <3>1, <3>2, <3>3, <3>4, StepKinds DEF Quiet, Audit, Repository, serviceVars
  <2> QED
    BY <1>2, <2>1, <2>2
<1>3. ASSUME NEW change \in AllChanges
      PROVE  Served(change.tag)
  BY DEF ChangesInv, ChangesAreServed
<1>4. ASSUME NEW t \in Threads, exec_pc[t] = "committing"
      PROVE  Served(Tag(t))
  BY <1>4, CommittingChange
<1>5. ASSUME NEW change \in AllChanges'
      PROVE  Served(change.tag)
  <2>1. CASE change \in AllChanges
    BY <1>3, <2>1
  <2>2. CASE change \notin AllChanges
    <3>1. ~SameDatabase
      BY <2>2 DEF SameDatabase, AllChanges
    <3>2. ASSUME NEW c \in in_flight, CommitsLate(c)
          PROVE  FALSE
      <4>1. c \in ChangeSet /\ c \in AllChanges /\ ChangesTypeOK
        BY DEF ChangesInv, ChangesTypeOK, AllChanges
      <4> QED
        BY <2>2, <3>2, <4>1, ChangeKeeps
    <3>3. PICK t \in Threads :
            /\ exec_pc[t] = "committing" /\ Writes(sql[t])
            /\ CommitsNow(ChangeOf(t)) \/ LeftInDoubt(ChangeOf(t))
      BY <3>1, <3>2, DatabaseSteps
    <3>4. ChangeOf(t) \in ChangeSet /\ ChangesTypeOK
      BY <3>3, CommittingChange DEF ChangesInv
    <3>5. change = ChangeOf(t)
      BY <2>2, <3>3, <3>4, ChangeKeeps
    <3>6. change.tag = Tag(t)
      BY <3>5 DEF ChangeOf
    <3> QED
      BY <1>4, <3>3, <3>6
  <2> QED
    BY <2>1, <2>2
<1>6. ASSUME NEW change \in AllChanges'
      PROVE  Served(change.tag)'
  BY <1>2, <1>5
<1> QED
  BY <1>6 DEF ChangesAreServed

(* A reply says of the write what the result it is made of says, or leaves   *)
(* it open.                                                                  *)
LEMMA RepliesStayTruthful ==
  ASSUME ChangesInv, [Next]_vars
  PROVE  RepliesTruthful'
<1>1. TrailInv /\ ServiceInv /\ RepliesArePast
  BY DEF ChangesInv, TrailInv
<1>2. ASSUME NEW reply \in replies
      PROVE  Truthful(reply.result, reply.tag)'
  BY <1>1, PastKnowledgeStays DEF ChangesInv, RepliesTruthful, RepliesArePast
<1>3. CASE replies' = replies
  BY <1>2, <1>3 DEF RepliesTruthful
<1>4. ASSUME NEW t \in Threads, Reply(t)
      PROVE  RepliesTruthful'
  <2> DEFINE new == [tag |-> Tag(t), sql |-> sql[t], result |-> ResultOf(t)]
  <2>1. replies' = replies \cup {new} /\ pc[t] = "appending" /\ SameDatabase
    BY <1>4 DEF Reply, execVars, SameDatabase
  <2>2. new.tag = Tag(t) /\ new.result = ResultOf(t)
    OBVIOUS
  <2>3. Truthful(ResultOf(t), Tag(t))
    <3>1. Truthful(processing[t].result, Tag(t))
      BY <2>1 DEF ChangesInv, ExecutorKnows, Knows
    <3>2. WriteOf(Failure("InternalError")) = "unknown"
      BY DEF WriteOf, Failure
    <3>3. Truthful(Failure("InternalError"), Tag(t))
      BY <3>2 DEF Truthful
    <3> QED
      BY <3>1, <3>3 DEF ResultOf, ResultAfter
  <2> HIDE DEF new
  <2>4. Truthful(new.result, new.tag)
    BY <2>2, <2>3
  <2>5. ASSUME NEW result, NEW tag, Truthful(result, tag)
        PROVE  Truthful(result, tag)'
    BY <2>1, <2>5 DEF SameDatabase, Truthful, Untouched, MadeOnce, AllChanges
  <2>6. ASSUME NEW reply \in replies'
        PROVE  Truthful(reply.result, reply.tag)'
    BY <1>2, <2>1, <2>4, <2>5
  <2> QED
    BY <2>6 DEF RepliesTruthful
<1> QED
  BY <1>1, <1>3, <1>4, StepKinds DEF Quiet, Acquire, Audit, Repository, Restart, serviceVars

----------------------------------------------------------------------------
(* The executor's variables stay functions on the threads. *)
LEMMA ExecutorTyped ==
  ASSUME ChangesInv, [Next]_vars
  PROVE  /\ exec_sql' = [t \in Threads |-> exec_sql'[t]]
         /\ exec_tag' = [t \in Threads |-> exec_tag'[t]]
         /\ exec_result' = [t \in Threads |-> exec_result'[t]]
<1>1. /\ exec_sql = [t \in Threads |-> exec_sql[t]]
      /\ exec_tag = [t \in Threads |-> exec_tag[t]]
      /\ exec_result = [t \in Threads |-> exec_result[t]]
  BY DEF ChangesInv, ChangesTypeOK
<1>2. CASE UNCHANGED <<exec_sql, exec_tag, exec_result>>
  BY <1>1, <1>2
<1>3. CASE Restart
  BY <1>3 DEF Restart, ExecRestart
<1>4. ASSUME NEW t \in Threads, Approve(t) \/ Complete(t) \/ ThrowAfterExecution(t)
      PROVE  /\ exec_sql' = [u \in Threads |-> exec_sql'[u]]
             /\ exec_tag' = [u \in Threads |-> exec_tag'[u]]
             /\ exec_result' = [u \in Threads |-> exec_result'[u]]
  BY <1>1, <1>4 DEF Approve, Execute, Complete, ThrowAfterExecution, TakeExecution
<1>5. ASSUME NEW t \in Threads, Executor(t)
      PROVE  /\ UNCHANGED <<exec_sql, exec_tag>>
             /\ \/ exec_result' = exec_result
                \/ \E x : exec_result' = [exec_result EXCEPT ![t] = x]
  BY <1>5 DEF Executor, ExecuteStep, Connect, BeginTransaction, RunStatement, SendCommit,
              ServerCommits, CommitAcknowledged, LoseConnection, FailExecution, CommitInDoubt,
              Advance, ExecReturns
<1>6. ASSUME NEW t \in Threads, Executor(t)
      PROVE  /\ exec_sql' = [u \in Threads |-> exec_sql'[u]]
             /\ exec_tag' = [u \in Threads |-> exec_tag'[u]]
             /\ exec_result' = [u \in Threads |-> exec_result'[u]]
  BY <1>1, <1>5, <1>6
<1>7. ASSUME NEW t \in Threads,
             \/ \E text \in Sqls : Handle(t, text)
             \/ Acquire(t) \/ Deny(t) \/ ParserThrows(t) \/ ThrowBeforeExecution(t)
             \/ Audit(t) \/ Repository(t) \/ Reply(t)
      PROVE  UNCHANGED <<exec_sql, exec_tag, exec_result>>
  BY <1>7 DEF Handle, Acquire, Deny, ParserThrows, ThrowBeforeExecution, Audit, Repository,
              Reply, execVars
<1>8. CASE AllServed \/ UNCHANGED vars \/ Server
  BY <1>2, <1>8 DEF AllServed, vars, execVars, Server, LateCommit
<1> QED
  BY <1>2, <1>3, <1>4, <1>6, <1>7, <1>8 DEF Next, HandleStep, PipelineStep

(* The executor is given the request's own text, once it was allowed. *)
LEMMA ExecutesOwnInv ==
  ASSUME ChangesInv, [Next]_vars
  PROVE  ExecutesOwn'
<1>1. /\ pc \in [Threads -> Pcs] /\ sql \in [Threads -> Sqls \cup {BlankSql}]
      /\ request_id \in [Threads -> Nat] /\ exec_pc \in [Threads -> ExecPcs]
      /\ exec_sql = [t \in Threads |-> exec_sql[t]]
      /\ exec_tag = [t \in Threads |-> exec_tag[t]]
      /\ \A t \in Threads : exec_pc[t] # "idle" => pc[t] = "execute"
  BY DEF ChangesInv, TrailInv, ServiceInv, ServiceTypeOK, CallsNest, ChangesTypeOK
<1>2. ExecutesOwn
  BY DEF ChangesInv
<1>3. CASE Restart
  BY <1>3 DEF Restart, ExecRestart, ExecutesOwn
<1>4. ASSUME NEW t \in Threads, NEW text \in Sqls, Handle(t, text)
      PROVE  ExecutesOwn'
  BY <1>1, <1>2, <1>4 DEF Handle, execVars, ExecutesOwn, Tag
<1>5. ASSUME NEW t \in Threads, Acquire(t)
      PROVE  ExecutesOwn'
  BY <1>1, <1>2, <1>5 DEF Acquire, execVars, ExecutesOwn, Tag
<1>6. ASSUME NEW t \in Threads, Approve(t)
      PROVE  ExecutesOwn'
  BY <1>1, <1>2, <1>6 DEF Approve, Execute, ExecutesOwn, Tag
<1>7. ASSUME NEW t \in Threads, Deny(t) \/ ParserThrows(t) \/ ThrowBeforeExecution(t)
      PROVE  ExecutesOwn'
  <2>1. PICK p : Processed(t, p)
    BY <1>7 DEF Deny, ParserThrows, ThrowBeforeExecution
  <2>2. pc[t] = "process" /\ UNCHANGED execVars
    BY <1>7 DEF Deny, ParserThrows, ThrowBeforeExecution
  <2> QED
    BY <1>1, <1>2, <2>1, <2>2 DEF Processed, execVars, ExecutesOwn, Tag
<1>8. ASSUME NEW t \in Threads, Complete(t) \/ ThrowAfterExecution(t)
      PROVE  ExecutesOwn'
  <2>1. PICK p : Processed(t, p)
    BY <1>8 DEF Complete, ThrowAfterExecution
  <2>2. pc[t] = "execute" /\ TakeExecution(t)
    BY <1>8 DEF Complete, ThrowAfterExecution
  <2> QED
    BY <1>1, <1>2, <2>1, <2>2 DEF Processed, TakeExecution, ExecutesOwn, Tag
<1>9. ASSUME NEW t \in Threads, Audit(t)
      PROVE  ExecutesOwn'
  BY <1>1, <1>2, <1>9 DEF Audit, execVars, ExecutesOwn, Tag
<1>10. ASSUME NEW t \in Threads, Reply(t)
       PROVE  ExecutesOwn'
  BY <1>1, <1>2, <1>10 DEF Reply, execVars, ExecutesOwn, Tag
<1>11. ASSUME NEW t \in Threads, Repository(t)
       PROVE  ExecutesOwn'
  BY <1>2, <1>11 DEF Repository, serviceVars, execVars, ExecutesOwn, Tag
<1>12. ASSUME NEW t \in Threads, Executor(t)
       PROVE  ExecutesOwn'
  <2>1. /\ UNCHANGED <<exec_sql, exec_tag, pc, sql, request_id, boot>>
        /\ \A u \in Threads : exec_pc'[u] # "idle" => exec_pc[u] # "idle"
    BY <1>1, <1>12
    DEF Executor, ExecuteStep, Connect, BeginTransaction, RunStatement, SendCommit,
        ServerCommits, CommitAcknowledged, LoseConnection, FailExecution, CommitInDoubt,
        Advance, ExecReturns, serviceVars
  <2> QED
    BY <1>2, <2>1 DEF ExecutesOwn, Tag
<1>13. CASE AllServed \/ UNCHANGED vars \/ Server
  BY <1>2, <1>13 DEF AllServed, vars, serviceVars, execVars, Server, LateCommit, ExecutesOwn, Tag
<1> QED
  BY <1>3, <1>4, <1>5, <1>6, <1>7, <1>8, <1>9, <1>10, <1>11, <1>12, <1>13
  DEF Next, HandleStep, PipelineStep

----------------------------------------------------------------------------
(* What process() returns for a text that was not executed is a failure. *)
LEMMA DeniedResult ==
  ASSUME NEW tag, NEW analysis, NEW decision
  PROVE  /\ WriteOf(ProcessDenied(tag, analysis, decision).result) # "done"
         /\ WriteOf(InternalProcessing(tag).result) = "unknown"
<1>1. \A reason : WriteOf(Failure(reason)) # "done"
  BY DEF WriteOf, Failure
<1>2. WriteOf(Failure("InternalError")) = "unknown"
  BY DEF WriteOf, Failure
<1>3. \A result, record :
        Processing(tag, result, record).result \in {result, Failure("InternalError")}
  BY DEF Processing, InternalProcessing
<1>4. \E reason : ProcessDenied(tag, analysis, decision).result = Failure(reason)
  BY <1>3 DEF ProcessDenied
<1>5. InternalProcessing(tag).result = Failure("InternalError")
  BY DEF InternalProcessing
<1> QED
  BY <1>1, <1>2, <1>4, <1>5

(* What process() tells of the write once the executor has answered: that it *)
(* was made, only for an INSERT the executor has seen committed; that it was *)
(* not, only for a query or a connection that broke before COMMIT.           *)
LEMMA ExecutedResult ==
  ASSUME NEW tag, NEW analysis, NEW x
  PROVE  LET result == ProcessExecuted(tag, analysis, x).result
         IN  /\ WriteOf(result) = "done" =>
                  /\ x.status = "Ok" /\ analysis.statement_type = "Insert"
                  /\ result.affected_rows = x.affected_rows
             /\ WriteOf(result) = "none" =>
                  \/ x.status = "ConnectionFailure"
                  \/ x.status = "Ok" /\ analysis.statement_type # "Insert"
<1> DEFINE result == ProcessExecuted(tag, analysis, x).result
           internal == Failure("InternalError")
<1>1. /\ WriteOf(internal) = "unknown" /\ WriteOf(Failure("QueryFailed")) = "unknown"
      /\ WriteOf(Failure("DatabaseUnavailable")) = "none"
      /\ WriteOf(Failure("MaskingRefused")) = "none"
  BY DEF WriteOf, Failure
<1>2. /\ WriteOf(Written(x.affected_rows)) = "done"
      /\ Written(x.affected_rows).affected_rows = x.affected_rows
  BY DEF WriteOf, Written
<1>3. \A masked : WriteOf(to_masked_result(x, masked)) = "none"
  BY DEF WriteOf, to_masked_result, Rows
<1>4. \A res, record : Processing(tag, res, record).result \in {res, internal}
  BY DEF Processing, InternalProcessing
<1>5. InternalProcessing(tag).result = internal
  BY DEF InternalProcessing
<1>6. CASE x.status # "Ok"
  <2>1. result \in {Failure(IF x.status = "ConnectionFailure" THEN "DatabaseUnavailable"
                                                              ELSE "QueryFailed"), internal}
    BY <1>4, <1>6 DEF ProcessExecuted, ProcessFailed
  <2> HIDE DEF result, internal
  <2>2. WriteOf(result) # "done"
    BY <1>1, <2>1
  <2>3. x.status # "ConnectionFailure" => WriteOf(result) # "none"
    BY <1>1, <2>1
  <2> QED
    BY <2>2, <2>3 DEF result
<1>7. CASE x.status = "Ok" /\ analysis.statement_type = "Insert"
  <2>1. result \in {Written(x.affected_rows), internal}
    BY <1>4, <1>5, <1>7 DEF ProcessExecuted, ProcessWritten
  <2> HIDE DEF result, internal
  <2> QED
    BY <1>1, <1>2, <1>7, <2>1 DEF result
<1>8. CASE x.status = "Ok" /\ analysis.statement_type # "Insert"
  <2>1. \/ result \in {Failure("MaskingRefused"), internal}
        \/ \E masked : result = to_masked_result(x, masked)
    BY <1>4, <1>5, <1>8 DEF ProcessExecuted, ProcessRead
  <2> HIDE DEF result, internal
  <2>2. WriteOf(result) # "done"
    BY <1>1, <1>3, <2>1
  <2> QED
    BY <1>8, <2>2 DEF result
<1> QED
  BY <1>6, <1>7, <1>8

----------------------------------------------------------------------------
(* Only the holder has anything to know. *)
LEMMA OnlyHolderKnows ==
  ASSUME ServiceInv', \A u \in Threads : mutex' = u => Knows(u)'
  PROVE  ExecutorKnows'
<1>1. \A u \in Threads : mutex' # u => pc'[u] \in {"idle", "lock"}
  BY DEF ServiceInv, MutexHeld
<1>2. ASSUME NEW u \in Threads, pc'[u] \in {"idle", "lock"}
      PROVE  Knows(u)'
  BY <1>2 DEF Knows
<1> QED
  BY <1>1, <1>2 DEF ExecutorKnows

(* A step that leaves the thread where it is leaves it what it knows. *)
LEMMA IdleKnows ==
  ASSUME ChangesInv, [Next]_vars, NEW u \in Threads, SameDatabase \/ Server,
         pc'[u] = pc[u], exec_pc'[u] = exec_pc[u], exec_result'[u] = exec_result[u],
         sql'[u] = sql[u], processing'[u] = processing[u], request_id'[u] = request_id[u],
         boot' = boot
  PROVE  Knows(u)'
<1>1. Knows(u)
  BY DEF ChangesInv, ExecutorKnows
<1>2. Tag(u)' = Tag(u)
  BY DEF Tag
<1>3. ASSUME NEW tag, tag = Tag(u)
      PROVE  /\ Untouched(tag) => Untouched(tag)'
             /\ \A n : MadeOnce(tag, n) => MadeOnce(tag, n)'
  BY KnowledgeStays
<1>4. Untouched(Tag(u)) => Untouched(Tag(u))'
  BY <1>2, <1>3
<1>5. \A n : MadeOnce(Tag(u), n) => MadeOnce(Tag(u), n)'
  BY <1>2, <1>3
<1>6. Transaction(u) => Transaction(u)'
  BY <1>4, <1>5 DEF Transaction
<1>7. Truthful(processing[u].result, Tag(u)) => Truthful(processing[u].result, Tag(u))'
  BY <1>4, <1>5 DEF Truthful
<1> QED
  BY <1>1, <1>4, <1>6, <1>7 DEF Knows

(* A new request finds only changes of earlier ones. *)
LEMMA AcquireKnows ==
  ASSUME ChangesInv, NEW t \in Threads, Acquire(t)
  PROVE  Knows(t)'
<1>1. /\ pc'[t] = "process" /\ mutex = NoThread /\ Tag(t)' = NextTag /\ SameDatabase
  BY DEF Acquire, execVars, SameDatabase, Tag, NextTag, ChangesInv, TrailInv, ServiceInv,
         ServiceTypeOK
<1>2. ASSUME NEW change \in AllChanges
      PROVE  change.tag # NextTag
  <2>1. Past(change.tag)
    BY <1>1, ThreadsAssumption DEF ChangesInv, ChangesAreServed
  <2>2. boot \in Nat /\ next_request_id \in Nat
    BY BootsAssumption DEF ChangesInv, TrailInv, ServiceInv, ServiceTypeOK
  <2> QED
    BY <2>1, <2>2 DEF Past, Before, NextTag, Tags
<1>3. AllChanges' = AllChanges
  BY <1>1 DEF SameDatabase, AllChanges
<1>4. Untouched(Tag(t))'
  BY <1>1, <1>2, <1>3 DEF Untouched
<1> QED
  BY <1>1, <1>4 DEF Knows

(* process() returns without having called the executor. *)
LEMMA DenyKnows ==
  ASSUME ChangesInv, NEW t \in Threads, Deny(t) \/ ParserThrows(t) \/ ThrowBeforeExecution(t)
  PROVE  Knows(t)'
<1>1. pc[t] = "process" /\ SameDatabase
  BY DEF Deny, ParserThrows, ThrowBeforeExecution, execVars, SameDatabase
<1>2. PICK p : Processed(t, p) /\ WriteOf(p.result) # "done"
  BY DeniedResult DEF Deny, ParserThrows, ThrowBeforeExecution
<1>3. pc'[t] = "append" /\ processing'[t] = p /\ Tag(t)' = Tag(t)
  BY <1>2 DEF Processed, Tag, ChangesInv, TrailInv, ServiceInv, ServiceTypeOK
<1>4. Untouched(Tag(t))
  BY <1>1 DEF ChangesInv, ExecutorKnows, Knows
<1>5. Untouched(Tag(t))'
  BY <1>1, <1>3, <1>4 DEF SameDatabase, Untouched, AllChanges
<1>6. WriteOf(processing[t].result)' # "done"
  BY <1>2, <1>3 DEF WriteOf
<1>7. Truthful(processing[t].result, Tag(t))'
  BY <1>5, <1>6 DEF Truthful
<1> QED
  BY <1>3, <1>7 DEF Knows

(* The executor starts with a request that has changed nothing. *)
LEMMA ApproveKnows ==
  ASSUME ChangesInv, NEW t \in Threads, Approve(t)
  PROVE  Knows(t)'
<1>1. /\ pc[t] = "process" /\ pc'[t] = "execute" /\ exec_pc'[t] = "connect"
      /\ Tag(t)' = Tag(t) /\ SameDatabase
  BY DEF Approve, Execute, SameDatabase, Tag, ChangesInv, TrailInv, ServiceInv, ServiceTypeOK
<1>2. Untouched(Tag(t))
  BY <1>1 DEF ChangesInv, ExecutorKnows, Knows
<1>3. Untouched(Tag(t))'
  BY <1>1, <1>2 DEF SameDatabase, Untouched, AllChanges
<1>4. Transaction(t)'
  BY <1>1, <1>3 DEF Transaction
<1> QED
  BY <1>1, <1>4 DEF Knows

(* What the executor answers is what handle() may say of the write. *)
LEMMA CompleteKnows ==
  ASSUME ChangesInv, NEW t \in Threads, Complete(t) \/ ThrowAfterExecution(t)
  PROVE  Knows(t)'
<1> DEFINE x == exec_result[t]
<1>1. pc[t] = "execute" /\ exec_pc[t] = "returned" /\ SameDatabase
  BY DEF Complete, ThrowAfterExecution, TakeExecution, SameDatabase
<1>2. PICK p : /\ Processed(t, p)
               /\ \/ p = InternalProcessing(Tag(t))
                  \/ p = ProcessExecuted(Tag(t), analyze(sql[t]), x)
  BY DEF Complete, ThrowAfterExecution
<1>3. pc'[t] = "append" /\ processing'[t] = p /\ Tag(t)' = Tag(t)
  BY <1>2 DEF Processed, Tag, ChangesInv, TrailInv, ServiceInv, ServiceTypeOK
<1>4. Transaction(t)
  BY <1>1 DEF ChangesInv, ExecutorKnows, Knows
<1>5. Writes(sql[t]) <=> analyze(sql[t]).statement_type = "Insert"
  <2>1. sql[t] \in Sqls /\ evaluate(analyze(sql[t])).allowed
    BY <1>1 DEF ChangesInv, ExecutesOwn
  <2> QED
    BY <2>1, ApprovedText
<1>6. /\ WriteOf(p.result) = "done" =>
           x.status = "Ok" /\ Writes(sql[t]) /\ p.result.affected_rows = x.affected_rows
      /\ WriteOf(p.result) = "none" =>
           x.status = "ConnectionFailure" \/ ~Writes(sql[t])
  BY <1>2, <1>5, DeniedResult, ExecutedResult
<1>7. Truthful(p.result, Tag(t))
  BY <1>1, <1>4, <1>6 DEF Transaction, Truthful
<1>8. ASSUME NEW result, NEW tag, Truthful(result, tag)
      PROVE  Truthful(result, tag)'
  BY <1>1, <1>8 DEF SameDatabase, Truthful, Untouched, MadeOnce, AllChanges
<1>9. Truthful(processing[t].result, Tag(t))'
  BY <1>3, <1>7, <1>8
<1> QED
  BY <1>3, <1>9 DEF Knows

(* append() changes nothing of it. *)
LEMMA AuditKnows ==
  ASSUME ChangesInv, NEW t \in Threads, Audit(t)
  PROVE  Knows(t)'
<1>1. /\ pc[t] = "append" /\ pc'[t] = "appending" /\ processing' = processing
      /\ Tag(t)' = Tag(t) /\ SameDatabase
  BY DEF Audit, execVars, SameDatabase, Tag, ChangesInv, TrailInv, ServiceInv, ServiceTypeOK
<1>2. Truthful(processing[t].result, Tag(t))
  BY <1>1 DEF ChangesInv, ExecutorKnows, Knows
<1>3. ASSUME NEW result, NEW tag, Truthful(result, tag)
      PROVE  Truthful(result, tag)'
  BY <1>1, <1>3 DEF SameDatabase, Truthful, Untouched, MadeOnce, AllChanges
<1>4. Truthful(processing[t].result, Tag(t))'
  BY <1>1, <1>2, <1>3
<1> QED
  BY <1>1, <1>4 DEF Knows

(* Each step of the executor knows what the transaction has come to. *)
LEMMA ExecutorStepKnows ==
  ASSUME ChangesInv, NEW t \in Threads, Executor(t)
  PROVE  Knows(t)'
<1> DEFINE x == exec_result[t]
           tag == Tag(t)
<1>1. /\ UNCHANGED <<pc, sql, request_id, processing, boot>> /\ exec_pc[t] # "idle"
  BY DEF Executor, serviceVars, ExecuteStep, Connect, BeginTransaction, RunStatement,
         SendCommit, ServerCommits, CommitAcknowledged, LoseConnection, FailExecution,
         CommitInDoubt, Advance
<1>2. /\ pc'[t] = "execute" /\ pc[t] = "execute" /\ Tag(t)' = tag /\ sql'[t] = sql[t]
      /\ exec_sql[t] = sql[t] /\ exec_tag[t] = tag
  BY <1>1 DEF ChangesInv, TrailInv, ServiceInv, CallsNest, ExecutesOwn, Tag
<1>3. Transaction(t)
  BY <1>2 DEF ChangesInv, ExecutorKnows, Knows
<1>4. exec_pc \in [Threads -> ExecPcs] /\ exec_result = [u \in Threads |-> exec_result[u]]
  BY DEF ChangesInv, ChangesTypeOK, TrailInv, ServiceInv, ServiceTypeOK
<1>5. ASSUME SameDatabase
      PROVE  /\ Untouched(tag) => Untouched(Tag(t))'
             /\ \A n : MadeOnce(tag, n) => MadeOnce(Tag(t), n)'
  <2>1. ASSUME NEW g
        PROVE  /\ Untouched(g) => Untouched(g)'
               /\ \A n : MadeOnce(g, n) => MadeOnce(g, n)'
    BY <1>5 DEF SameDatabase, Untouched, MadeOnce, AllChanges
  <2> QED
    BY <1>2, <2>1
<1>6. CASE Connect(t) \/ BeginTransaction(t) \/ SendCommit(t)
  <2>1. /\ SameDatabase /\ exec_result' = exec_result
        /\ \/ exec_pc[t] \in {"connect", "begin"} /\ exec_pc'[t] \in {"begin", "statement"}
           \/ exec_pc[t] = "commit" /\ exec_pc'[t] = "committing"
    BY <1>4, <1>6 DEF Connect, BeginTransaction, SendCommit, Advance, SameDatabase
  <2>2. Untouched(Tag(t))'
    BY <1>3, <1>5, <2>1 DEF Transaction, Uncommitted
  <2>3. Transaction(t)'
    BY <1>2, <1>3, <2>1, <2>2 DEF Transaction
  <2> QED
    BY <1>2, <2>1, <2>3 DEF Knows
<1>7. CASE RunStatement(t)
  <2>1. SameDatabase /\ exec_pc[t] = "statement" /\ exec_pc'[t] = "commit"
    BY <1>4, <1>7 DEF RunStatement, Advance, SameDatabase
  <2>2. /\ exec_result'[t].status = "Ok"
        /\ Writes(sql[t]) => exec_result'[t].affected_rows \in AffectedCounts
    <3>1. PICK result \in
             IF Writes(sql[t])
             THEN {[failure("Ok") EXCEPT !.affected_rows = n] : n \in AffectedCounts}
             ELSE {translate(answer) : answer \in QueryAnswers(sql[t].statements[1])} :
            exec_result' = [exec_result EXCEPT ![t] = result]
      BY <1>2, <1>7 DEF RunStatement
    <3>2. exec_result'[t] = result
      BY <1>4, <3>1
    <3>3. \A n : /\ [failure("Ok") EXCEPT !.affected_rows = n].status = "Ok"
                 /\ [failure("Ok") EXCEPT !.affected_rows = n].affected_rows = n
      BY DEF failure
    <3>4. \A answer : translate(answer).status = "Ok"
      BY DEF translate
    <3>5. CASE Writes(sql[t])
      <4>1. PICK n \in AffectedCounts : result = [failure("Ok") EXCEPT !.affected_rows = n]
        BY <3>1, <3>5
      <4> QED
        BY <3>2, <3>3, <4>1
    <3>6. CASE ~Writes(sql[t])
      <4>1. PICK answer : result = translate(answer)
        BY <3>1, <3>6
      <4> QED
        BY <3>2, <3>4, <3>6, <4>1
    <3> QED
      BY <3>5, <3>6
  <2>3. Untouched(Tag(t))'
    BY <1>3, <1>5, <2>1 DEF Transaction, Uncommitted
  <2>4. Transaction(t)'
    BY <1>2, <2>1, <2>2, <2>3 DEF Transaction
  <2> QED
    BY <1>2, <2>1, <2>4 DEF Knows
<1>8. CASE ServerCommits(t)
  <2>1. /\ exec_pc[t] = "committing" /\ exec_pc'[t] = "committed" /\ exec_result' = exec_result
        /\ committed' = committed \o Changes(t) /\ in_flight' = in_flight
    BY <1>4, <1>8 DEF ServerCommits, Advance
  <2>2. committed \in Seq(ChangeSet) /\ ChangesTypeOK
    BY DEF ChangesInv, ChangesTypeOK
  <2>3. /\ x.status = "Ok" /\ Untouched(tag)
        /\ Writes(sql[t]) => x.affected_rows \in AffectedCounts
    BY <1>3, <2>1 DEF Transaction, Uncommitted
  <2>4. CASE Writes(sql[t])
    <3>1. PICK c : c = ChangeOf(t)
      OBVIOUS
    <3>2. c \in ChangeSet /\ Changes(t) = <<c>>
      BY <2>1, <2>4, <3>1, CommittingChange, ChangesAre
    <3>3. c.tag = tag /\ c.affected_rows = x.affected_rows
      BY <3>1 DEF ChangeOf
    <3>4. CommitsNow(c)
      BY <2>1, <2>2, <3>2, AppendIsConcat DEF CommitsNow
    <3>5. MadeOnce(c.tag, c.affected_rows)'
      BY <2>2, <2>3, <3>2, <3>3, <3>4, FirstCommit
    <3>6. MadeOnce(Tag(t), exec_result[t].affected_rows)'
      <4>1. c.tag = Tag(t)' /\ c.affected_rows = exec_result'[t].affected_rows
        BY <1>2, <2>1, <3>3
      <4> QED
        BY <3>5, <4>1 DEF MadeOnce
    <3>7. Transaction(t)'
      BY <1>2, <2>1, <2>3, <2>4, <3>6 DEF Transaction, Uncommitted
    <3> QED
      BY <1>2, <2>1, <3>7 DEF Knows
  <2>5. CASE ~Writes(sql[t])
    <3>1. committed' = committed \o <<>>
      BY <2>1, <2>5, ChangesAre
    <3>2. SameDatabase
      BY <2>1, <2>2, <3>1, ConcatEmptySeq DEF SameDatabase
    <3>3. Untouched(Tag(t))'
      BY <1>5, <2>3, <3>2
    <3>4. Transaction(t)'
      BY <1>2, <2>1, <2>3, <2>5, <3>3 DEF Transaction
    <3> QED
      BY <1>2, <2>1, <3>4 DEF Knows
  <2> QED
    BY <2>4, <2>5
<1>9. CASE CommitAcknowledged(t)
  <2>1. /\ SameDatabase /\ exec_pc[t] = "committed" /\ exec_pc'[t] = "returned"
        /\ exec_result'[t] = x
    BY <1>4, <1>9 DEF CommitAcknowledged, ExecReturns, SameDatabase
  <2>2. x.status = "Ok" /\ Writes(sql[t]) => MadeOnce(tag, x.affected_rows)
    BY <1>3, <2>1 DEF Transaction
  <2>3. ~Writes(sql[t]) => Untouched(Tag(t))'
    BY <1>3, <1>5, <2>1 DEF Transaction
  <2>4. x.status = "Ok"
    BY <1>3, <2>1 DEF Transaction
  <2>5. Writes(sql[t]) => MadeOnce(Tag(t), exec_result[t].affected_rows)'
    BY <1>5, <2>1, <2>2, <2>4
  <2>6. Transaction(t)'
    BY <1>2, <2>1, <2>3, <2>4, <2>5 DEF Transaction, Uncommitted
  <2> QED
    BY <1>2, <2>1, <2>6 DEF Knows
<1>10. CASE LoseConnection(t) \/ FailExecution(t)
  <2>1. /\ SameDatabase /\ exec_pc[t] \in Uncommitted /\ exec_pc'[t] = "returned"
        /\ \E status \in {"ConnectionFailure", "ExecutionFailure"} :
             exec_result'[t] = failure(status)
    BY <1>4, <1>10 DEF LoseConnection, FailExecution, ExecReturns, SameDatabase, Uncommitted
  <2>2. exec_result'[t].status # "Ok"
    BY <2>1 DEF failure
  <2>3. Untouched(Tag(t))'
    BY <1>3, <1>5, <2>1 DEF Transaction
  <2>4. Transaction(t)'
    BY <1>2, <2>1, <2>2, <2>3 DEF Transaction
  <2> QED
    BY <1>2, <2>1, <2>4 DEF Knows
<1>11. CASE CommitInDoubt(t)
  <2>1. /\ exec_pc[t] \in {"committing", "committed"} /\ exec_pc'[t] = "returned"
        /\ exec_result'[t] = failure("ExecutionFailure")
        /\ in_flight' = IF exec_pc[t] = "committing" THEN in_flight \cup Orphaned(t)
                                                     ELSE in_flight
        /\ committed' = committed
    BY <1>4, <1>11 DEF CommitInDoubt, ExecReturns
  <2>2. exec_result'[t].status = "ExecutionFailure"
    BY <2>1 DEF failure
  <2>3. ASSUME ~Writes(sql[t])
        PROVE  Untouched(Tag(t))'
    <3>1. SameDatabase
      BY <2>1, <2>3, ChangesAre DEF SameDatabase
    <3> QED
      BY <1>3, <1>5, <2>3, <3>1 DEF Transaction
  <2>4. Transaction(t)'
    BY <1>2, <2>1, <2>2, <2>3 DEF Transaction, Uncommitted
  <2> QED
    BY <1>2, <2>1, <2>4 DEF Knows
<1> QED
  BY <1>6, <1>7, <1>8, <1>9, <1>10, <1>11 DEF Executor, ExecuteStep

(* What handle() knows of the write stays so, or is learned, in every step. *)
LEMMA ExecutorKnowsInv ==
  ASSUME ChangesInv, [Next]_vars
  PROVE  ExecutorKnows'
<1>1. TrailInv /\ ServiceInv /\ ServiceInv'
  BY TrailNext DEF ChangesInv, TrailInv
<1>2. /\ \A u \in Threads : pc[u] \notin {"idle", "lock"} <=> mutex = u
      /\ NoThread \notin Threads /\ pc \in [Threads -> Pcs]
      /\ sql \in [Threads -> Sqls \cup {BlankSql}]
  BY <1>1, ThreadsAssumption DEF ServiceInv, MutexHeld, ServiceTypeOK
<1>3. CASE mutex' = NoThread
  BY <1>1, <1>2, <1>3, OnlyHolderKnows
<1>4. ASSUME NEW t \in Threads, mutex = t, mutex' = mutex, Knows(t)'
      PROVE  ExecutorKnows'
  BY <1>1, <1>4, OnlyHolderKnows
<1>5. ASSUME NEW t \in Threads, NEW text \in Sqls, Handle(t, text)
      PROVE  ExecutorKnows'
  <2>1. pc[t] = "idle" /\ mutex' = mutex
    BY <1>5 DEF Handle
  <2>2. ASSUME NEW u \in Threads, mutex' = u
        PROVE  Knows(u)'
    <3>1. u # t
      BY <1>2, <2>1, <2>2
    <3>2. /\ pc'[u] = pc[u] /\ sql'[u] = sql[u]
          /\ UNCHANGED <<exec_pc, exec_result, processing, request_id, boot>>
          /\ SameDatabase
      BY <1>2, <1>5, <3>1 DEF Handle, execVars, SameDatabase
    <3> QED
      BY <3>2, IdleKnows
  <2> QED
    BY <1>1, <2>2, OnlyHolderKnows
<1>6. CASE /\ UNCHANGED <<serviceVars, exec_pc, exec_result, boot>>
           /\ SameDatabase \/ Server
  <2>1. UNCHANGED <<pc, sql, request_id, processing, exec_pc, exec_result, boot>>
    BY <1>6 DEF serviceVars
  <2>2. ASSUME NEW u \in Threads
        PROVE  Knows(u)'
    BY <1>6, <2>1, IdleKnows
  <2> QED
    BY <2>2 DEF ExecutorKnows
<1>7. ASSUME NEW t \in Threads, Acquire(t)
      PROVE  ExecutorKnows'
  <2>1. mutex' = t
    BY <1>7 DEF Acquire
  <2> QED
    BY <1>1, <1>7, <2>1, AcquireKnows, OnlyHolderKnows
<1>8. ASSUME NEW t \in Threads, Deny(t) \/ ParserThrows(t) \/ ThrowBeforeExecution(t)
      PROVE  ExecutorKnows'
  <2>1. mutex = t /\ mutex' = mutex
    BY <1>2, <1>8 DEF Deny, ParserThrows, ThrowBeforeExecution, Processed
  <2> QED
    BY <1>4, <1>8, <2>1, DenyKnows
<1>9. ASSUME NEW t \in Threads, Approve(t)
      PROVE  ExecutorKnows'
  <2>1. mutex = t /\ mutex' = mutex
    BY <1>2, <1>9 DEF Approve
  <2> QED
    BY <1>4, <1>9, <2>1, ApproveKnows
<1>10. ASSUME NEW t \in Threads, Complete(t) \/ ThrowAfterExecution(t)
       PROVE  ExecutorKnows'
  <2>1. mutex = t /\ mutex' = mutex
    BY <1>2, <1>10 DEF Complete, ThrowAfterExecution, Processed
  <2> QED
    BY <1>4, <1>10, <2>1, CompleteKnows
<1>11. ASSUME NEW t \in Threads, Audit(t)
       PROVE  ExecutorKnows'
  <2>1. mutex = t /\ mutex' = mutex
    BY <1>2, <1>11 DEF Audit
  <2> QED
    BY <1>4, <1>11, <2>1, AuditKnows
<1>12. ASSUME NEW t \in Threads, Executor(t)
       PROVE  ExecutorKnows'
  <2>1. exec_pc[t] # "idle" /\ mutex' = mutex
    BY <1>12 DEF Executor, serviceVars, ExecuteStep, Connect, BeginTransaction, RunStatement,
                 SendCommit, ServerCommits, CommitAcknowledged, LoseConnection,
                 FailExecution, CommitInDoubt, Advance
  <2>2. mutex = t
    BY <1>1, <1>2, <2>1 DEF ServiceInv, CallsNest
  <2> QED
    BY <1>4, <1>12, <2>1, <2>2, ExecutorStepKnows
<1>13. ASSUME NEW t \in Threads, Repository(t)
       PROVE  ExecutorKnows'
  BY <1>6, <1>13 DEF Repository, execVars, SameDatabase
<1>14. CASE Server \/ AllServed \/ UNCHANGED vars
  BY <1>6, <1>14 DEF Server, LateCommit, AllServed, vars, execVars, SameDatabase
<1>15. ASSUME NEW t \in Threads, Reply(t) \/ Restart
       PROVE  mutex' = NoThread
  BY <1>15 DEF Reply, Restart
<1>16. CASE Restart
  BY <1>3, <1>16 DEF Restart
<1> QED
  BY <1>3, <1>5, <1>7, <1>8, <1>9, <1>10, <1>11, <1>12, <1>13, <1>14, <1>15, <1>16
  DEF Next, HandleStep, PipelineStep

----------------------------------------------------------------------------
(* The invariant holds at the start. *)
LEMMA ChangesInit == Init => ChangesInv
<1> SUFFICES ASSUME Init PROVE ChangesInv
  OBVIOUS
<1>1. TrailInv
  BY TrailInit
<1>2. /\ committed = <<>> /\ in_flight = {} /\ replies = {}
      /\ \A t \in Threads : pc[t] = "idle" /\ exec_pc[t] = "idle"
  BY DEF Init, ExecInit
<1>3. AllChanges = {}
  BY <1>2 DEF AllChanges
<1>4. ChangesTypeOK
  BY <1>2 DEF Init, ExecInit, ChangesTypeOK
<1> QED
  BY <1>1, <1>2, <1>3, <1>4 DEF ChangesInv, ExecutesOwn, ChangesAreServed, ExecutorKnows, Knows,
                                RepliesTruthful, OnlyOrderInserts

(* Every step preserves the invariant. *)
LEMMA ChangesNext == ChangesInv /\ [Next]_vars => ChangesInv'
<1> SUFFICES ASSUME ChangesInv, [Next]_vars
             PROVE  ChangesInv'
  OBVIOUS
<1>1. TrailInv'
  BY TrailNext DEF ChangesInv
<1>2. ChangesTypeOK'
  BY ChangesStayTyped, ExecutorTyped DEF ChangesTypeOK
<1> QED
  BY <1>1, <1>2, ExecutesOwnInv, ChangesStayServed, ExecutorKnowsInv, RepliesStayTruthful,
     ChangesStayTyped
  DEF ChangesInv

(* ChangesInv holds throughout. *)
LEMMA ChangesAlways == Spec => []ChangesInv
BY ChangesInit, ChangesNext, PTL DEF Spec

----------------------------------------------------------------------------
(* What the functions that a SELECT calls may have changed: nothing unless  *)
(* the policy allowed the SELECT, and then the executor had it.             *)

(* The client is told that its text was not run. *)
Rejected(result) ==
  /\ ~succeeded(result)
  /\ result.reason \in {"EmptyInput", "UnparseableSql", "PolicyRejected"}

(* The executor has, or had, the text of the request thread t serves. *)
Called(t) ==
  \/ pc[t] = "execute"
  \/ pc[t] \in {"append", "appending"} /\ ~Rejected(processing[t].result)

EffectsAreServed ==
  \A effect \in effects :
     \/ Past(effect.tag)
     \/ \E t \in Threads : mutex = t /\ effect.tag = Tag(t) /\ Called(t)

EffectsAreOfQueries == \A effect \in effects : IsChangingQuery(effect.sql)

RejectedHadNoEffects ==
  \A reply \in replies :
     Rejected(reply.result) => \A effect \in effects : effect.tag # reply.tag

EffectsInv ==
  /\ ChangesInv
  /\ EffectsAreOfQueries
  /\ EffectsAreServed
  /\ RejectedHadNoEffects

(* Of the texts that are executed only a SELECT calls such a function. *)
LEMMA ApprovedEffects ==
  ASSUME NEW text \in Sqls, evaluate(analyze(text)).allowed, HasEffects(text)
  PROVE  IsChangingQuery(text)
<1>1. Grammatical(text)
  BY SqlsAssumption
<1>2. Len(text.statements) = 1 /\ DOMAIN text.statements = {1}
  BY <1>1, AllowedTexts
<1>3. text.statements[1].effects = "some"
  BY <1>2 DEF HasEffects
<1>4. text.statements[1].type \in {"kStmtSelect", "kStmtInsert"}
  BY <1>1, AllowedTexts
<1>5. text.statements[1].type = "kStmtInsert" => text.statements[1].effects = "none"
  BY <1>1, AllowedTexts
<1> QED
  BY <1>2, <1>3, <1>4, <1>5 DEF IsChangingQuery

(* A step adds only what the statement that is being run may change. *)
LEMMA EffectsSteps ==
  ASSUME [Next]_vars
  PROVE  \A effect \in effects' :
            \/ effect \in effects
            \/ \E t \in Threads :
                 /\ exec_pc[t] = "statement" /\ HasEffects(exec_sql[t])
                 /\ effect.tag = exec_tag[t] /\ effect.sql = exec_sql[t]
                 /\ Executor(t) \/ Restart
<1>1. ASSUME NEW t \in Threads, NEW effect \in Effects(t)
      PROVE  HasEffects(exec_sql[t]) /\ effect.tag = exec_tag[t] /\ effect.sql = exec_sql[t]
  BY <1>1 DEF Effects
<1>2. CASE UNCHANGED effects
  BY <1>2
<1>3. CASE Restart
  <2>1. PICK S \in SUBSET {t \in Threads : exec_pc[t] = "statement"} :
               effects' = effects \cup UNION {Effects(t) : t \in S}
    BY <1>3 DEF Restart, ExecRestart
  <2> QED
    BY <1>1, <1>3, <2>1
<1>4. ASSUME NEW t \in Threads, Executor(t)
      PROVE  \/ UNCHANGED effects
             \/ exec_pc[t] = "statement" /\ effects' = effects \cup Effects(t)
  BY <1>4 DEF Executor, ExecuteStep, Connect, BeginTransaction, RunStatement, SendCommit,
              ServerCommits, CommitAcknowledged, LoseConnection, FailExecution, CommitInDoubt,
              MayHaveRun, Advance
<1>5. ASSUME NEW t \in Threads, Executor(t), ~UNCHANGED effects
      PROVE  \A effect \in effects' :
               \/ effect \in effects
               \/ /\ exec_pc[t] = "statement" /\ HasEffects(exec_sql[t])
                  /\ effect.tag = exec_tag[t] /\ effect.sql = exec_sql[t]
  BY <1>1, <1>4, <1>5
<1>6. ASSUME NEW t \in Threads, NEW text \in Sqls, Handle(t, text)
      PROVE  UNCHANGED effects
  BY <1>6 DEF Handle, execVars
<1>7. ASSUME NEW t \in Threads,
             \/ Acquire(t) \/ Deny(t) \/ ParserThrows(t) \/ ThrowBeforeExecution(t)
             \/ Audit(t) \/ Repository(t) \/ Reply(t)
      PROVE  UNCHANGED effects
  BY <1>7 DEF Acquire, Deny, ParserThrows, ThrowBeforeExecution, Audit, Repository, Reply,
              execVars
<1>8. ASSUME NEW t \in Threads, Approve(t) \/ Complete(t) \/ ThrowAfterExecution(t)
      PROVE  UNCHANGED effects
  BY <1>8 DEF Approve, Execute, Complete, ThrowAfterExecution, TakeExecution
<1>9. CASE Server \/ AllServed \/ UNCHANGED vars
  BY <1>9 DEF Server, LateCommit, AllServed, vars, execVars
<1> QED
  BY <1>2, <1>3, <1>5, <1>6, <1>7, <1>8, <1>9 DEF Next, HandleStep, PipelineStep

(* The statement that is being run is that of the request being served. *)
LEMMA RunningOwn ==
  ASSUME ChangesInv, NEW t \in Threads, exec_pc[t] = "statement"
  PROVE  /\ pc[t] = "execute" /\ mutex = t
         /\ exec_tag[t] = Tag(t)
         /\ exec_sql[t] \in Sqls /\ evaluate(analyze(exec_sql[t])).allowed
<1>1. pc[t] = "execute"
  BY DEF ChangesInv, TrailInv, ServiceInv, CallsNest
<1>2. mutex = t
  BY <1>1 DEF ChangesInv, TrailInv, ServiceInv, MutexHeld
<1> QED
  BY <1>1, <1>2 DEF ChangesInv, ExecutesOwn

(* What a client is told of a text that was executed is no rejection. *)
LEMMA ExecutedIsNotRejected ==
  ASSUME NEW tag, NEW analysis, NEW x
  PROVE  /\ ~Rejected(ProcessExecuted(tag, analysis, x).result)
         /\ ~Rejected(InternalProcessing(tag).result)
<1> DEFINE result == ProcessExecuted(tag, analysis, x).result
           internal == Failure("InternalError")
<1>1. /\ ~Rejected(internal) /\ ~Rejected(Failure("QueryFailed"))
      /\ ~Rejected(Failure("DatabaseUnavailable")) /\ ~Rejected(Failure("MaskingRefused"))
  BY DEF Rejected, Failure
<1>2. ~Rejected(Written(x.affected_rows))
  BY DEF Rejected, Written, succeeded
<1>3. \A masked : ~Rejected(to_masked_result(x, masked))
  BY DEF Rejected, to_masked_result, Rows, succeeded
<1>4. \A res, record : Processing(tag, res, record).result \in {res, internal}
  BY DEF Processing, InternalProcessing
<1>5. InternalProcessing(tag).result = internal
  BY DEF InternalProcessing
<1> HIDE DEF internal
<1>6. ~Rejected(ProcessFailed(tag, analysis, x.status).result)
  BY <1>1, <1>4 DEF ProcessFailed
<1>7. ~Rejected(ProcessWritten(tag, analysis, x.affected_rows).result)
  BY <1>1, <1>2, <1>4, <1>5 DEF ProcessWritten
<1>8. ~Rejected(ProcessRead(tag, analysis, x).result)
  BY <1>1, <1>3, <1>4, <1>5 DEF ProcessRead
<1> QED
  BY <1>1, <1>5, <1>6, <1>7, <1>8 DEF ProcessExecuted

(* A request whose text the executor has had stays one until it is over. *)
LEMMA CalledStays ==
  ASSUME ChangesInv, [Next]_vars, NEW t \in Threads, mutex = t, Called(t)
  PROVE  \/ Reply(t) \/ Restart
         \/ mutex' = t /\ Tag(t)' = Tag(t) /\ Called(t)'
<1>1. /\ pc \in [Threads -> Pcs] /\ processing = [u \in Threads |-> processing[u]]
      /\ \A u \in Threads : pc[u] \notin {"idle", "lock"} <=> mutex = u
  BY DEF ChangesInv, TrailInv, ServiceInv, ServiceTypeOK, MutexHeld
<1>2. CASE UNCHANGED <<mutex, boot, request_id, pc, processing>>
  BY <1>2 DEF Called, Tag
<1>3. ASSUME NEW u \in Threads, NEW text \in Sqls, Handle(u, text)
      PROVE  mutex' = t /\ Tag(t)' = Tag(t) /\ Called(t)'
  BY <1>1, <1>3 DEF Handle, Called, Tag
<1>4. ASSUME NEW u \in Threads, Acquire(u)
      PROVE  FALSE
  BY <1>4, ThreadsAssumption DEF Acquire
<1>5. ASSUME NEW u \in Threads,
             Deny(u) \/ ParserThrows(u) \/ Approve(u) \/ ThrowBeforeExecution(u)
      PROVE  FALSE
  BY <1>1, <1>5 DEF Deny, ParserThrows, Approve, ThrowBeforeExecution, Called
<1>6. ASSUME NEW u \in Threads, Complete(u) \/ ThrowAfterExecution(u)
      PROVE  mutex' = t /\ Tag(t)' = Tag(t) /\ Called(t)'
  <2>1. u = t
    BY <1>1, <1>6 DEF Complete, ThrowAfterExecution
  <2>2. PICK p : Processed(t, p) /\ ~Rejected(p.result)
    BY <1>6, <2>1, ExecutedIsNotRejected DEF Complete, ThrowAfterExecution
  <2> QED
    BY <1>1, <2>2 DEF Processed, Called, Tag
<1>7. ASSUME NEW u \in Threads, Audit(u)
      PROVE  mutex' = t /\ Tag(t)' = Tag(t) /\ Called(t)'
  BY <1>1, <1>7 DEF Audit, Called, Tag
<1>8. ASSUME NEW u \in Threads, Reply(u)
      PROVE  u = t
  BY <1>1, <1>8 DEF Reply
<1>9. ASSUME NEW u \in Threads, Executor(u) \/ Repository(u)
      PROVE  UNCHANGED <<mutex, boot, request_id, pc, processing>>
  BY <1>9 DEF Executor, Repository, serviceVars
<1>10. CASE Server \/ AllServed \/ UNCHANGED vars
  BY <1>2, <1>10 DEF Server, AllServed, vars, serviceVars
<1> QED
  BY <1>2, <1>3, <1>4, <1>5, <1>6, <1>7, <1>8, <1>9, <1>10 DEF Next, HandleStep, PipelineStep

(* Effects are those of requests that are over, or of the one being served   *)
(* if the executor has had it.                                               *)
LEMMA EffectsStayServed ==
  ASSUME EffectsInv, [Next]_vars
  PROVE  EffectsAreServed'
<1> DEFINE Served(tag) ==
             Past(tag) \/ \E t \in Threads : mutex = t /\ tag = Tag(t) /\ Called(t)
<1>1. ChangesInv /\ ServiceInv /\ HolderIsLatest
  BY DEF EffectsInv, ChangesInv, TrailInv
<1>2. ASSUME NEW tag, Served(tag)
      PROVE  Served(tag)'
  <2>1. CASE Past(tag)
    BY <1>1, <2>1, PastStays
  <2>2. ASSUME NEW t \in Threads, mutex = t, tag = Tag(t), Called(t)
        PROVE  Served(tag)'
    BY <1>1, <2>2, CalledStays, ServedBecomesPast
  <2> QED
    BY <1>2, <2>1, <2>2
<1>3. ASSUME NEW effect \in effects'
      PROVE  Served(effect.tag)
  <2>1. CASE effect \in effects
    BY <2>1 DEF EffectsInv, EffectsAreServed
  <2>2. ASSUME NEW t \in Threads, exec_pc[t] = "statement", effect.tag = exec_tag[t]
        PROVE  Served(effect.tag)
    BY <1>1, <2>2, RunningOwn DEF Called
  <2> QED
    BY <2>1, <2>2, EffectsSteps
<1>4. ASSUME NEW effect \in effects'
      PROVE  Served(effect.tag)'
  BY <1>2, <1>3
<1> QED
  BY <1>4 DEF EffectsAreServed

(* They are of SELECTs, alone in their texts. *)
LEMMA EffectsStayOfQueries ==
  ASSUME EffectsInv, [Next]_vars
  PROVE  EffectsAreOfQueries'
<1>1. ASSUME NEW effect \in effects
      PROVE  IsChangingQuery(effect.sql)
  BY DEF EffectsInv, EffectsAreOfQueries
<1>2. ASSUME NEW t \in Threads, exec_pc[t] = "statement", HasEffects(exec_sql[t])
      PROVE  IsChangingQuery(exec_sql[t])
  BY <1>2, RunningOwn, ApprovedEffects DEF EffectsInv
<1>3. \A effect \in effects' : IsChangingQuery(effect.sql)
  BY <1>1, <1>2, EffectsSteps
<1> QED
  BY <1>3 DEF EffectsAreOfQueries

(* A request that was answered as rejected never has one. *)
LEMMA RejectedStayWithoutEffects ==
  ASSUME EffectsInv, [Next]_vars
  PROVE  RejectedHadNoEffects'
<1>1. ChangesInv /\ TrailInv /\ ServiceInv /\ HolderIsLatest /\ RepliesArePast
  BY DEF EffectsInv, ChangesInv, TrailInv
<1>2. ASSUME NEW reply \in replies, Rejected(reply.result), NEW effect \in effects'
      PROVE  effect.tag # reply.tag
  <2>1. CASE effect \in effects
    BY <1>2, <2>1 DEF EffectsInv, RejectedHadNoEffects
  <2>2. ASSUME NEW t \in Threads, exec_pc[t] = "statement", effect.tag = exec_tag[t]
        PROVE  effect.tag # reply.tag
    <3>1. mutex = t /\ effect.tag = Tag(t)
      BY <1>1, <2>2, RunningOwn
    <3> QED
      BY <1>1, <3>1 DEF RepliesArePast, Past
  <2> QED
    BY <2>1, <2>2, EffectsSteps
<1>3. CASE replies' = replies
  BY <1>2, <1>3 DEF RejectedHadNoEffects, Rejected, succeeded
<1>4. ASSUME NEW t \in Threads, Reply(t)
      PROVE  RejectedHadNoEffects'
  <2> DEFINE new == [tag |-> Tag(t), sql |-> sql[t], result |-> ResultOf(t)]
  <2>1. replies' = replies \cup {new} /\ pc[t] = "appending" /\ effects' = effects
    BY <1>4 DEF Reply, execVars
  <2>2. new.tag = Tag(t) /\ new.result = ResultOf(t)
    OBVIOUS
  <2>3. ~Rejected(Failure("InternalError"))
    BY DEF Rejected, Failure
  <2>4. Rejected(ResultOf(t)) => Rejected(processing[t].result)
    BY <2>3 DEF ResultOf, ResultAfter
  <2>5. mutex = t /\ \A u \in Threads : mutex = u => u = t
    BY <1>1, <2>1, AppendingHolds
  <2>6. ASSUME Rejected(ResultOf(t)), NEW effect \in effects
        PROVE  effect.tag # Tag(t)
    <3>1. ~Called(t)
      BY <2>1, <2>4, <2>6 DEF Called
    <3>2. Past(effect.tag)
            \/ \E u \in Threads : mutex = u /\ effect.tag = Tag(u) /\ Called(u)
      BY DEF EffectsInv, EffectsAreServed
    <3>3. Past(effect.tag)
      BY <2>5, <3>1, <3>2
    <3> QED
      BY <2>5, <3>3 DEF Past
  <2> HIDE DEF new
  <2>7. ASSUME NEW reply \in replies', Rejected(reply.result), NEW effect \in effects'
        PROVE  effect.tag # reply.tag
    <3>1. CASE reply \in replies
      BY <1>2, <2>7, <3>1
    <3>2. CASE reply = new
      BY <2>1, <2>2, <2>6, <2>7, <3>2
    <3> QED
      BY <2>1, <3>1, <3>2
  <2> QED
    BY <2>7 DEF RejectedHadNoEffects, Rejected, succeeded
<1> QED
  BY <1>1, <1>3, <1>4, StepKinds DEF Quiet, Acquire, Audit, Repository, Restart, serviceVars

(* EffectsInv holds throughout. *)
LEMMA EffectsAlways == Spec => []EffectsInv
<1>1. Init => EffectsInv
  <2>1. Init => effects = {}
    BY DEF Init, ExecInit
  <2> QED
    BY <2>1, ChangesInit
    DEF EffectsInv, EffectsAreOfQueries, EffectsAreServed, RejectedHadNoEffects
<1>2. EffectsInv /\ [Next]_vars => EffectsInv'
  <2> SUFFICES ASSUME EffectsInv, [Next]_vars
               PROVE  EffectsInv'
    OBVIOUS
  <2>1. ChangesInv'
    BY ChangesNext DEF EffectsInv
  <2> QED
    BY <2>1, EffectsStayOfQueries, EffectsStayServed, RejectedStayWithoutEffects DEF EffectsInv
<1> QED
  BY <1>1, <1>2, PTL DEF Spec

(* The authorized INSERT is the only statement that changes the database, and *)
(* what changes it besides is a function that an allowed SELECT calls, alone  *)
(* in its text: for any set of texts that the parser can produce, any number *)
(* of worker threads, and any failure of the executor or of the process      *)
(* (policy_engine.cpp decides, proxy_service.cpp executes only what was      *)
(* allowed; no rule looks at what a SELECT calls).                           *)
THEOREM OnlyAuthorizedWrites == Spec => []OnlyOrderInsertsCommit
<1>1. EffectsInv => OnlyOrderInsertsCommit
  BY DEF EffectsInv, ChangesInv, OnlyOrderInserts, EffectsAreOfQueries, OnlyOrderInsertsCommit
<1> QED
  BY <1>1, EffectsAlways, PTL

(* After any failure but query_failed and internal_error no INSERT was made  *)
(* for the request and none will be, a COMMIT that lands late included; and  *)
(* a text that was rejected has not had a function called either.            *)
THEOREM FailuresWroteNothing == Spec => []OtherFailuresWroteNothing
<1>1. ASSUME NEW result, ~succeeded(result), result.reason \notin {"QueryFailed", "InternalError"}
      PROVE  WriteOf(result) = "none"
  BY <1>1 DEF WriteOf, succeeded
<1>2. ASSUME EffectsInv, NEW reply \in replies, ~succeeded(reply.result),
             reply.result.reason \notin {"QueryFailed", "InternalError"}
      PROVE  \A change \in AllChanges : change.tag # reply.tag
  BY <1>1, <1>2 DEF EffectsInv, ChangesInv, RepliesTruthful, Truthful, Untouched
<1>3. ASSUME EffectsInv, NEW reply \in replies, ~succeeded(reply.result),
             reply.result.reason \in {"EmptyInput", "UnparseableSql", "PolicyRejected"}
      PROVE  \A effect \in effects : effect.tag # reply.tag
  BY <1>3 DEF EffectsInv, RejectedHadNoEffects, Rejected
<1>4. EffectsInv => OtherFailuresWroteNothing
  BY <1>2, <1>3 DEF OtherFailuresWroteNothing
<1> QED
  BY <1>4, EffectsAlways, PTL

----------------------------------------------------------------------------
(* A client that was told its write was made has it in the database, with    *)
(* the number of rows it was told, exactly once and for good.                *)
THEOREM ConfirmedWritesAreMade == Spec => []ConfirmedWriteIsCommittedOnce
<1>1. ASSUME NEW result, result.kind = "write"
      PROVE  WriteOf(result) = "done"
  BY <1>1 DEF WriteOf
<1>2. ChangesInv => ConfirmedWriteIsCommittedOnce
  BY <1>1 DEF ChangesInv, RepliesTruthful, Truthful, MadeOnce, ConfirmedWriteIsCommittedOnce
<1> QED
  BY <1>2, ChangesAlways, PTL

----------------------------------------------------------------------------
(* What handle() shows of the database: rows leave only as the answer to    *)
(* the request's own text, masked where PII is read by its own name.  The   *)
(* answer is known from the moment the statement has run, so the invariant  *)
(* follows it through COMMIT, process() and append() to the reply.          *)

MaskedIfRows(text, result) == result.kind = "rows" => ShowsMaskedAnswer(text, result)

(* The executor holds a result that it may return as Ok. *)
HoldsAnswer(t) ==
  \/ exec_pc[t] \in {"commit", "committing", "committed"}
  \/ exec_pc[t] = "returned" /\ exec_result[t].status = "Ok"

(* Whose answer the executor and handle() hold. *)
AnswersOwn(t) ==
  /\ HoldsAnswer(t) /\ ~Writes(sql[t]) => IsExecution(exec_result[t], sql[t].statements[1])
  /\ pc[t] \in {"append", "appending"} => MaskedIfRows(sql[t], processing[t].result)

AnswersInv ==
  /\ ChangesInv
  /\ \A t \in Threads : AnswersOwn(t)
  /\ RowsAreMaskedAnswers

(* What process() returns without an answer of the database has no rows. *)
LEMMA FailuresShowNothing ==
  ASSUME NEW tag, NEW text, NEW analysis, NEW decision
  PROVE  /\ \A reason : MaskedIfRows(text, Failure(reason))
         /\ MaskedIfRows(text, InternalProcessing(tag).result)
         /\ MaskedIfRows(text, ProcessDenied(tag, analysis, decision).result)
<1>1. \A reason : MaskedIfRows(text, Failure(reason))
  BY DEF MaskedIfRows, Failure
<1>2. \A result, record :
        Processing(tag, result, record).result \in {result, Failure("InternalError")}
  BY DEF Processing, InternalProcessing
<1>3. \E reason : ProcessDenied(tag, analysis, decision).result = Failure(reason)
  BY <1>2 DEF ProcessDenied
<1>4. InternalProcessing(tag).result = Failure("InternalError")
  BY DEF InternalProcessing
<1> QED
  BY <1>1, <1>3, <1>4

(* The result set of an approved query is shown masked, or not at all. *)
LEMMA QueryIsShownMasked ==
  ASSUME NEW text \in Sqls, evaluate(analyze(text)).allowed, ~Writes(text), NEW tag, NEW x,
         IsExecution(x, text.statements[1])
  PROVE  MaskedIfRows(text, ProcessExecuted(tag, analyze(text), x).result)
<1> DEFINE stmt == text.statements[1]
           result == ProcessExecuted(tag, analyze(text), x).result
<1>1. Grammatical(text)
  BY SqlsAssumption
<1>2. Len(text.statements) = 1 /\ DOMAIN text.statements = {1}
  BY <1>1, AllowedTexts
<1>3. stmt.type = "kStmtSelect"
  BY <1>2 DEF Writes
<1>4. IsQuery(stmt)
  BY <1>1, <1>2, <1>3 DEF Grammatical
<1>5. analyze(text) = Analyzed(translate_statement(stmt))
  <2>1. text.statements \in Seq(Range(text.statements))
    BY <1>1 DEF Grammatical
  <2>2. text.text = "script"
    BY <2>1, OnlyOneStatement
  <2> QED
    BY <1>2, <2>1, <2>2, AnalysisOfOne
<1>6. succeeded(result) =>
         /\ result = Rows(NamesOf(x.columns), result.rows)
         /\ MaskedRows(stmt, x.rows, result.rows)
  BY <1>3, <1>4, <1>5, QueryOutcome
<1>7. PICK answer \in QueryAnswers(stmt) : x.columns = answer.columns /\ x.rows = answer.rows
  BY DEF IsExecution
<1>8. NamesOf(x.columns) = [c \in DOMAIN answer.columns |-> answer.columns[c].name]
  BY <1>7 DEF NamesOf
<1>9. result.kind = "rows" => succeeded(result)
  BY DEF succeeded
<1> HIDE DEF result, stmt
<1>10. result.kind = "rows" =>
         /\ result = Rows([c \in DOMAIN answer.columns |-> answer.columns[c].name], result.rows)
         /\ MaskedRows(stmt, answer.rows, result.rows)
  BY <1>6, <1>7, <1>8, <1>9
<1>11. result.kind = "rows" => ShowsMaskedAnswer(text, result)
  BY <1>2, <1>7, <1>10 DEF ShowsMaskedAnswer, stmt
<1> QED
  BY <1>11 DEF MaskedIfRows, result

(* process() shows nothing else of what the executor returned: a failure or *)
(* the count of an INSERT has no rows.                                       *)
LEMMA ExecutedIsShownMasked ==
  ASSUME NEW text \in Sqls, evaluate(analyze(text)).allowed, NEW tag, NEW x,
         x.status = "Ok" /\ ~Writes(text) => IsExecution(x, text.statements[1])
  PROVE  MaskedIfRows(text, ProcessExecuted(tag, analyze(text), x).result)
<1> DEFINE internal == Failure("InternalError")
           result == ProcessExecuted(tag, analyze(text), x).result
<1>1. \A reason : MaskedIfRows(text, Failure(reason))
  BY FailuresShowNothing
<1>2. \A res, record : Processing(tag, res, record).result \in {res, internal}
  BY DEF Processing, InternalProcessing
<1>3. InternalProcessing(tag).result = internal
  BY DEF InternalProcessing
<1>4. CASE x.status # "Ok"
  <2>1. \E reason : result = Failure(reason)
    BY <1>2, <1>4 DEF ProcessExecuted, ProcessFailed
  <2> QED
    BY <1>1, <2>1
<1>5. CASE x.status = "Ok" /\ Writes(text)
  <2>1. analyze(text).statement_type = "Insert"
    BY <1>5, ApprovedText
  <2>2. result \in {Written(x.affected_rows), internal}
    BY <1>2, <1>3, <1>5, <2>1 DEF ProcessExecuted, ProcessWritten
  <2>3. MaskedIfRows(text, Written(x.affected_rows))
    BY DEF MaskedIfRows, Written
  <2> HIDE DEF result
  <2> QED
    BY <1>1, <2>2, <2>3 DEF result
<1>6. CASE x.status = "Ok" /\ ~Writes(text)
  BY <1>6, QueryIsShownMasked
<1> QED
  BY <1>4, <1>5, <1>6

----------------------------------------------------------------------------
(* A step that leaves a thread where it is leaves it the answer it holds. *)
LEMMA AnswerStays ==
  ASSUME NEW u \in Threads, AnswersOwn(u), pc'[u] = pc[u], exec_pc'[u] = exec_pc[u],
         exec_result'[u] = exec_result[u], sql'[u] = sql[u], processing'[u] = processing[u]
  PROVE  AnswersOwn(u)'
BY DEF AnswersOwn, HoldsAnswer

(* A step of one thread leaves the others alone. *)
LEMMA OthersKeepAnswers ==
  ASSUME AnswersInv, [Next]_vars, NEW t \in Threads,
         HandleStep(t) \/ \E text \in Sqls : Handle(t, text)
  PROVE  \A u \in Threads : u # t => AnswersOwn(u)'
<1> SUFFICES ASSUME NEW u \in Threads, u # t
             PROVE  AnswersOwn(u)'
  OBVIOUS
<1>1. /\ pc \in [Threads -> Pcs] /\ sql \in [Threads -> Sqls \cup {BlankSql}]
      /\ exec_pc \in [Threads -> ExecPcs]
      /\ exec_result = [v \in Threads |-> exec_result[v]]
      /\ processing = [v \in Threads |-> processing[v]]
  BY DEF AnswersInv, ChangesInv, TrailInv, ServiceInv, ServiceTypeOK, ChangesTypeOK
<1>2. pc'[u] = pc[u] /\ sql'[u] = sql[u] /\ processing'[u] = processing[u]
  BY <1>1 DEF HandleStep, PipelineStep, Handle, Acquire, Deny, ParserThrows, Approve, Complete,
              ThrowBeforeExecution, ThrowAfterExecution, Processed, Audit, Reply, Executor,
              Repository, serviceVars
<1>3. exec_pc'[u] = exec_pc[u] /\ exec_result'[u] = exec_result[u]
  <2>1. CASE Executor(t)
    BY <1>1, <2>1 DEF Executor, ExecuteStep, Connect, BeginTransaction, RunStatement, SendCommit,
              ServerCommits, CommitAcknowledged, LoseConnection, FailExecution, CommitInDoubt,
              Advance, ExecReturns
  <2>2. CASE Approve(t) \/ Complete(t) \/ ThrowAfterExecution(t)
    BY <1>1, <2>2 DEF Approve, Execute, Complete, ThrowAfterExecution, TakeExecution
  <2>3. CASE \/ \E text \in Sqls : Handle(t, text)
             \/ Acquire(t) \/ Deny(t) \/ ParserThrows(t) \/ ThrowBeforeExecution(t)
             \/ Audit(t) \/ Repository(t) \/ Reply(t)
    BY <2>3 DEF Handle, Acquire, Deny, ParserThrows, ThrowBeforeExecution, Audit, Repository,
                Reply, execVars
  <2> QED
    BY <2>1, <2>2, <2>3 DEF HandleStep, PipelineStep
<1>4. AnswersOwn(u)
  BY DEF AnswersInv
<1> QED
  BY <1>2, <1>3, <1>4, AnswerStays

(* The executor holds the answer to the text it was given. *)
LEMMA ExecutorAnswers ==
  ASSUME AnswersInv, NEW t \in Threads, Executor(t)
  PROVE  AnswersOwn(t)'
<1>1. /\ UNCHANGED <<pc, sql, processing>> /\ exec_pc[t] # "idle"
  BY DEF Executor, serviceVars, ExecuteStep, Connect, BeginTransaction, RunStatement,
         SendCommit, ServerCommits, CommitAcknowledged, LoseConnection, FailExecution,
         CommitInDoubt, Advance
<1>2. pc[t] = "execute" /\ exec_sql[t] = sql[t]
  BY <1>1 DEF AnswersInv, ChangesInv, TrailInv, ServiceInv, CallsNest, ExecutesOwn
<1>3. exec_pc \in [Threads -> ExecPcs] /\ exec_result = [u \in Threads |-> exec_result[u]]
  BY DEF AnswersInv, ChangesInv, ChangesTypeOK, TrailInv, ServiceInv, ServiceTypeOK
<1>4. HoldsAnswer(t) /\ ~Writes(sql[t]) => IsExecution(exec_result[t], sql[t].statements[1])
  BY DEF AnswersInv, AnswersOwn
<1>5. SUFFICES ASSUME HoldsAnswer(t)', ~Writes(sql[t])
               PROVE  IsExecution(exec_result'[t], sql[t].statements[1])
  BY <1>1, <1>2 DEF AnswersOwn
<1>6. CASE Connect(t) \/ BeginTransaction(t)
  BY <1>3, <1>5, <1>6 DEF Connect, BeginTransaction, Advance, HoldsAnswer
<1>7. CASE RunStatement(t)
  <2>1. PICK answer \in QueryAnswers(sql[t].statements[1]) :
          exec_result' = [exec_result EXCEPT ![t] = translate(answer)]
    BY <1>2, <1>5, <1>7 DEF RunStatement
  <2>2. exec_result'[t] = translate(answer)
    BY <1>3, <2>1
  <2>3. /\ translate(answer).status = "Ok" /\ translate(answer).columns = answer.columns
        /\ translate(answer).rows = answer.rows
        /\ translate(answer).row_count = Len(answer.rows)
    BY DEF translate
  <2> QED
    BY <2>2, <2>3 DEF IsExecution
<1>8. CASE SendCommit(t) \/ ServerCommits(t)
  <2>1. exec_pc[t] \in {"commit", "committing"} /\ exec_result' = exec_result
    BY <1>8 DEF SendCommit, ServerCommits, Advance
  <2> QED
    BY <1>4, <1>5, <2>1 DEF HoldsAnswer
<1>9. CASE CommitAcknowledged(t)
  <2>1. exec_pc[t] = "committed" /\ exec_result'[t] = exec_result[t]
    BY <1>3, <1>9 DEF CommitAcknowledged, ExecReturns
  <2> QED
    BY <1>4, <1>5, <2>1 DEF HoldsAnswer
<1>10. CASE LoseConnection(t) \/ FailExecution(t) \/ CommitInDoubt(t)
  <2>1. /\ exec_pc'[t] = "returned"
        /\ \E status \in {"ConnectionFailure", "ExecutionFailure"} :
             exec_result'[t] = failure(status)
    BY <1>3, <1>10 DEF LoseConnection, FailExecution, CommitInDoubt, ExecReturns
  <2>2. exec_result'[t].status # "Ok"
    BY <2>1 DEF failure
  <2> QED
    BY <1>5, <2>1, <2>2 DEF HoldsAnswer
<1> QED
  BY <1>6, <1>7, <1>8, <1>9, <1>10 DEF Executor, ExecuteStep

(* process() masks that answer. *)
LEMMA CompleteAnswers ==
  ASSUME AnswersInv, NEW t \in Threads, Complete(t) \/ ThrowAfterExecution(t)
  PROVE  AnswersOwn(t)'
<1>1. /\ exec_pc[t] = "returned" /\ exec_pc'[t] = "idle" /\ sql' = sql
  BY DEF Complete, ThrowAfterExecution, TakeExecution, Processed, AnswersInv, ChangesInv,
         TrailInv, ServiceInv, ServiceTypeOK
<1>2. PICK p : /\ Processed(t, p)
               /\ \/ p = InternalProcessing(Tag(t))
                  \/ p = ProcessExecuted(Tag(t), analyze(sql[t]), exec_result[t])
  BY DEF Complete, ThrowAfterExecution
<1>3. processing'[t] = p
  BY <1>2 DEF Processed, AnswersInv, ChangesInv, TrailInv, ServiceInv, ServiceTypeOK
<1>4. sql[t] \in Sqls /\ evaluate(analyze(sql[t])).allowed
  <2>1. pc[t] = "execute"
    BY DEF Complete, ThrowAfterExecution
  <2> QED
    BY <1>1, <2>1 DEF AnswersInv, ChangesInv, ExecutesOwn
<1>5. exec_result[t].status = "Ok" /\ ~Writes(sql[t]) =>
        IsExecution(exec_result[t], sql[t].statements[1])
  BY <1>1 DEF AnswersInv, AnswersOwn, HoldsAnswer
<1>6. MaskedIfRows(sql[t], ProcessExecuted(Tag(t), analyze(sql[t]), exec_result[t]).result)
  BY <1>4, <1>5, ExecutedIsShownMasked
<1>7. MaskedIfRows(sql[t], InternalProcessing(Tag(t)).result)
  BY FailuresShowNothing
<1>8. MaskedIfRows(sql[t], p.result)
  BY <1>2, <1>6, <1>7
<1>9. ~HoldsAnswer(t)'
  BY <1>1 DEF HoldsAnswer
<1> QED
  BY <1>1, <1>3, <1>8, <1>9 DEF AnswersOwn

(* Every other step of a thread holds no answer yet, the same, or none. *)
LEMMA PipelineAnswers ==
  ASSUME AnswersInv, NEW t \in Threads,
         \/ \E text \in Sqls : Handle(t, text)
         \/ Acquire(t) \/ Deny(t) \/ ParserThrows(t) \/ ThrowBeforeExecution(t)
         \/ Approve(t) \/ Audit(t) \/ Repository(t) \/ Reply(t)
  PROVE  AnswersOwn(t)'
<1>1. /\ pc \in [Threads -> Pcs] /\ exec_pc \in [Threads -> ExecPcs]
      /\ sql \in [Threads -> Sqls \cup {BlankSql}]
      /\ processing = [v \in Threads |-> processing[v]]
      /\ exec_pc[t] # "idle" => pc[t] = "execute"
  BY DEF AnswersInv, ChangesInv, TrailInv, ServiceInv, ServiceTypeOK, CallsNest
<1>2. AnswersOwn(t)
  BY DEF AnswersInv
<1>3. CASE \/ \E text \in Sqls : Handle(t, text)
           \/ Acquire(t) \/ Reply(t)
  <2>1. pc[t] # "execute" /\ pc'[t] \in {"idle", "lock", "process"} /\ exec_pc' = exec_pc
    BY <1>1, <1>3 DEF Handle, Acquire, Reply, execVars
  <2> QED
    BY <1>1, <2>1 DEF AnswersOwn, HoldsAnswer
<1>4. CASE Deny(t) \/ ParserThrows(t) \/ ThrowBeforeExecution(t)
  <2>1. PICK p : Processed(t, p) /\ MaskedIfRows(sql[t], p.result)
    BY <1>4, FailuresShowNothing DEF Deny, ParserThrows, ThrowBeforeExecution
  <2>2. pc[t] = "process" /\ exec_pc' = exec_pc
    BY <1>4 DEF Deny, ParserThrows, ThrowBeforeExecution, execVars
  <2>3. processing'[t] = p /\ sql' = sql
    BY <1>1, <2>1 DEF Processed
  <2>4. ~HoldsAnswer(t)'
    BY <1>1, <2>2 DEF HoldsAnswer
  <2> QED
    BY <2>1, <2>3, <2>4 DEF AnswersOwn
<1>5. CASE Approve(t)
  <2>1. pc'[t] = "execute" /\ exec_pc'[t] = "connect"
    BY <1>1, <1>5 DEF Approve, Execute
  <2> QED
    BY <2>1 DEF AnswersOwn, HoldsAnswer
<1>6. CASE Audit(t)
  <2>1. /\ pc[t] = "append" /\ UNCHANGED <<sql, processing, exec_pc, exec_result>>
    BY <1>6 DEF Audit, execVars
  <2> QED
    BY <1>2, <2>1 DEF AnswersOwn, HoldsAnswer
<1>7. CASE Repository(t)
  <2>1. UNCHANGED <<pc, sql, processing, exec_pc, exec_result>>
    BY <1>7 DEF Repository, serviceVars, execVars
  <2> QED
    BY <1>2, <2>1, AnswerStays
<1> QED
  BY <1>3, <1>4, <1>5, <1>6, <1>7

(* The reply is what process() returned, or a failure. *)
LEMMA RepliesStayMasked ==
  ASSUME AnswersInv, [Next]_vars
  PROVE  RowsAreMaskedAnswers'
<1>1. RowsAreMaskedAnswers
  BY DEF AnswersInv
<1>2. CASE replies' = replies
  BY <1>1, <1>2 DEF RowsAreMaskedAnswers
<1>3. ASSUME NEW t \in Threads, Reply(t)
      PROVE  RowsAreMaskedAnswers'
  <2>1. MaskedIfRows(sql[t], processing[t].result)
    BY <1>3 DEF Reply, AnswersInv, AnswersOwn
  <2>2. ResultOf(t) \in {processing[t].result, Failure("InternalError")}
    BY DEF ResultOf, ResultAfter
  <2>3. MaskedIfRows(sql[t], ResultOf(t))
    BY <2>1, <2>2, FailuresShowNothing
  <2>4. PICK reply : /\ reply.sql = sql[t] /\ reply.result = ResultOf(t)
                     /\ replies' = replies \cup {reply}
    BY <1>3 DEF Reply
  <2>5. MaskedIfRows(reply.sql, reply.result)
    BY <2>3, <2>4
  <2> QED
    BY <1>1, <2>4, <2>5 DEF RowsAreMaskedAnswers, MaskedIfRows
<1>4. (\A t \in Threads : ~Reply(t)) => replies' = replies
  BY DEF Next, HandleStep, PipelineStep, Handle, Acquire, Deny, ParserThrows, Approve, Complete,
         ThrowBeforeExecution, ThrowAfterExecution, Processed, Audit, Executor, Repository,
         Server, Restart, AllServed, serviceVars, vars
<1> QED
  BY <1>2, <1>3, <1>4

(* The invariant holds at the start. *)
LEMMA AnswersInit == Init => AnswersInv
<1> SUFFICES ASSUME Init PROVE AnswersInv
  OBVIOUS
<1>1. ChangesInv
  BY ChangesInit
<1>2. replies = {} /\ \A t \in Threads : pc[t] = "idle" /\ exec_pc[t] = "idle"
  BY DEF Init, ExecInit
<1> QED
  BY <1>1, <1>2 DEF AnswersInv, AnswersOwn, HoldsAnswer, RowsAreMaskedAnswers

(* Every step preserves the invariant. *)
LEMMA AnswersNext == AnswersInv /\ [Next]_vars => AnswersInv'
<1> SUFFICES ASSUME AnswersInv, [Next]_vars
             PROVE  AnswersInv'
  OBVIOUS
<1>1. ChangesInv'
  BY ChangesNext DEF AnswersInv
<1>2. ASSUME Restart
      PROVE  \A u \in Threads : AnswersOwn(u)'
  BY <1>2 DEF Restart, ExecRestart, AnswersOwn, HoldsAnswer
<1>3. ASSUME NEW t \in Threads, HandleStep(t) \/ \E text \in Sqls : Handle(t, text)
      PROVE  \A u \in Threads : AnswersOwn(u)'
  <2>1. AnswersOwn(t)'
    BY <1>3, ExecutorAnswers, CompleteAnswers, PipelineAnswers DEF HandleStep, PipelineStep
  <2> QED
    BY <1>3, <2>1, OthersKeepAnswers
<1>4. ASSUME Server \/ AllServed \/ UNCHANGED vars
      PROVE  \A u \in Threads : AnswersOwn(u)'
  <2>1. UNCHANGED <<pc, sql, processing, exec_pc, exec_result>>
    BY <1>4 DEF Server, LateCommit, AllServed, vars, serviceVars, execVars
  <2>2. \A u \in Threads : AnswersOwn(u)
    BY DEF AnswersInv
  <2> QED
    BY <2>1, <2>2, AnswerStays
<1>5. \A u \in Threads : AnswersOwn(u)'
  BY <1>2, <1>3, <1>4 DEF Next
<1> QED
  BY <1>1, <1>5, RepliesStayMasked DEF AnswersInv

(* Rows that leave the service are what the database answered to that very   *)
(* request.  Every cell read from a PII column under that column's own name  *)
(* is masked and every cell of another column so read is unchanged, for any  *)
(* texts, schema, contents and number of threads, whatever fails or restarts *)
(* (data_classifier.cpp classifies, pii_masker.cpp masks, proxy_service.cpp  *)
(* returns only what they left).  Under a name that FROM gave the column, or *)
(* as part of a whole row, a cell may leave unmasked.                        *)
THEOREM RowsLeaveMasked == Spec => []RowsAreMaskedAnswers
<1>1. Spec => []AnswersInv
  BY AnswersInit, AnswersNext, PTL DEF Spec
<1> QED
  BY <1>1, PTL DEF AnswersInv

----------------------------------------------------------------------------
(* handle() implements AuditedGateway.  A request begins when its thread   *)
(* draws its id, is recorded when its line is flushed, changes the         *)
(* database when the server commits or is left with its COMMIT, and is     *)
(* over when handle() returns; everything else is invisible outside.       *)

(* What a reader of the trail takes from a record. *)
EntryOf(r) == [tag |-> r.tag, outcome |-> r.outcome]

(* The entries are those of the records whose line is whole. *)
LEMMA EntriesAre == TrailInv => Entries = {EntryOf(r) : r \in {q \in submitted : HasLine(q)}}
<1> SUFFICES ASSUME TrailInv
             PROVE  Entries = {EntryOf(r) : r \in {q \in submitted : HasLine(q)}}
  OBVIOUS
<1> DEFINE Whole == {j \in 1 .. Len(file) - 1 : file[j].part = "line" /\ file[j + 1] = Newline}
<1>1. Entries = {EntryOf(file[i].record) : i \in Whole}
  BY DEF Entries, EntryOf
<1>2. ASSUME NEW i \in Whole
      PROVE  file[i].record \in submitted /\ HasLine(file[i].record)
  <2>1. i \in 1 .. Len(file) - 1 /\ file[i].part = "line" /\ file[i + 1] = Newline
    OBVIOUS
  <2>2. i \in 1 .. Len(file)
    BY <2>1 DEF TrailInv, ServiceInv, AuditInv, AuditTypeOK
  <2>3. file[i] # Newline /\ \A r : file[i] # Fragment(r)
    BY <2>1 DEF Newline, Fragment
  <2>4. PICK r \in submitted : file[i] = Line(r)
    BY <2>2, <2>3 DEF TrailInv, CopyInv, FileIsOfRecords
  <2>5. file[i].record = r
    BY <2>4, TokenRecords
  <2> QED
    BY <2>1, <2>4, <2>5 DEF HasLine
<1>3. ASSUME NEW r \in submitted, HasLine(r)
      PROVE  \E i \in Whole : file[i].record = r
  <2>1. PICK i \in 1 .. Len(file) - 1 : file[i] = Line(r) /\ file[i + 1] = Newline
    BY <1>3 DEF HasLine
  <2>2. file[i].part = "line" /\ file[i].record = r
    BY <2>1 DEF Line
  <2> QED
    BY <2>1, <2>2
<1> HIDE DEF Whole
<1> QED
  BY <1>1, <1>2, <1>3

(* If the same lines are whole as before, the entries are the same. *)
LEMMA SameEntries ==
  ASSUME TrailInv, TrailInv', submitted' = submitted, \A q : HasLine(q)' <=> HasLine(q)
  PROVE  Entries' = Entries
<1>1. Entries = {EntryOf(r) : r \in {q \in submitted : HasLine(q)}}
  BY EntriesAre
<1>2. (Entries = {EntryOf(r) : r \in {q \in submitted : HasLine(q)}})'
  BY EntriesAre, PTL
<1> QED
  BY <1>1, <1>2

(* A complete write adds the entry of its record. *)
LEMMA WrittenEntry ==
  ASSUME TrailInv, TrailInv', NEW t \in Threads, FlushWrites(t)
  PROVE  Entries' = Entries \cup {EntryOf(append_record[t])}
<1>1. Entries = {EntryOf(r) : r \in {q \in submitted : HasLine(q)}}
  BY EntriesAre
<1>2. (Entries = {EntryOf(r) : r \in {q \in submitted : HasLine(q)}})'
  BY EntriesAre, PTL
<1>3. append_record[t] \in submitted /\ submitted' = submitted /\ stream' = "good"
  BY FlushEffect DEF TrailInv, ServiceInv
<1>4. \A q : HasLine(q)' <=> HasLine(q) \/ q = append_record[t]
  BY <1>3, FlushedLines DEF TrailInv, ServiceInv
<1> QED
  BY <1>1, <1>2, <1>3, <1>4

----------------------------------------------------------------------------
(* The service starts as the gateway does. *)
LEMMA GatewayInit == Init => Gateway!Init
<1> SUFFICES ASSUME Init PROVE Gateway!Init
  OBVIOUS
<1>1. Serving = NoRequest /\ LastBegun = [boot |-> 1, request_id |-> 0]
  BY DEF Init, Serving, LastBegun
<1>2. Entries = {} /\ Told = {}
  BY DEF Init, AuditInit, Entries, Told
<1> QED
  BY <1>1, <1>2 DEF Init, ExecInit, Gateway!Init

(* What the gateway has of a step that concerns only its inner workings. *)
LEMMA Unseen ==
  ASSUME ServiceInv, UNCHANGED <<mutex, boot, request_id, next_request_id, replies>>,
         Entries' = Entries, SameDatabase,
         \A u \in Threads : mutex = u => sql'[u] = sql[u]
  PROVE  UNCHANGED Gateway!vars
<1>1. LastBegun' = LastBegun /\ Told' = Told
  BY DEF LastBegun, Told
<1>2. mutex \in Threads \cup {NoThread}
  BY DEF ServiceInv, ServiceTypeOK
<1>3. Serving' = Serving
  BY <1>2 DEF Serving, NoRequest, Tag
<1> QED
  BY <1>1, <1>3 DEF Gateway!vars, SameDatabase

(* Drawing an id is Begin. *)
LEMMA AcquireBegins ==
  ASSUME ChangesInv, NEW t \in Threads, Acquire(t)
  PROVE  Gateway!Begin
<1>1. /\ pc[t] = "lock" /\ mutex = NoThread /\ mutex' = t
      /\ request_id'[t] = next_request_id /\ next_request_id' = next_request_id + 1
      /\ sql' = sql /\ boot' = boot /\ file' = file /\ replies' = replies
      /\ UNCHANGED <<committed, in_flight>>
  BY DEF Acquire, execVars, auditVars, ChangesInv, TrailInv, ServiceInv, ServiceTypeOK
<1>2. sql[t] \in Sqls /\ next_request_id \in Nat \ {0} /\ NoThread # t
  BY <1>1, ThreadsAssumption DEF ChangesInv, ExecutesOwn, TrailInv, ServiceInv, ServiceTypeOK
<1>3. Serving = NoRequest
  BY <1>1 DEF Serving
<1>4. LastBegun = [boot |-> boot, request_id |-> next_request_id - 1]
  BY DEF LastBegun
<1>5. LastBegun' = [boot |-> boot, request_id |-> next_request_id]
  BY <1>1, <1>2 DEF LastBegun
<1>6. LastBegun' = [LastBegun EXCEPT !.request_id = @ + 1]
  BY <1>2, <1>4, <1>5
<1>7. Serving' = [tag |-> LastBegun', sql |-> sql[t]]
  BY <1>1, <1>2, <1>5 DEF Serving, Tag
<1>8. Entries' = Entries /\ Told' = Told
  BY <1>1 DEF Entries, Told, Newline, NoRecord
<1> QED
  BY <1>1, <1>2, <1>3, <1>6, <1>7, <1>8 DEF Gateway!Begin

----------------------------------------------------------------------------
(* The request being served is that of the thread that holds the mutex. *)
LEMMA HolderIsServed ==
  ASSUME NEW t \in Threads, mutex = t
  PROVE  /\ Serving = [tag |-> Tag(t), sql |-> sql[t]] /\ Serving # NoRequest
         /\ Serving.tag = Tag(t) /\ Serving.sql = sql[t]
<1>1. Serving = [tag |-> Tag(t), sql |-> sql[t]]
  BY ThreadsAssumption DEF Serving
<1>2. "tag" \in DOMAIN Serving
  BY <1>1
<1>3. "tag" \notin DOMAIN NoRequest
  BY DEF NoRequest
<1> QED
  BY <1>1, <1>2, <1>3

(* A request of which nothing is known to the database. *)
LEMMA UntouchedMeans ==
  ASSUME NEW tag
  PROVE  Untouched(tag) <=> Gateway!NothingChanged(tag)
<1>1. Gateway!NothingChanged(tag) <=>
        /\ \A i \in DOMAIN committed : committed[i].tag # tag
        /\ \A change \in in_flight : change.tag # tag
  BY DEF Gateway!NothingChanged, Gateway!Made
<1> QED
  BY <1>1 DEF Untouched, AllChanges

(* The transaction being committed is a change the gateway allows. *)
LEMMA CommittingMayChange ==
  ASSUME ChangesInv, NEW t \in Threads, exec_pc[t] = "committing", Writes(sql[t])
  PROVE  /\ Gateway!MayChange
         /\ \E n \in AffectedCounts : ChangeOf(t) = Gateway!Change(n)
<1>1. /\ mutex = t /\ Untouched(Tag(t)) /\ IsOrderInsert(sql[t])
      /\ ChangeOf(t) \in ChangeSet
  BY CommittingChange
<1>2. /\ Serving # NoRequest /\ Serving.tag = Tag(t) /\ Serving.sql = sql[t]
  BY <1>1, HolderIsServed
<1>3. Gateway!NothingChanged(Serving.tag)
  BY <1>1, <1>2, UntouchedMeans
<1>4. exec_result[t].affected_rows \in AffectedCounts
  BY <1>1 DEF ChangeOf, ChangeSet
<1>5. ChangeOf(t) = Gateway!Change(exec_result[t].affected_rows)
  BY <1>2 DEF ChangeOf, Gateway!Change
<1> QED
  BY <1>1, <1>2, <1>3, <1>4, <1>5 DEF Gateway!MayChange

(* The server's COMMIT is Commit, a COMMIT left alone is Doubt, and a late   *)
(* one is Settle.                                                            *)
LEMMA DatabaseStepRefines ==
  ASSUME ChangesInv, [Next]_vars, ~SameDatabase, ~Restart
  PROVE  Gateway!Commit \/ Gateway!Doubt \/ Gateway!Settle
<1>1. ASSUME Server \/ \E t \in Threads : Executor(t)
      PROVE  UNCHANGED <<Serving, LastBegun, Entries, Told>>
  <2>1. UNCHANGED <<mutex, boot, request_id, next_request_id, replies, sql, file>>
    BY <1>1 DEF Server, Executor, serviceVars, auditVars
  <2> QED
    BY <2>1 DEF Serving, NoRequest, LastBegun, Entries, Told, Tag, Newline, NoRecord
<1>2. ASSUME NEW c \in in_flight, Server, CommitsLate(c)
      PROVE  Gateway!Settle
  BY <1>1, <1>2 DEF CommitsLate, Gateway!Settle
<1>3. ASSUME NEW t \in Threads, exec_pc[t] = "committing", Writes(sql[t]), Executor(t),
             CommitsNow(ChangeOf(t)) \/ LeftInDoubt(ChangeOf(t))
      PROVE  Gateway!Commit \/ Gateway!Doubt
  <2>1. PICK n \in AffectedCounts : ChangeOf(t) = Gateway!Change(n)
    BY <1>3, CommittingMayChange
  <2>2. Gateway!MayChange
    BY <1>3, CommittingMayChange
  <2>3. CASE CommitsNow(ChangeOf(t))
    <3>1. committed' = Append(committed, Gateway!Change(n)) /\ in_flight' = in_flight
      BY <2>1, <2>3 DEF CommitsNow
    <3> QED
      BY <1>1, <1>3, <2>2, <3>1 DEF Gateway!Commit
  <2>4. CASE LeftInDoubt(ChangeOf(t))
    <3>1. in_flight' = in_flight \cup {Gateway!Change(n)} /\ committed' = committed
      BY <2>1, <2>4 DEF LeftInDoubt
    <3> QED
      BY <1>1, <1>3, <2>2, <3>1 DEF Gateway!Doubt
  <2> QED
    BY <1>3, <2>3, <2>4
<1> QED
  BY <1>2, <1>3, DatabaseSteps

(* A restart is Crash. *)
LEMMA RestartCrashes ==
  ASSUME ChangesInv, Restart
  PROVE  Gateway!Crash
<1>1. [Next]_vars /\ TrailInv /\ TrailInv' /\ AuditInv /\ CopyInv
  BY TrailNext DEF Next, ChangesInv, TrailInv, ServiceInv
<1>2. /\ mutex' = NoThread /\ boot' = boot + 1 /\ next_request_id' = 1
      /\ replies' = replies /\ AuditRestart /\ ExecRestart
  BY DEF Restart
<1>3. Serving' = NoRequest /\ LastBegun' = [boot |-> LastBegun.boot + 1, request_id |-> 0]
  BY <1>2 DEF Serving, NoRequest, LastBegun
<1>4. Told' = Told
  BY <1>2 DEF Told
<1>5. Entries' = Entries
  BY <1>1, <1>2, RestartedLines, RestartEffect, SameEntries
<1>6. CASE SameDatabase
  BY <1>3, <1>4, <1>5, <1>6 DEF SameDatabase, Gateway!Crash
<1>7. ASSUME NEW t \in Threads, exec_pc[t] = "committing", Writes(sql[t]),
             LeftInDoubt(ChangeOf(t))
      PROVE  Gateway!Crash
  <2>1. PICK n \in AffectedCounts : ChangeOf(t) = Gateway!Change(n)
    BY <1>7, CommittingMayChange
  <2>2. Gateway!MayChange
    BY <1>7, CommittingMayChange
  <2>3. in_flight' = in_flight \cup {Gateway!Change(n)} /\ committed' = committed
    BY <1>7, <2>1 DEF LeftInDoubt
  <2> QED
    BY <1>3, <1>4, <1>5, <2>2, <2>3 DEF Gateway!Crash
<1>8. committed' = committed /\ committed \in Seq(ChangeSet)
  BY <1>2 DEF ExecRestart, ChangesInv, ChangesTypeOK
<1>9. ASSUME NEW c, CommitsNow(c) \/ CommitsLate(c)
      PROVE  FALSE
  <2>1. committed = Append(committed, c)
    BY <1>8, <1>9 DEF CommitsNow, CommitsLate
  <2>2. Len(committed) \in Nat /\ Len(Append(committed, c)) = Len(committed) + 1
    BY <1>8
  <2> QED
    BY <2>1, <2>2
<1> QED
  BY <1>1, <1>6, <1>7, <1>9, DatabaseSteps

----------------------------------------------------------------------------
(* A complete flush is Record: the request has no entry yet. *)
LEMMA FlushRecords ==
  ASSUME ChangesInv, NEW t \in Threads, Repository(t), FlushWrites(t)
  PROVE  Gateway!Record
<1>1. [Next]_vars /\ TrailInv /\ TrailInv' /\ ServiceInv /\ AuditInv /\ CopyInv
  BY TrailNext DEF Next, HandleStep, PipelineStep, ChangesInv, TrailInv, ServiceInv
<1>2. append_pc[t] = "flush"
  BY DEF FlushWrites
<1>3. pc[t] = "appending" /\ mutex = t
  BY <1>1, <1>2 DEF ServiceInv, CallsNest, MutexHeld
<1>4. /\ append_record[t].tag = Tag(t) /\ append_record[t].outcome \in AuditOutcomes
  BY <1>1, <1>3 DEF ServiceInv, RecordsMatch, Matches
<1>5. Serving # NoRequest /\ Serving.tag = Tag(t)
  BY <1>3, HolderIsServed
<1>6. ASSUME NEW entry \in Entries, entry.tag = Tag(t)
      PROVE  FALSE
  <2>1. PICK i \in 1 .. Len(file) - 1 :
          /\ file[i].part = "line" /\ file[i + 1] = Newline
          /\ entry = [tag |-> file[i].record.tag, outcome |-> file[i].record.outcome]
    BY <1>6 DEF Entries
  <2>2. file[i].record.tag = Tag(t)
    BY <1>6, <2>1
  <2>3. Recorded(t)
    BY <1>1, <1>3, <2>1, <2>2, LineOfHolder
  <2> QED
    BY <1>2, <2>3 DEF Recorded
<1>7. Entries' = Entries \cup {[tag |-> Serving.tag, outcome |-> append_record[t].outcome]}
  BY <1>1, <1>4, <1>5, WrittenEntry DEF EntryOf
<1>8. /\ UNCHANGED <<mutex, boot, request_id, next_request_id, replies, sql>>
      /\ UNCHANGED <<committed, in_flight>>
  BY DEF Repository, serviceVars, execVars
<1>9. UNCHANGED <<Serving, LastBegun, Told>>
  BY <1>8 DEF Serving, NoRequest, LastBegun, Told, Tag
<1> QED
  BY <1>4, <1>5, <1>6, <1>7, <1>8, <1>9 DEF Gateway!Record

(* The other steps of append() are invisible. *)
LEMMA QuietAppend ==
  ASSUME ChangesInv, NEW t \in Threads, Repository(t), ~FlushWrites(t)
  PROVE  UNCHANGED Gateway!vars
<1>1. [Next]_vars /\ TrailInv /\ TrailInv' /\ ServiceInv /\ AuditInv /\ CopyInv
  BY TrailNext DEF Next, HandleStep, PipelineStep, ChangesInv, TrailInv, ServiceInv
<1>2. CASE FlushFails(t)
  <2>1. submitted' = submitted /\ stream' = "bad"
    BY <1>2 DEF FlushFails
  <2>2. \A q : HasLine(q)' <=> HasLine(q)
    BY <1>1, <1>2, <2>1, FlushedLines
  <2> QED
    BY <1>1, <2>1, <2>2, SameEntries, Unseen
    DEF Repository, serviceVars, execVars, SameDatabase
<1>3. CASE ~FlushFails(t)
  <2>1. file' = file
    BY <1>3 DEF Repository, AppendStep, LockStream, LockClosedStream, InsertLine, InsertNewline,
                Insert, FlushBadStream, CheckStream
  <2>2. Entries' = Entries
    BY <2>1 DEF Entries, Newline, NoRecord
  <2> QED
    BY <1>1, <2>2, Unseen DEF Repository, serviceVars, execVars, SameDatabase
<1> QED
  BY <1>2, <1>3

(* The outcome handle() is about to tell is one of the trail's, and if it is *)
(* a success, the request has its entry.                                     *)
LEMMA OutcomeIsEntered ==
  ASSUME ChangesInv, NEW t \in Threads, pc[t] = "appending", append_pc[t] = "returned"
  PROVE  /\ OutcomeOf(ResultOf(t)) \in AuditOutcomes
         /\ OutcomeOf(ResultOf(t)) = "Success" =>
              [tag |-> Tag(t), outcome |-> "Success"] \in Entries
<1> DEFINE p == processing[t]
           internal == Failure("InternalError")
<1>1. /\ p.record.tag = Tag(t) /\ p.record.outcome = OutcomeOf(p.result)
      /\ p.record.outcome \in AuditOutcomes
      /\ p.record.outcome = "Success" => succeeded(p.result)
      /\ append_record[t] = p.record
  BY DEF ChangesInv, TrailInv, ServiceInv, RecordsMatch, Matches
<1>2. OutcomeOf(internal) = "InternalFailure" /\ "InternalFailure" \in AuditOutcomes
  BY OutcomeTable DEF AuditOutcomes
<1>3. CASE append_result[t] = "Ok"
  <2>1. ResultOf(t) = p.result
    BY <1>3 DEF ResultOf, ResultAfter
  <2>2. append_record[t] \in submitted /\ HasLine(append_record[t])
    BY <1>3 DEF ChangesInv, TrailInv, ServiceInv, AuditInv, CallersKnow, AuditTypeOK,
                AcknowledgedIsWhole
  <2>3. EntryOf(append_record[t]) \in Entries
    BY <2>2, EntriesAre DEF ChangesInv
  <2> QED
    BY <1>1, <2>1, <2>3 DEF EntryOf
<1>4. CASE append_result[t] # "Ok" /\ succeeded(p.result)
  <2>1. ResultOf(t) = internal
    BY <1>4 DEF ResultOf, ResultAfter
  <2> QED
    BY <1>2, <2>1
<1>5. CASE append_result[t] # "Ok" /\ ~succeeded(p.result)
  <2>1. ResultOf(t) = p.result
    BY <1>5 DEF ResultOf, ResultAfter
  <2> QED
    BY <1>1, <1>5, <2>1
<1> QED
  BY <1>3, <1>4, <1>5

(* The return of handle() is Answer: what it tells is recorded and so. *)
LEMMA ReplyAnswers ==
  ASSUME ChangesInv, NEW t \in Threads, Reply(t)
  PROVE  \E outcome \in AuditOutcomes, write \in Gateway!Knowledge :
            Gateway!Answer(outcome, write)
<1> DEFINE result == ResultOf(t)
           outcome == OutcomeOf(result)
           write == WriteOf(result)
           new == [tag |-> Tag(t), sql |-> sql[t], result |-> result]
<1>1. [Next]_vars /\ TrailInv /\ ServiceInv /\ TrailAgreesWithReplies' /\ RepliesTruthful'
  BY ReplyKeepsTrail, RepliesStayTruthful DEF Next, HandleStep, ChangesInv, TrailInv
<1>2. /\ pc[t] = "appending" /\ append_pc[t] = "returned" /\ mutex' = NoThread
      /\ replies' = replies \cup {new} /\ file' = file /\ SameDatabase
      /\ UNCHANGED <<next_request_id, boot>>
  BY DEF Reply, TakeAppendResult, execVars, SameDatabase
<1>3. mutex = t
  BY <1>1, <1>2 DEF ServiceInv, MutexHeld
<1>4. Serving # NoRequest /\ Serving.tag = Tag(t)
  BY <1>3, HolderIsServed
<1>5. Serving' = NoRequest /\ LastBegun' = LastBegun /\ Entries' = Entries
  BY <1>2 DEF Serving, NoRequest, LastBegun, Entries, Newline, NoRecord
<1>6. new.tag = Tag(t) /\ new.result = result /\ new \in replies'
  BY <1>2
<1>7. /\ outcome \in AuditOutcomes
      /\ outcome = "Success" => [tag |-> Tag(t), outcome |-> "Success"] \in Entries
  BY <1>2, OutcomeIsEntered
<1>8. write \in Gateway!Knowledge
  BY DEF WriteOf, Gateway!Knowledge
<1> HIDE DEF result, new
<1>9. ASSUME NEW entry \in Entries, entry.tag = Tag(t)
      PROVE  entry.outcome = outcome
  <2>1. PICK i \in 1 .. Len(file) - 1 :
          /\ file[i].part = "line" /\ file[i + 1] = Newline
          /\ entry = [tag |-> file[i].record.tag, outcome |-> file[i].record.outcome]
    BY DEF Entries
  <2>2. file[i].record.tag = new.tag
    BY <1>6, <1>9, <2>1
  <2>3. \A reply \in replies' : \A j \in 1 .. Len(file) - 1 :
           /\ file[j].part = "line" /\ file[j + 1] = Newline
           /\ file[j].record.tag = reply.tag
           => file[j].record.outcome = OutcomeOf(reply.result)
    BY <1>1, <1>2 DEF TrailAgreesWithReplies, Newline, NoRecord
  <2>4. file[i].record.outcome = OutcomeOf(new.result)
    BY <1>6, <2>1, <2>2, <2>3
  <2> QED
    BY <1>6, <2>1, <2>4
<1>10. /\ write = "none" => Gateway!NothingChanged(Tag(t))
       /\ write = "done" => \E i \in DOMAIN committed : Gateway!Made(Tag(t)) = {i}
  <2>1. \A reply \in replies' : Truthful(reply.result, reply.tag)
    BY <1>1, <1>2 DEF RepliesTruthful, Truthful, Untouched, MadeOnce, AllChanges, SameDatabase
  <2>2. Truthful(result, Tag(t))
    BY <1>6, <2>1
  <2>3. \A n : MadeOnce(Tag(t), n) => \E i \in DOMAIN committed : Gateway!Made(Tag(t)) = {i}
    BY DEF MadeOnce, Gateway!Made
  <2> QED
    BY <2>2, <2>3, UntouchedMeans DEF Truthful
<1>11. Told' = Told \cup {[tag |-> Tag(t), outcome |-> outcome, write |-> write]}
  BY <1>2, <1>6 DEF Told
<1> HIDE DEF outcome, write
<1>12. Gateway!Answer(outcome, write)
  BY <1>2, <1>4, <1>5, <1>7, <1>9, <1>10, <1>11 DEF Gateway!Answer, SameDatabase
<1> QED
  BY <1>7, <1>8, <1>12

(* Each step is a step of the gateway or invisible to it. *)
LEMMA StepRefines ==
  ASSUME ChangesInv, [Next]_vars
  PROVE  Gateway!Next \/ UNCHANGED Gateway!vars
<1>1. ServiceInv /\ pc \in [Threads -> Pcs] /\ sql \in [Threads -> Sqls \cup {BlankSql}]
  BY DEF ChangesInv, TrailInv, ServiceInv, ServiceTypeOK
<1>2. CASE Restart
  BY <1>2, RestartCrashes DEF Gateway!Next
<1>3. CASE ~SameDatabase /\ ~Restart
  BY <1>3, DatabaseStepRefines DEF Gateway!Next
<1>4. ASSUME NEW t \in Threads, Acquire(t) \/ Reply(t) \/ Repository(t)
      PROVE  Gateway!Next \/ UNCHANGED Gateway!vars
  BY <1>4, AcquireBegins, ReplyAnswers, FlushRecords, QuietAppend DEF Gateway!Next
<1>5. ASSUME SameDatabase, file' = file, sql' = sql,
             UNCHANGED <<mutex, boot, request_id, next_request_id, replies>>
      PROVE  UNCHANGED Gateway!vars
  <2>1. Entries' = Entries
    BY <1>5 DEF Entries, Newline, NoRecord
  <2> QED
    BY <1>1, <1>5, <2>1, Unseen
<1>6. ASSUME NEW t \in Threads, NEW text \in Sqls, Handle(t, text)
      PROVE  UNCHANGED Gateway!vars
  <2>1. /\ pc[t] = "idle" /\ file' = file /\ SameDatabase
        /\ UNCHANGED <<mutex, boot, request_id, next_request_id, replies>>
        /\ \A u \in Threads \ {t} : sql'[u] = sql[u]
    BY <1>1, <1>6 DEF Handle, auditVars, execVars, SameDatabase
  <2>2. mutex # t
    BY <1>1, <2>1 DEF ServiceInv, MutexHeld
  <2>3. Entries' = Entries
    BY <2>1 DEF Entries, Newline, NoRecord
  <2> QED
    BY <1>1, <2>1, <2>2, <2>3, Unseen
<1>7. ASSUME NEW t \in Threads, SameDatabase,
             \/ Deny(t) \/ ParserThrows(t) \/ Approve(t) \/ Complete(t)
             \/ ThrowBeforeExecution(t) \/ ThrowAfterExecution(t) \/ Audit(t) \/ Executor(t)
      PROVE  UNCHANGED Gateway!vars
  <2>1. /\ file' = file /\ sql' = sql
        /\ UNCHANGED <<mutex, boot, request_id, next_request_id, replies>>
    BY <1>7 DEF Deny, ParserThrows, Approve, Complete, ThrowBeforeExecution,
                ThrowAfterExecution, Processed, Audit, StartAppend, AppendThrows, Executor,
                serviceVars, auditVars
  <2> QED
    BY <1>5, <1>7, <2>1
<1>8. CASE SameDatabase /\ (Server \/ AllServed \/ UNCHANGED vars)
  BY <1>5, <1>8 DEF Server, AllServed, vars, serviceVars, auditVars
<1> QED
  BY <1>2, <1>3, <1>4, <1>6, <1>7, <1>8 DEF Next, HandleStep, PipelineStep

(* handle() implements the gateway, for any texts, any number of threads and *)
(* of restarts: what clients are told, what the trail holds and what the     *)
(* database holds is what serving one request after another could produce.   *)
THEOREM HandleImplementsTheGateway == Spec => ImplementsAuditedGateway
<1>1. ChangesInv /\ [Next]_vars => [Gateway!Next]_(Gateway!vars)
  BY StepRefines
<1> QED
  BY <1>1, GatewayInit, ChangesAlways, PTL DEF Spec, ImplementsAuditedGateway, Gateway!Spec
==============================================================================

---------------------------- MODULE ProxyService ----------------------------
(***************************************************************************)
(* core/proxy_service.cpp: ProxyService::handle(), called concurrently by  *)
(* the worker threads.  One mutex serializes the whole pipeline: analyze,  *)
(* decide, execute, classify, mask, append to the audit trail, return.     *)
(* The executor's and the repository's steps are those of their modules;   *)
(* the process may die between any two steps and be started again.         *)
(***************************************************************************)
EXTENDS JsonlAuditRepository, PostgresQueryExecutor, RequestProcessing, MaskedAnswers

CONSTANTS Sqls,         \* the texts clients send
          MaxRequests   \* bound: how many requests arrive in all

ASSUME RequestsAssumption == MaxRequests \in Nat
ASSUME SqlsAssumption == \A text \in Sqls : Grammatical(text)

VARIABLES
  pc,               \* where each worker thread is in handle()
  sql,              \* the text it handles
  request_id,       \* the id it drew
  processing,       \* the result and the record process() returned
  mutex,            \* the thread holding ProxyService::mutex_
  next_request_id,  \* next_request_id_, per process
  arrived,          \* how many requests arrived (bounded by MaxRequests)
  replies           \* what handle() returned: tag, text and result (history)

serviceVars == <<pc, sql, request_id, processing, mutex, next_request_id, arrived, replies>>
vars == <<serviceVars, auditVars, execVars, boot>>

Pcs == {"idle", "lock", "process", "execute", "append", "appending"}

Tag(t) == [boot |-> boot, request_id |-> request_id[t]]
NoProcessing == InternalProcessing(NoTag)

Init ==
  /\ pc = [t \in Threads |-> "idle"]
  /\ sql = [t \in Threads |-> BlankSql]
  /\ request_id = [t \in Threads |-> 0]
  /\ processing = [t \in Threads |-> NoProcessing]
  /\ mutex = NoThread
  /\ next_request_id = 1
  /\ arrived = 0
  /\ replies = {}
  /\ boot = 1
  /\ AuditInit
  /\ ExecInit

(* The HTTP layer calls handle(text) on an idle worker. *)
Handle(t, text) ==
  /\ pc[t] = "idle"
  /\ arrived < MaxRequests
  /\ arrived' = arrived + 1
  /\ sql' = [sql EXCEPT ![t] = text]
  /\ pc' = [pc EXCEPT ![t] = "lock"]
  /\ UNCHANGED <<request_id, processing, mutex, next_request_id, replies, auditVars,
                 execVars, boot>>

(* Fault: handle() runs without the lock. *)
AcquireUnguarded(t) ==
  /\ pc[t] = "lock"
  /\ mutex' = t
  /\ request_id' = [request_id EXCEPT ![t] = next_request_id]
  /\ next_request_id' = next_request_id + 1
  /\ pc' = [pc EXCEPT ![t] = "process"]
  /\ UNCHANGED <<sql, processing, arrived, replies, auditVars, execVars, boot>>

(* lock_guard, then request_id = next_request_id_++. *)
Acquire(t) ==
  /\ pc[t] = "lock"
  /\ mutex = NoThread
  /\ mutex' = t
  /\ request_id' = [request_id EXCEPT ![t] = next_request_id]
  /\ next_request_id' = next_request_id + 1
  /\ pc' = [pc EXCEPT ![t] = "process"]
  /\ UNCHANGED <<sql, processing, arrived, replies, auditVars, execVars, boot>>

(* Fault: the mutex is released before the record is appended. *)
ProcessedAndUnlocked(t, outcome) ==
  /\ processing' = [processing EXCEPT ![t] = outcome]
  /\ pc' = [pc EXCEPT ![t] = "append"]
  /\ mutex' = NoThread
  /\ UNCHANGED <<sql, request_id, next_request_id, arrived, replies, auditVars, boot>>

(* process() has returned outcome, or its exception was turned into one. *)
Processed(t, outcome) ==
  /\ processing' = [processing EXCEPT ![t] = outcome]
  /\ pc' = [pc EXCEPT ![t] = "append"]
  /\ UNCHANGED <<sql, request_id, mutex, next_request_id, arrived, replies, auditVars, boot>>

Deny(t) ==
  LET analysis == analyze(sql[t])
      decision == evaluate(analysis)
  IN  /\ pc[t] = "process"
      /\ ~decision.allowed
      /\ Processed(t, ProcessDenied(Tag(t), analysis, decision))
      /\ UNCHANGED execVars

(* The parser library throws; the adapter reports an unparseable text. *)
ParserThrows(t) ==
  LET analysis == AnalysisOf(ParseFailure)
  IN  /\ pc[t] = "process"
      /\ ~is_blank(sql[t])
      /\ Processed(t, ProcessDenied(Tag(t), analysis, evaluate(analysis)))
      /\ UNCHANGED execVars

Approve(t) ==
  /\ pc[t] = "process"
  /\ evaluate(analyze(sql[t])).allowed
  /\ pc' = [pc EXCEPT ![t] = "execute"]
  /\ Execute(t, sql[t], Tag(t))
  /\ UNCHANGED <<sql, request_id, processing, mutex, next_request_id, arrived, replies,
                 auditVars, boot>>

Complete(t) ==
  /\ pc[t] = "execute"
  /\ TakeExecution(t)
  /\ Processed(t, ProcessExecuted(Tag(t), analyze(sql[t]), exec_result[t]))

(* An unexpected exception in process(), before the executor is called ...  *)
ThrowBeforeExecution(t) ==
  /\ pc[t] = "process"
  /\ Processed(t, InternalProcessing(Tag(t)))
  /\ UNCHANGED execVars

(* ... or after it has answered. *)
ThrowAfterExecution(t) ==
  /\ pc[t] = "execute"
  /\ TakeExecution(t)
  /\ Processed(t, InternalProcessing(Tag(t)))

(* append_safely(processing.record): the only append attempt. *)
Audit(t) ==
  /\ pc[t] = "append"
  /\ StartAppend(t, processing[t].record) \/ AppendThrows(t, processing[t].record)
  /\ pc' = [pc EXCEPT ![t] = "appending"]
  /\ UNCHANGED <<sql, request_id, processing, mutex, next_request_id, arrived, replies,
                 execVars, boot>>

(* Fault: the answer of append_safely() is ignored. *)
ResultWhateverAppended(result, appended) == result

(* A success whose append failed is withheld; a failure keeps its reason.   *)
ResultAfter(result, appended) ==
  IF appended # "Ok" /\ succeeded(result) THEN Failure("InternalError") ELSE result

ResultOf(t) == ResultAfter(processing[t].result, append_result[t])

(* handle() returns and the lock_guard releases the mutex. *)
Reply(t) ==
  /\ pc[t] = "appending"
  /\ replies' = replies \cup {[tag |-> Tag(t), sql |-> sql[t], result |-> ResultOf(t)]}
  /\ TakeAppendResult(t)
  /\ mutex' = NoThread
  /\ pc' = [pc EXCEPT ![t] = "idle"]
  /\ sql' = [sql EXCEPT ![t] = BlankSql]
  /\ request_id' = [request_id EXCEPT ![t] = 0]
  /\ processing' = [processing EXCEPT ![t] = NoProcessing]
  /\ UNCHANGED <<next_request_id, arrived, execVars, boot>>

Executor(t) == ExecuteStep(t) /\ UNCHANGED <<serviceVars, auditVars, boot>>
Repository(t) == AppendStep(t) /\ UNCHANGED <<serviceVars, execVars, boot>>
Server == LateCommit /\ UNCHANGED <<serviceVars, auditVars, boot>>

(* The process dies with whatever its threads were doing; the next one      *)
(* starts counting requests from 1.                                         *)
Restart ==
  /\ boot < MaxBoots
  /\ boot' = boot + 1
  /\ pc' = [t \in Threads |-> "idle"]
  /\ sql' = [t \in Threads |-> BlankSql]
  /\ request_id' = [t \in Threads |-> 0]
  /\ processing' = [t \in Threads |-> NoProcessing]
  /\ mutex' = NoThread
  /\ next_request_id' = 1
  /\ AuditRestart
  /\ ExecRestart
  /\ UNCHANGED <<arrived, replies>>

(* Every request was served: not a deadlock. *)
AllServed ==
  /\ arrived = MaxRequests
  /\ \A t \in Threads : pc[t] = "idle"
  /\ UNCHANGED vars

(* The steps of a thread inside handle(): its own and those of the parts it *)
(* waits for, and the return.                                               *)
PipelineStep(t) ==
  \/ Acquire(t)
  \/ Deny(t) \/ ParserThrows(t) \/ Approve(t) \/ Complete(t)
  \/ ThrowBeforeExecution(t) \/ ThrowAfterExecution(t)
  \/ Audit(t)
  \/ Executor(t) \/ Repository(t)

HandleStep(t) == PipelineStep(t) \/ Reply(t)

Next ==
  \/ \E t \in Threads : (\E text \in Sqls : Handle(t, text)) \/ HandleStep(t)
  \/ Server
  \/ Restart
  \/ AllServed

(* A thread inside handle() keeps running.  This includes an assumption on  *)
(* the server: every round trip is answered or the connection is reported   *)
(* lost.  The code asks for that with statement_timeout, for the statement; *)
(* it sets no timeout for connecting, BEGIN and COMMIT.                      *)
Fairness == \A t \in Threads : WF_vars(HandleStep(t))

Spec == Init /\ [][Next]_vars /\ Fairness

----------------------------------------------------------------------------
(* The variables stay in their types. *)
TypeOK ==
  /\ pc \in [Threads -> Pcs]
  /\ sql \in [Threads -> Sqls \cup {BlankSql}]
  /\ request_id \in [Threads -> Nat]
  /\ mutex \in Threads \cup {NoThread}
  /\ next_request_id \in Nat \ {0}
  /\ arrived \in 0 .. MaxRequests
  /\ boot \in 1 .. MaxBoots
  /\ exec_pc \in [Threads -> ExecPcs]
  /\ AuditTypeOK

(* "exactly one request is processed at a time" (proxy_service.h): only the  *)
(* thread that holds the mutex is inside the pipeline, has a transaction     *)
(* open, or is inside the audit repository, also across restarts.            *)
OneRequestAtATime ==
  \A t \in Threads :
     \/ pc[t] \notin {"idle", "lock"} \/ exec_pc[t] # "idle" \/ append_pc[t] # "idle"
     => mutex = t

(* "A successful result may not leave the service unaudited": whoever was    *)
(* given rows or a write confirmation, the file holds the whole line of a    *)
(* Success record of that very request, through failed writes, other         *)
(* threads' requests and restarts.                                           *)
SuccessIsAudited ==
  \A reply \in replies :
     succeeded(reply.result) =>
       \E r \in acknowledged :
          r.tag = reply.tag /\ r.outcome = "Success" /\ HasLine(r)

(* The outcome a reply corresponds to in the audit trail. *)
OutcomeOf(result) ==
  IF succeeded(result) THEN "Success"
  ELSE CASE result.reason \in {"EmptyInput", "PolicyRejected"} -> "PolicyRejected"
         [] result.reason = "UnparseableSql" -> "ParsingFailure"
         [] result.reason \in {"DatabaseUnavailable", "QueryFailed"} -> "DatabaseFailure"
         [] result.reason = "MaskingRefused" -> "MaskingRefused"
         [] result.reason = "InternalError" -> "InternalFailure"

(* The trail never contradicts the client: a terminated line of a request    *)
(* that was answered has the outcome the client was told, so a withheld      *)
(* success leaves no complete Success line behind.                           *)
TrailAgreesWithReplies ==
  \A reply \in replies : \A i \in 1 .. Len(file) - 1 :
     /\ file[i].part = "line" /\ file[i + 1] = Newline
     /\ file[i].record.tag = reply.tag
     => file[i].record.outcome = OutcomeOf(reply.result)

(* Request ids increase along the file within one process and processes      *)
(* follow one another, so no request has two entries and the trail is in the *)
(* order in which the requests were served.  Which process wrote a line is   *)
(* the model's knowledge: the line itself holds the id and not the boot.     *)
TrailIsInRequestOrder ==
  \A i, j \in 1 .. Len(file) :
     (i < j /\ file[i] # Newline /\ file[j] # Newline) =>
       LET a == file[i].record.tag
           b == file[j].record.tag
       IN  a.boot < b.boot \/ (a.boot = b.boot /\ a.request_id < b.request_id)

(* Everything the server has committed or may still commit for the proxy. *)
AllChanges == {committed[i] : i \in DOMAIN committed} \cup in_flight

(* INSERT INTO orders (customer_id, amount) VALUES (<+int>, <+number>), said *)
(* of the statement's syntax tree and not of the analysis.                   *)
IsOrderInsert(text) ==
  /\ Len(text.statements) = 1
  /\ LET s == text.statements[1]
     IN  /\ s.type = "kStmtInsert" /\ s.kind # "kInsertSelect"
         /\ s.from = <<TableName(<<>>, <<"orders">>)>>
         /\ s.columns = << <<"customer_id">>, <<"amount">> >>
         /\ Len(s.values) = 2 /\ s.values[1].positive /\ s.values[2].positive
         /\ s.values[1].type = "kExprLiteralInt"
         /\ s.values[2].type \in {"kExprLiteralInt", "kExprLiteralFloat"}

(* One SELECT, and it calls functions that change the database: no rule of  *)
(* the policy looks at what is called.                                       *)
IsChangingQuery(text) ==
  /\ Len(text.statements) = 1
  /\ text.statements[1].type = "kStmtSelect" /\ text.statements[1].effects = "some"

(* "Read-only apart from one explicitly enumerated write", as far as the     *)
(* statements go: whatever texts clients send and whatever fails on the way, *)
(* the one permitted INSERT is the only statement that changes the database. *)
(* What changes it besides is a function called by a SELECT, alone in its    *)
(* text, and never by a script or another statement.                         *)
OnlyOrderInsertsCommit ==
  /\ \A change \in AllChanges : IsOrderInsert(change.sql)
  /\ \A effect \in effects : IsChangingQuery(effect.sql)

(* A client told "affected_rows: 1" has its one row in the database, once.   *)
ConfirmedWriteIsCommittedOnce ==
  \A reply \in replies :
     reply.result.kind = "write" =>
       \E i \in DOMAIN committed :
          /\ committed[i].tag = reply.tag
          /\ committed[i].affected_rows = reply.result.affected_rows
          /\ \A j \in DOMAIN committed : committed[j].tag = reply.tag => j = i

(* Only query_failed and internal_error leave the client in doubt about its  *)
(* INSERT: after any other failure, 503 database_unavailable included, no    *)
(* row was inserted for the request and none will be.  A rejected text has   *)
(* not even had a function called; a failed or refused SELECT may have.      *)
OtherFailuresWroteNothing ==
  \A reply \in replies :
     /\ ~succeeded(reply.result)
     /\ reply.result.reason \notin {"QueryFailed", "InternalError"}
     => /\ \A change \in AllChanges : change.tag # reply.tag
        /\ reply.result.reason \in {"EmptyInput", "UnparseableSql", "PolicyRejected"} =>
             \A effect \in effects : effect.tag # reply.tag

(* What a client is shown of an answer of the database to its own text: the  *)
(* names of the columns, and of every cell what MaskedAnswers allows.        *)
ShowsMaskedAnswer(text, result) ==
  /\ Len(text.statements) = 1
  /\ \E answer \in QueryAnswers(text.statements[1]) :
       /\ result = Rows([c \in DOMAIN answer.columns |-> answer.columns[c].name], result.rows)
       /\ MaskedRows(text.statements[1], answer.rows, result.rows)

(* Rows that leave are what the database answered to that very request.  A   *)
(* cell read from a stored column under that column's own name is masked by  *)
(* what the column holds, or unchanged if that is no PII, through aliases in *)
(* the select list and of tables, stars, other threads' requests and         *)
(* failures; a cell of another origin is masked or unchanged.                *)
RowsAreMaskedAnswers ==
  \A reply \in replies :
     reply.result.kind = "rows" => ShowsMaskedAnswer(reply.sql, reply.result)

(* README: "Every request handled by the SQL pipeline produces one JSON      *)
(* Lines record."  Refuted: a failed append is only logged.                  *)
EveryReplyIsRecorded ==
  \A reply \in replies : \E r \in submitted : r.tag = reply.tag /\ HasLine(r)

(* http/routes.cpp tells the client of a query_failed that "The database     *)
(* rejected the statement."  Refuted by a COMMIT whose answer is lost.       *)
QueryFailedWroteNothing ==
  \A reply \in replies :
     reply.result = Failure("QueryFailed") =>
       \A change \in AllChanges : change.tag # reply.tag

----------------------------------------------------------------------------
(* The service as its clients and the readers of the trail see it: it serves *)
(* the request of the thread that holds the mutex, and an entry counts once  *)
(* its line is whole.                                                        *)
Entries ==
  {[tag |-> file[i].record.tag, outcome |-> file[i].record.outcome] :
     i \in {j \in 1 .. Len(file) - 1 : file[j].part = "line" /\ file[j + 1] = Newline}}

NoRequest == <<>>
Serving ==
  IF mutex = NoThread THEN NoRequest ELSE [tag |-> Tag(mutex), sql |-> sql[mutex]]

LastBegun == [boot |-> boot, request_id |-> next_request_id - 1]

(* What a reply tells of the INSERT: made, not made, or it cannot say. *)
WriteOf(result) ==
  IF result.kind = "write" THEN "done"
  ELSE IF result.kind = "failure" /\ result.reason \in {"QueryFailed", "InternalError"}
  THEN "unknown"
  ELSE "none"

Told ==
  {[tag |-> reply.tag, outcome |-> OutcomeOf(reply.result), write |-> WriteOf(reply.result)] :
     reply \in replies}

Gateway ==
  INSTANCE AuditedGateway WITH
    Permitted <- IsOrderInsert,
    Counts <- AffectedCounts,
    Outcomes <- AuditOutcomes,
    Nobody <- NoRequest,
    serving <- Serving,
    last <- LastBegun,
    trail <- Entries,
    database <- committed,
    doubtful <- in_flight,
    answers <- Told

(* handle() implements the gateway: through every interleaving, failure and  *)
(* restart, requests are served one after another, change the database and   *)
(* the trail at most once each, only while they are served or after their    *)
(* COMMIT was left in doubt, and no answer claims what is not so.  Changes   *)
(* are those of statements; effects of the functions of a SELECT are apart.  *)
ImplementsAuditedGateway == Gateway!Spec
=============================================================================

----------------------- MODULE PostgresQueryExecutor -----------------------
(***************************************************************************)
(* postgres/postgres_query_executor.cpp: one connection and one            *)
(* transaction per call.  Each round trip may fail, and the answer depends *)
(* on what libpqxx throws: broken_connection is ConnectionFailure,         *)
(* everything else ExecutionFailure; a connection lost while COMMIT is     *)
(* under way is thrown as in_doubt_error, which is no broken_connection.   *)
(***************************************************************************)
EXTENDS ServiceProcess, PostgresDatabase

CONSTANT AffectedCounts   \* row counts the server may report for one INSERT

VARIABLES
  exec_pc,      \* where each thread is inside execute()
  exec_sql,     \* the text it executes
  exec_tag,     \* the request it executes it for (history)
  exec_result,  \* the ExecutionResult it is building
  in_flight,    \* COMMITs the server may still carry out though the client is gone
  committed,    \* what the server has committed, in order
  effects       \* SELECTs whose functions may have changed the database (history)

execVars == <<exec_pc, exec_sql, exec_tag, exec_result, in_flight, committed, effects>>

ExecPcs == {"idle", "connect", "begin", "statement", "commit", "committing",
            "committed", "returned"}

NoTag == [boot |-> 0, request_id |-> 0]

(* failure(): a default ExecutionResult with a status. *)
failure(status) ==
  [status |-> status, columns |-> <<>>, rows |-> <<>>, row_count |-> 0,
   affected_rows |-> 0]

(* translate() of a result set; nobody reads affected_rows of a query. *)
translate(answer) ==
  [status |-> "Ok", columns |-> answer.columns, rows |-> answer.rows,
   row_count |-> Len(answer.rows), affected_rows |-> 0]

NoExecution == failure("ExecutionFailure")

ExecInit ==
  /\ exec_pc = [t \in Threads |-> "idle"]
  /\ exec_sql = [t \in Threads |-> BlankSql]
  /\ exec_tag = [t \in Threads |-> NoTag]
  /\ exec_result = [t \in Threads |-> NoExecution]
  /\ in_flight = {}
  /\ committed = <<>>
  /\ effects = {}

Execute(t, sql, tag) ==
  /\ exec_pc[t] = "idle"
  /\ exec_pc' = [exec_pc EXCEPT ![t] = "connect"]
  /\ exec_sql' = [exec_sql EXCEPT ![t] = sql]
  /\ exec_tag' = [exec_tag EXCEPT ![t] = tag]
  /\ UNCHANGED <<exec_result, in_flight, committed, effects>>

ExecReturns(t, result) ==
  /\ exec_pc' = [exec_pc EXCEPT ![t] = "returned"]
  /\ exec_result' = [exec_result EXCEPT ![t] = result]
  /\ UNCHANGED <<exec_sql, exec_tag>>

Advance(t, from, to) ==
  /\ exec_pc[t] = from
  /\ exec_pc' = [exec_pc EXCEPT ![t] = to]
  /\ UNCHANGED <<exec_sql, exec_tag>>

Connect(t) ==
  Advance(t, "connect", "begin") /\ UNCHANGED <<exec_result, in_flight, committed, effects>>

(* BEGIN and SET LOCAL statement_timeout. *)
BeginTransaction(t) ==
  Advance(t, "begin", "statement") /\ UNCHANGED <<exec_result, in_flight, committed, effects>>

(* What the functions of the statement of thread t may change: with COMMIT, *)
(* or at once whatever becomes of the transaction (a sequence's value).     *)
Effects(t) ==
  IF HasEffects(exec_sql[t]) THEN {[tag |-> exec_tag[t], sql |-> exec_sql[t]]} ELSE {}

(* The server may have begun to run the statement before it failed. *)
MayHaveRun(t) ==
  \/ UNCHANGED effects
  \/ exec_pc[t] = "statement" /\ effects' = effects \cup Effects(t)

(* Fault: the result is returned without commit(). *)
RunStatementOnly(t) ==
  /\ Advance(t, "statement", "returned")
  /\ \E result \in
       IF Writes(exec_sql[t])
       THEN {[failure("Ok") EXCEPT !.affected_rows = n] : n \in AffectedCounts}
       ELSE {translate(answer) : answer \in QueryAnswers(exec_sql[t].statements[1])} :
       exec_result' = [exec_result EXCEPT ![t] = result]
  /\ effects' = effects \cup Effects(t)
  /\ UNCHANGED <<in_flight, committed>>

(* transaction.exec(sql) and translate(result). *)
RunStatement(t) ==
  /\ Advance(t, "statement", "commit")
  /\ \E result \in
       IF Writes(exec_sql[t])
       THEN {[failure("Ok") EXCEPT !.affected_rows = n] : n \in AffectedCounts}
       ELSE {translate(answer) : answer \in QueryAnswers(exec_sql[t].statements[1])} :
       exec_result' = [exec_result EXCEPT ![t] = result]
  /\ effects' = effects \cup Effects(t)
  /\ UNCHANGED <<in_flight, committed>>

(* What the open transaction of thread t would add. *)
Changes(t) ==
  IF Writes(exec_sql[t])
  THEN <<[tag |-> exec_tag[t], sql |-> exec_sql[t],
          affected_rows |-> exec_result[t].affected_rows]>>
  ELSE <<>>

SendCommit(t) ==
  Advance(t, "commit", "committing") /\ UNCHANGED <<exec_result, in_flight, committed, effects>>

ServerCommits(t) ==
  /\ Advance(t, "committing", "committed")
  /\ committed' = committed \o Changes(t)
  /\ UNCHANGED <<exec_result, in_flight, effects>>

(* commit() returns; only this path returns the result. *)
CommitAcknowledged(t) ==
  /\ exec_pc[t] = "committed"
  /\ ExecReturns(t, exec_result[t])
  /\ UNCHANGED <<in_flight, committed, effects>>

(* Fault: a broken connection is tried again without an end. *)
LoseConnectionAndRetry(t) ==
  /\ exec_pc[t] \in {"connect", "begin", "statement"}
  /\ exec_pc' = [exec_pc EXCEPT ![t] = "connect"]
  /\ UNCHANGED <<exec_sql, exec_tag, exec_result, in_flight, committed, effects>>

(* broken_connection: before COMMIT the server rolls the transaction back. *)
LoseConnection(t) ==
  /\ exec_pc[t] \in {"connect", "begin", "statement"}
  /\ ExecReturns(t, failure("ConnectionFailure"))
  /\ MayHaveRun(t)
  /\ UNCHANGED <<in_flight, committed>>

(* sql_error (refused, timed out, commit rejected), another pqxx::failure,  *)
(* or any other exception; an uncommitted transaction aborts on unwind.     *)
FailExecution(t) ==
  /\ exec_pc[t] \in {"connect", "begin", "statement", "commit", "committing"}
  /\ ExecReturns(t, failure("ExecutionFailure"))
  /\ MayHaveRun(t)
  /\ UNCHANGED <<in_flight, committed>>

(* The COMMIT of thread t is with the server and nobody waits for it.       *)
Orphaned(t) == {Changes(t)[i] : i \in DOMAIN Changes(t)}

(* Fault: a lost answer to COMMIT is reported as a broken connection. *)
CommitInDoubtAsBroken(t) ==
  /\ exec_pc[t] \in {"committing", "committed"}
  /\ ExecReturns(t, failure("ConnectionFailure"))
  /\ in_flight' = IF exec_pc[t] = "committing" THEN in_flight \cup Orphaned(t) ELSE in_flight
  /\ UNCHANGED <<committed, effects>>

(* in_doubt_error: the answer to COMMIT is lost.  The server has committed, *)
(* will commit later, or never got the message (FailExecution).             *)
CommitInDoubt(t) ==
  /\ exec_pc[t] \in {"committing", "committed"}
  /\ ExecReturns(t, failure("ExecutionFailure"))
  /\ in_flight' = IF exec_pc[t] = "committing" THEN in_flight \cup Orphaned(t) ELSE in_flight
  /\ UNCHANGED <<committed, effects>>

(* The caller has the answer; the locals of the call are gone. *)
TakeExecution(t) ==
  /\ exec_pc[t] = "returned"
  /\ exec_pc' = [exec_pc EXCEPT ![t] = "idle"]
  /\ exec_sql' = [exec_sql EXCEPT ![t] = BlankSql]
  /\ exec_tag' = [exec_tag EXCEPT ![t] = NoTag]
  /\ exec_result' = [exec_result EXCEPT ![t] = NoExecution]
  /\ UNCHANGED <<in_flight, committed, effects>>

(* The server carries out a COMMIT whose client is gone. *)
LateCommit ==
  /\ \E change \in in_flight :
       /\ committed' = Append(committed, change)
       /\ in_flight' = in_flight \ {change}
  /\ UNCHANGED <<exec_pc, exec_sql, exec_tag, exec_result, effects>>

ExecuteStep(t) ==
  \/ Connect(t) \/ BeginTransaction(t) \/ RunStatement(t)
  \/ SendCommit(t) \/ ServerCommits(t) \/ CommitAcknowledged(t)
  \/ LoseConnection(t) \/ FailExecution(t) \/ CommitInDoubt(t)

(* The process dies: open transactions are rolled back, a COMMIT under way  *)
(* may still be carried out, and a statement may have been run.             *)
ExecRestart ==
  /\ exec_pc' = [t \in Threads |-> "idle"]
  /\ exec_sql' = [t \in Threads |-> BlankSql]
  /\ exec_tag' = [t \in Threads |-> NoTag]
  /\ exec_result' = [t \in Threads |-> NoExecution]
  /\ \E S \in SUBSET {t \in Threads : exec_pc[t] = "committing"} :
       in_flight' = in_flight \cup UNION {Orphaned(t) : t \in S}
  /\ \E S \in SUBSET {t \in Threads : exec_pc[t] = "statement"} :
       effects' = effects \cup UNION {Effects(t) : t \in S}
  /\ UNCHANGED committed
=============================================================================

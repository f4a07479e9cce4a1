-------------------------- MODULE RequestProcessing --------------------------
(***************************************************************************)
(* The sequential part of core/proxy_service.cpp: what ProxyService::      *)
(* process() makes of an analysis and of an execution result.  Every path  *)
(* yields both the client's ServiceResult and the audit record; an         *)
(* exception on the way is caught once, in handle(), and becomes           *)
(* InternalError with an InternalFailure record.                           *)
(***************************************************************************)
EXTENDS PolicyEngine, DataClassifier, PiiMasker, AuditRecord

ServiceFailures ==
  {"EmptyInput", "UnparseableSql", "PolicyRejected", "DatabaseUnavailable", "QueryFailed",
   "MaskingRefused", "InternalError"}

Rows(column_names, rows) ==
  [kind |-> "rows", column_names |-> column_names, rows |-> rows]
Written(affected_rows) == [kind |-> "write", affected_rows |-> affected_rows]
Failure(reason) == [kind |-> "failure", reason |-> reason]

succeeded(result) == result.kind # "failure"

InternalProcessing(tag) ==
  [result |-> Failure("InternalError"), record |-> internal_failure(tag)]

(* A factory that throws unwinds process() into the catch of handle(). *)
Processing(tag, result, record) ==
  IF record = Throws THEN InternalProcessing(tag) ELSE [result |-> result, record |-> record]

(* A count that is no size_t throws. *)
checked_count(value) == value \in Nat

(* Fault: every script that is not one statement counts as empty. *)
client_failure_for_count(reason) ==
  IF reason \in {"EmptyInput", "MultipleStatements"} THEN "EmptyInput" ELSE "PolicyRejected"

client_failure_for(reason) ==
  IF reason = "EmptyInput" THEN "EmptyInput" ELSE "PolicyRejected"

(* process() when the policy does not allow the statement. *)
ProcessDenied(tag, analysis, decision) ==
  IF decision.reason = "UnparseableSql"
  THEN Processing(tag, Failure("UnparseableSql"), parsing_failure(tag))
  ELSE Processing(tag, Failure(client_failure_for(decision.reason)),
                  policy_rejected(tag, PolicyRejectedDetails(decision.reason,
                                                             analysis.statement_type,
                                                             analysis.statement_count),
                                  analysis.tables))

(* process() when the executor did not answer Ok. *)
ProcessFailed(tag, analysis, status) ==
  Processing(tag,
             Failure(IF status = "ConnectionFailure" THEN "DatabaseUnavailable"
                                                     ELSE "QueryFailed"),
             database_failure(tag, DatabaseFailureDetails(status, analysis.statement_type),
                              analysis.tables))

(* Fault: the record is made before the count is checked. *)
ProcessWrittenRecordFirst(tag, analysis, affected_rows) ==
  Processing(tag,
             IF affected_rows = 1 THEN Written(affected_rows) ELSE Failure("InternalError"),
             write_success(tag, WriteSuccessDetails(analysis.statement_type, affected_rows),
                           analysis.tables))

(* process() after an authorized write. *)
ProcessWritten(tag, analysis, affected_rows) ==
  IF ~checked_count(affected_rows) \/ affected_rows # 1
  THEN InternalProcessing(tag)
  ELSE Processing(tag, Written(affected_rows),
                  write_success(tag, WriteSuccessDetails(analysis.statement_type,
                                                         affected_rows),
                                analysis.tables))

summarize(classification) ==
  [category \in {"Email", "Phone", "CreditCard"} |->
     Cardinality({i \in DOMAIN classification.columns :
                    classification.columns[i] = pii(category)})]

to_masked_result(execution, masked) ==
  Rows([i \in DOMAIN execution.columns |-> execution.columns[i].name], masked.rows)

(* process() after an authorized query: classify, mask, report. *)
ProcessRead(tag, analysis, execution) ==
  LET classification == classify(analysis, execution.columns)
      masked == mask(execution, classification)
      column_count == Len(execution.columns)
  IN  IF ~checked_count(execution.row_count) THEN InternalProcessing(tag)
      ELSE IF masked.masked
      THEN Processing(tag, to_masked_result(execution, masked),
                      success(tag, SuccessDetails(analysis.statement_type,
                                                  execution.row_count, column_count,
                                                  summarize(classification)),
                              analysis.tables))
      ELSE IF masked.reason = "UnattributedColumn"
      THEN Processing(tag, Failure("MaskingRefused"),
                      masking_refused(tag, MaskingRefusedDetails(analysis.statement_type,
                                                                 column_count),
                                      analysis.tables))
      ELSE InternalProcessing(tag)

(* process() from the point where the executor has answered. *)
ProcessExecuted(tag, analysis, execution) ==
  IF execution.status # "Ok" THEN ProcessFailed(tag, analysis, execution.status)
  ELSE IF analysis.statement_type = "Insert"
  THEN ProcessWritten(tag, analysis, execution.affected_rows)
  ELSE ProcessRead(tag, analysis, execution)
==============================================================================

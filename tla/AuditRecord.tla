----------------------------- MODULE AuditRecord -----------------------------
(***************************************************************************)
(* core/audit_record.cpp: the per-outcome factories and what they refuse,  *)
(* and the all-or-nothing rule for the referenced table names.  A factory  *)
(* that throws yields Throws.  The tag stands for the request: which start *)
(* of the process served it, and its request_id there.                     *)
(***************************************************************************)
EXTENDS SqlVocabulary

CONSTANTS kMaxReferencedTables, kMaxTableNameLength

ASSUME AuditLimitsAssumption ==
  kMaxReferencedTables \in Nat /\ kMaxTableNameLength \in Nat

AuditOutcomes ==
  {"Success", "ParsingFailure", "PolicyRejected", "DatabaseFailure", "MaskingRefused",
   "InternalFailure"}

AuditTableMetadata(state, tables) == [state |-> state, tables |-> tables]

(* What a record tells besides its outcome.  Columns are counted, not cells. *)
SuccessDetails(type, row_count, column_count, summary) ==
  [statement_type |-> type, row_count |-> row_count, column_count |-> column_count,
   pii |-> summary]
WriteSuccessDetails(type, affected_rows) ==
  [statement_type |-> type, affected_rows |-> affected_rows]
PolicyRejectedDetails(reason, type, statement_count) ==
  [reason |-> reason, statement_type |-> type, statement_count |-> statement_count]
DatabaseFailureDetails(category, type) == [category |-> category, statement_type |-> type]
MaskingRefusedDetails(type, column_count) ==
  [statement_type |-> type, column_count |-> column_count]

(* A plain unqualified identifier of at most 63 bytes. *)
is_valid_table_name(name) ==
  /\ Len(name) = 1
  /\ Lexicon[name[1]].plain
  /\ Lexicon[name[1]].length \in 1 .. kMaxTableNameLength

(* Fault: the invalid names are left out and the others kept. *)
classify_tables_filtering(names) ==
  AuditTableMetadata(IF names = <<>> THEN "Absent" ELSE "Present",
                     SelectSeq(names, is_valid_table_name))

classify_tables(names) ==
  IF names = <<>> THEN AuditTableMetadata("Absent", <<>>)
  ELSE IF \/ Len(names) > kMaxReferencedTables
          \/ \E i \in DOMAIN names : ~is_valid_table_name(names[i])
  THEN AuditTableMetadata("Omitted", <<>>)
  ELSE AuditTableMetadata("Present", names)

Record(tag, outcome, details, tables) ==
  [tag |-> tag, outcome |-> outcome, details |-> details,
   referenced_tables |-> classify_tables(tables)]

Throws == [outcome |-> "throws"]
Requiring(condition, record) == IF condition THEN record ELSE Throws

success(tag, details, tables) ==
  Requiring(details.statement_type = "Select", Record(tag, "Success", details, tables))

write_success(tag, details, tables) ==
  Requiring(details.statement_type = "Insert", Record(tag, "Success", details, tables))

parsing_failure(tag) == Record(tag, "ParsingFailure", <<>>, <<>>)

policy_rejected(tag, details, tables) ==
  Requiring(details.reason \notin {"None", "NotEvaluated", "UnparseableSql"},
            Record(tag, "PolicyRejected", details, tables))

database_failure(tag, details, tables) ==
  Requiring(details.statement_type \in {"Select", "Insert"},
            Record(tag, "DatabaseFailure", details, tables))

masking_refused(tag, details, tables) ==
  Requiring(details.statement_type = "Select",
            Record(tag, "MaskingRefused", details, tables))

internal_failure(tag) == Record(tag, "InternalFailure", <<>>, <<>>)
==============================================================================

---------------------------- MODULE PolicyEngine ----------------------------
(***************************************************************************)
(* core/policy_engine.cpp: the single decision point, rules R1 to R11 in   *)
(* the order the code tries them; the first rule that applies decides.     *)
(***************************************************************************)
EXTENDS SqlAnalyzer

RejectReasons ==
  {"EmptyInput", "UnparseableSql", "MultipleStatements", "UnsupportedStatementType",
   "UnsupportedSqlFeature", "DdlNotAllowed", "DmlNotAllowed", "SystemTableAccess",
   "UnattributableProjection", "InsertTargetNotAllowed", "UnsupportedInsertShape"}

(* The schema is what precedes the first dot, the table all that follows. *)
is_system_table(entry) ==
  LET lowered == ascii_lower(entry)
      qualified == Len(lowered) > 1
  IN  \/ qualified /\ lowered[1] \in {"pg_catalog", "information_schema"}
      \/ Lexicon[lowered[IF qualified THEN 2 ELSE 1]].pg

kInsertTargetTable == <<"orders">>

(* Fault: only a VALUES list is looked at, and a SELECT has none. *)
is_allowed_order_insert_by_values(a) ==
  /\ a.unsupported_features = <<>>
  /\ a.affected_columns = << <<"customer_id">>, <<"amount">> >>
  /\ \A i \in DOMAIN a.insert_value_kinds :
       a.insert_value_kinds[i] \in {"PositiveIntegerLiteral", "PositiveDecimalLiteral"}

is_allowed_order_insert(a) ==
  /\ a.unsupported_features = <<>>
  /\ a.insert_source = "Values"
  /\ a.affected_columns = << <<"customer_id">>, <<"amount">> >>
  /\ Len(a.insert_value_kinds) = 2
  /\ a.insert_value_kinds[1] = "PositiveIntegerLiteral"
  /\ a.insert_value_kinds[2] \in {"PositiveIntegerLiteral", "PositiveDecimalLiteral"}

(* Fault: the schema is ignored. *)
targets_insert_table_of_any_schema(a) ==
  Len(a.tables) = 1 /\ <<a.tables[1][Len(a.tables[1])]>> = kInsertTargetTable

targets_insert_table(a) == a.tables = <<kInsertTargetTable>>

reject(reason) == [allowed |-> FALSE, reason |-> reason]
allow == [allowed |-> TRUE, reason |-> "None"]

Rule(number, applies, reason) ==
  IF applies THEN {[number |-> number, reason |-> reason]} ELSE {}

(* The rules that apply; the code returns at the first of them. *)
Applicable(a) ==
  LET insert == a.statement_class = "Dml" /\ a.statement_type = "Insert"
      select == a.statement_class = "Select"
  IN  Rule(1, a.status = "EmptyInput", "EmptyInput")
        \cup Rule(2, a.status = "ParseError", "UnparseableSql")
        \cup Rule(3, a.status = "MultipleStatements", "MultipleStatements")
        \cup Rule(4, a.statement_count # 1, "MultipleStatements")
        \cup Rule(5, a.statement_class = "Unknown", "UnsupportedStatementType")
        \cup Rule(6, a.statement_class = "Ddl", "DdlNotAllowed")
        \cup Rule(7, a.statement_class = "Dml" /\ ~insert, "DmlNotAllowed")
        \cup Rule(8, insert /\ ~targets_insert_table(a), "InsertTargetNotAllowed")
        \cup Rule(9, insert /\ ~is_allowed_order_insert(a), "UnsupportedInsertShape")
        \cup Rule(10, select /\ a.unsupported_features # <<>>, "UnsupportedSqlFeature")
        \cup Rule(11, select /\ \E i \in DOMAIN a.tables : is_system_table(a.tables[i]),
                 "SystemTableAccess")
        \cup Rule(12, select /\ a.has_wildcard_projection /\ a.projection_columns # <<>>,
                 "UnattributableProjection")

evaluate(a) ==
  LET rules == Applicable(a)
      first == CHOOSE rule \in rules : \A other \in rules : rule.number <= other.number
  IN  IF rules = {} THEN allow ELSE reject(first.reason)
=============================================================================

----------------------------- MODULE SqlAnalyzer -----------------------------
(***************************************************************************)
(* core/sql_analyzer.cpp: one SqlAnalysis per request text, from what the  *)
(* parser port answers.                                                    *)
(***************************************************************************)
EXTENDS HyriseSqlParser

(* The default-constructed SqlAnalysis: it reads as unanalyzable. *)
NoAnalysis ==
  [status |-> "ParseError", statement_type |-> "Unknown", statement_class |-> "Unknown",
   statement_count |-> 0, tables |-> <<>>, projection_columns |-> <<>>,
   has_wildcard_projection |-> FALSE, has_computed_projection |-> FALSE,
   has_safe_count_star_projection |-> FALSE, has_group_by |-> FALSE,
   affected_columns |-> <<>>, insert_source |-> "None", insert_value_kinds |-> <<>>,
   unsupported_features |-> <<>>]

is_blank(sql) == sql.text = "blank"

qualified_name(table) == table.schema \o table.name

(* Each qualified name once, where it was first seen. *)
normalized_tables(tables) ==
  LET names == [i \in DOMAIN tables |-> qualified_name(tables[i])]
      first == {i \in DOMAIN names : \A j \in 1 .. i - 1 : names[j] # names[i]}
      place(i) == Cardinality(first \cap (1 .. i))
  IN  [k \in 1 .. Cardinality(first) |-> names[CHOOSE i \in first : place(i) = k]]

(* The facts of the one statement, copied over. *)
Analyzed(statement) ==
  [NoAnalysis EXCEPT
     !.status = "Ok",
     !.statement_count = 1,
     !.statement_type = statement.type,
     !.statement_class = statement_class_of(statement.type),
     !.tables = normalized_tables(statement.tables),
     !.projection_columns = statement.projection_columns,
     !.has_wildcard_projection = statement.has_wildcard_projection,
     !.has_computed_projection = statement.has_computed_projection,
     !.has_safe_count_star_projection = statement.has_safe_count_star_projection,
     !.has_group_by = statement.has_group_by,
     !.affected_columns = statement.affected_columns,
     !.insert_source = statement.insert_source,
     !.insert_value_kinds = statement.insert_value_kinds,
     !.unsupported_features = statement.unsupported_features]

(* analyze() from the point where the parser has answered. *)
AnalysisOf(parsed) ==
  LET n == Len(parsed.statements)
  IN  CASE ~parsed.success \/ n = 0 -> [NoAnalysis EXCEPT !.statement_count = n]
        [] parsed.success /\ n > 1 ->
             [NoAnalysis EXCEPT !.status = "MultipleStatements", !.statement_count = n]
        [] parsed.success /\ n = 1 -> Analyzed(parsed.statements[1])

(* Blank text never reaches the parser. *)
analyze(sql) ==
  IF is_blank(sql) THEN [NoAnalysis EXCEPT !.status = "EmptyInput"]
                   ELSE AnalysisOf(parse(sql))
==============================================================================

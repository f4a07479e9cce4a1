--------------------------- MODULE HyriseSqlParser ---------------------------
(***************************************************************************)
(* parser/hyrise_sql_parser.cpp: the syntax facts of each statement, read  *)
(* off the AST of the hyrise parser.  The AST constructors stand for that  *)
(* library.  Joins and cross products only nest table references that are  *)
(* visited left to right, so a FROM clause is the sequence of its leaves.  *)
(***************************************************************************)
EXTENDS SqlVocabulary, SequencesExt

Expr(type, table, name, alias, args) ==
  [type |-> type, table |-> table, name |-> name, alias |-> alias, args |-> args,
   distinct |-> FALSE, window |-> FALSE, positive |-> FALSE]
Star == Expr("kExprStar", <<>>, <<>>, <<>>, <<>>)
StarOf(table) == [Star EXCEPT !.table = <<table>>]
Column(table, name, alias) == Expr("kExprColumnRef", table, name, alias, <<>>)
Call(name, args, alias) == Expr("kExprFunctionRef", <<>>, name, alias, args)
Literal(type, positive) == [Expr(type, <<>>, <<>>, <<>>, <<>>) EXCEPT !.positive = positive]

(* A table reference may be given an alias, and its columns other names.    *)
TableRef(type, schema, name) ==
  [type |-> type, schema |-> schema, name |-> name, alias |-> <<>>, columns |-> <<>>]
TableName(schema, name) == TableRef("kTableName", schema, name)
TableSelect == TableRef("kTableSelect", <<>>, <<>>)
Aliased(leaf, alias, columns) == [leaf EXCEPT !.alias = <<alias>>, !.columns = columns]

(* effects: whether a function it calls, anywhere, changes the database.    *)
Statement(type) ==
  [type |-> type, from |-> <<>>, list |-> <<>>, group_by |-> FALSE, with |-> FALSE,
   set_operation |-> FALSE, has_columns |-> TRUE, columns |-> <<>>,
   kind |-> "plain", values |-> <<>>, effects |-> "none"]

(* At most one word. *)
Optional == {<<>>} \cup {<<w>> : w \in DOMAIN Lexicon}

(* Table references as the grammar makes them: a name, perhaps qualified,   *)
(* perhaps with an alias and names for its columns.                         *)
TableNames ==
  [type : {"kTableName"}, schema : Optional, name : {<<w>> : w \in DOMAIN Lexicon},
   alias : Optional, columns : Seq(DOMAIN Lexicon)]

(* The table an INSERT names has no alias. *)
InsertTargets == {TableName(schema, <<w>>) : schema \in Optional, w \in DOMAIN Lexicon}

IsColumn(e) == e.type = "kExprColumnRef"
IsNumber(e) == e.type \in {"kExprLiteralInt", "kExprLiteralFloat"}

(* Expressions as the grammar makes them: a star has no arguments, a column *)
(* has a name, either may be qualified, and only a numeric literal is       *)
(* positive.                                                                *)
IsExpr(e) ==
  /\ e.args \in Seq(Range(e.args))
  /\ e.table \in Optional
  /\ e.type = "kExprStar" => e.args = <<>>
  /\ e.positive => IsNumber(e)
  /\ IsColumn(e) => \E w \in DOMAIN Lexicon : e.name = <<w>>

(* A SELECT: table references or subqueries, and a list of expressions. *)
IsQuery(s) ==
  /\ s.from \in Seq(TableNames \cup {TableSelect})
  /\ s.list \in Seq(Range(s.list))
  /\ \A i \in DOMAIN s.list : IsExpr(s.list[i])

(* What the grammar makes of every script: a list of statements, and of an  *)
(* INSERT: one table, qualified or not, and a list of values; one of        *)
(* numbers alone calls no function.                                         *)
Grammatical(sql) ==
  /\ sql.statements \in Seq(Range(sql.statements))
  /\ \A i \in DOMAIN sql.statements :
       LET s == sql.statements[i]
       IN  /\ s.type = "kStmtSelect" => IsQuery(s)
           /\ s.type = "kStmtInsert" =>
                /\ s.values \in Seq(Range(s.values))
                /\ \E target \in InsertTargets : s.from = <<target>>
                /\ s.kind # "kInsertSelect" /\ (\A v \in DOMAIN s.values : IsNumber(s.values[v]))
                     => s.effects = "none"

----------------------------------------------------------------------------
(* The default-constructed ports::ParsedStatement. *)
NoFacts ==
  [type |-> "Unknown", tables |-> <<>>, projection_columns |-> <<>>,
   has_wildcard_projection |-> FALSE, has_computed_projection |-> FALSE,
   has_safe_count_star_projection |-> FALSE, has_group_by |-> FALSE,
   affected_columns |-> <<>>, insert_source |-> "None", insert_value_kinds |-> <<>>,
   unsupported_features |-> <<>>]

(* Fault: the argument of COUNT is not looked at. *)
is_count_of_anything(e) ==
  e.type = "kExprFunctionRef" /\ ascii_lower(e.name) = <<"count">>

is_count_star(e) ==
  /\ e.type = "kExprFunctionRef"
  /\ ascii_lower(e.name) = <<"count">>
  /\ ~e.distinct /\ ~e.window
  /\ Len(e.args) = 1
  /\ e.args[1].type = "kExprStar"

(* push_back, if the condition holds. *)
Note(condition, item) == IF condition THEN <<item>> ELSE <<>>

(* Table names in order of appearance, and one note per FROM subquery.      *)
(* Nothing reads the alias of a reference.                                  *)
collect_tables(leaves) ==
  LET named(leaf) == leaf.type = "kTableName"
  IN  [tables |-> FlattenSeq([i \in DOMAIN leaves |-> Note(named(leaves[i]), leaves[i])]),
       notes |-> FlattenSeq([i \in DOMAIN leaves |->
                               Note(~named(leaves[i]), "subquery in FROM")])]

(* "c.id" keeps its qualifier. *)
ProjectionColumns(list) ==
  FlattenSeq([i \in DOMAIN list |-> Note(IsColumn(list[i]), list[i].table \o list[i].name)])

translate_select(stmt) ==
  LET found == collect_tables(stmt.from)
      Has(P(_)) == \E i \in DOMAIN stmt.list : P(stmt.list[i])
  IN  [NoFacts EXCEPT
        !.type = "Select",
        !.tables = found.tables,
        !.projection_columns = ProjectionColumns(stmt.list),
        !.has_wildcard_projection = Has(LAMBDA e : e.type = "kExprStar"),
        !.has_safe_count_star_projection = Has(is_count_star),
        !.has_computed_projection =
           Has(LAMBDA e : e.type # "kExprStar" /\ ~IsColumn(e) /\ ~is_count_star(e)),
        !.has_group_by = stmt.group_by,
        !.unsupported_features =
           found.notes \o Note(stmt.with, "WITH/CTE")
             \o Note(stmt.set_operation, "set operation (UNION/INTERSECT/EXCEPT)")]

classify_insert_value(e) ==
  CASE e.type = "kExprLiteralInt" /\ e.positive -> "PositiveIntegerLiteral"
    [] e.type = "kExprLiteralFloat" /\ e.positive -> "PositiveDecimalLiteral"
    [] e.type \in {"kExprLiteralInt", "kExprLiteralFloat"} /\ ~e.positive ->
         "NonPositiveNumericLiteral"
    [] OTHER -> "Unsupported"

(* INSERT names one table; the SELECT of INSERT ... SELECT is not visited. *)
translate_insert(stmt) ==
  LET source == IF stmt.kind = "kInsertSelect" THEN "Select" ELSE "Values"
  IN  [NoFacts EXCEPT
        !.type = "Insert",
        !.tables = stmt.from,
        !.affected_columns = stmt.columns,
        !.insert_source = source,
        !.insert_value_kinds =
           IF source = "Values"
           THEN [i \in DOMAIN stmt.values |-> classify_insert_value(stmt.values[i])]
           ELSE <<>>,
        !.unsupported_features = Note(~stmt.has_columns, "INSERT without column list")]

translate_update(stmt) ==
  LET found == collect_tables(stmt.from)
  IN  [NoFacts EXCEPT !.type = "Update", !.tables = found.tables,
                      !.affected_columns = stmt.columns,
                      !.unsupported_features = found.notes]

(* DELETE (and TRUNCATE, which parses as one), ALTER. *)
translate_named(stmt, type) == [NoFacts EXCEPT !.type = type, !.tables = stmt.from]

(* CREATE and DROP of something that is no table leave a note. *)
translate_object(stmt, type, table_kind, note) ==
  [translate_named(stmt, type) EXCEPT
     !.unsupported_features = Note(stmt.kind # table_kind, note)]

translate_statement(stmt) ==
  CASE stmt.type = "kStmtSelect" -> translate_select(stmt)
    [] stmt.type = "kStmtInsert" -> translate_insert(stmt)
    [] stmt.type = "kStmtUpdate" -> translate_update(stmt)
    [] stmt.type = "kStmtDelete" -> translate_named(stmt, "Delete")
    [] stmt.type = "kStmtCreate" ->
         translate_object(stmt, "Create", "kCreateTable", "non-table CREATE")
    [] stmt.type = "kStmtDrop" ->
         translate_object(stmt, "Drop", "kDropTable", "non-table DROP")
    [] stmt.type = "kStmtAlter" -> translate_named(stmt, "Alter")
    [] OTHER -> NoFacts

(* The answer when the text is outside the grammar, or the library throws. *)
ParseFailure == [success |-> FALSE, statements |-> <<>>]

parse(sql) ==
  IF sql.text # "script"
  THEN ParseFailure
  ELSE [success |-> TRUE,
        statements |-> [i \in DOMAIN sql.statements |->
                          translate_statement(sql.statements[i])]]
==============================================================================

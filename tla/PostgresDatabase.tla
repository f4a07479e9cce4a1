-------------------------- MODULE PostgresDatabase --------------------------
(***************************************************************************)
(* What the proxy relies on of the PostgreSQL server (external): the       *)
(* columns and cells a SELECT returns and what a script changes.  WHERE is *)
(* not looked at by any component, so a query may return any subset of     *)
(* the rows; the model keeps one stored row per table, and the answer has  *)
(* it or not.  The server finds what a name stands for on its own, and an  *)
(* answer's column carries that as its origin, which the proxy never sees. *)
(***************************************************************************)
EXTENDS HyriseSqlParser

CONSTANTS Schema,       \* table |-> sequence of its column names (words)
          Stored,       \* table |-> column |-> the cell stored there
          RowFunctions  \* functions of a whole row: f(t) may be written t.f

(* The server keeps the names of columns in lower case. *)
ASSUME SchemaAssumption ==
  \A table \in DOMAIN Schema :
     Schema[table] \in Seq({w \in DOMAIN Lexicon : Lexicon[w].lower = w})

Folded(word) == Lexicon[word].lower

(* The table of a reference, and how the rest of the statement calls it. *)
TableOf(leaf) == leaf.name[Len(leaf.name)]
CalledAs(leaf) == Folded(IF leaf.alias = <<>> THEN TableOf(leaf) ELSE leaf.alias[1])

(* Where a cell comes from: a column of a reference under the name FROM     *)
(* gives it, a whole row, or a computation, of columns or of none.          *)
Origin(kind, item, column, as) == [kind |-> kind, item |-> item, column |-> column, as |-> as]
OfColumns == Origin("computed", 0, "none", "none")
OfNoColumn == Origin("value", 0, "none", "none")

(* The columns of a table reference; its alias may rename the first ones. *)
ColumnsOf(stmt, i) ==
  LET leaf == stmt.from[i]
      columns == Schema[TableOf(leaf)]
  IN  [c \in DOMAIN columns |->
         Origin("column", i, columns[c],
                IF c \in DOMAIN leaf.columns THEN Folded(leaf.columns[c]) ELSE columns[c])]

ColumnName(e) == Folded(e.name[Len(e.name)])

(* The references a qualifier means; all of them when there is none. *)
Scope(stmt, qualifier) ==
  {i \in DOMAIN stmt.from :
     qualifier # <<>> => CalledAs(stmt.from[i]) = Folded(qualifier[1])}

(* The columns a column reference may mean ...                              *)
Places(stmt, e) ==
  {column \in UNION {Range(ColumnsOf(stmt, i)) : i \in Scope(stmt, e.table)} :
     column.as = ColumnName(e)}

(* ... and, when there is none, the references whose whole row it means.    *)
RowsMeant(stmt, e) ==
  {i \in Scope(stmt, e.table) :
     IF e.table = <<>> THEN CalledAs(stmt.from[i]) = ColumnName(e)
                       ELSE ColumnName(e) \in RowFunctions}

Meanings(stmt, e) ==
  IF Places(stmt, e) # {} THEN Places(stmt, e)
  ELSE {Origin("row", i, "none", "none") : i \in RowsMeant(stmt, e)}

Meant(stmt, e) == CHOOSE origin \in Meanings(stmt, e) : TRUE

(* What is stored there; a whole row is shown as text with all its values.  *)
CellOf(stmt, origin) ==
  LET table == TableOf(stmt.from[origin.item])
      row == [c \in DOMAIN Schema[table] |-> FlattenSeq(Stored[table][Schema[table][c]])]
  IN  IF origin.kind = "column" THEN Stored[table][origin.column] ELSE <<FlattenSeq(row)>>

ColumnAnswer(name, cell, origin) == [name |-> name, cell |-> cell, origin |-> origin]

Label(e, default) == IF e.alias # <<>> THEN e.alias ELSE default

(* A computed column carries what it reads: the cell of its first column    *)
(* argument, or a value of no column.                                       *)
ComputedAnswer(stmt, e) ==
  LET read == {j \in DOMAIN e.args : IsColumn(e.args[j])}
  IN  IF read = {}
      THEN ColumnAnswer(Label(e, <<"computed">>), << <<"1">> >>, OfNoColumn)
      ELSE ColumnAnswer(Label(e, <<"computed">>), CellOf(stmt, Meant(stmt, e.args[Min(read)])),
                        OfColumns)

(* The columns of a reference, if a star with this qualifier has them. *)
StarAnswer(stmt, e, i) ==
  LET columns == ColumnsOf(stmt, i)
  IN  IF i \in Scope(stmt, e.table)
      THEN [c \in DOMAIN columns |->
              ColumnAnswer(<<columns[c].as>>, CellOf(stmt, columns[c]), columns[c])]
      ELSE <<>>

AnswerOf(stmt, e) ==
  CASE e.type = "kExprStar" ->
         FlattenSeq([i \in DOMAIN stmt.from |-> StarAnswer(stmt, e, i)])
    [] e.type = "kExprColumnRef" ->
         <<ColumnAnswer(Label(e, <<ColumnName(e)>>), CellOf(stmt, Meant(stmt, e)),
                        Meant(stmt, e))>>
    [] OTHER -> <<ComputedAnswer(stmt, e)>>

Clear(stmt, e) == Cardinality(Meanings(stmt, e)) = 1

(* The server resolves every name to one meaning, or refuses the statement. *)
Resolves(stmt) ==
  /\ \A i \in DOMAIN stmt.from :
       LET leaf == stmt.from[i]
       IN  /\ leaf.type = "kTableName" /\ TableOf(leaf) \in DOMAIN Schema
           /\ Len(leaf.columns) <= Len(Schema[TableOf(leaf)])
           /\ \A j \in DOMAIN stmt.from : j # i => CalledAs(stmt.from[j]) # CalledAs(leaf)
  /\ \A i \in DOMAIN stmt.list :
       LET e == stmt.list[i]
       IN  /\ e.type = "kExprStar" => Scope(stmt, e.table) # {}
           /\ IsColumn(e) => Clear(stmt, e)
           /\ \A j \in DOMAIN e.args : IsColumn(e.args[j]) => Clear(stmt, e.args[j])

(* The columns of the answer to a SELECT, with cells and origins. *)
AnswerColumns(stmt) ==
  FlattenSeq([i \in DOMAIN stmt.list |-> AnswerOf(stmt, stmt.list[i])])

(* The result sets a SELECT may have: its row, or no row. *)
QueryAnswers(stmt) ==
  LET answer == AnswerColumns(stmt)
      columns == [i \in DOMAIN answer |-> [name |-> answer[i].name]]
      row == [i \in DOMAIN answer |-> answer[i].cell]
  IN  IF Resolves(stmt)
      THEN {[columns |-> columns, rows |-> rows] : rows \in {<<>>, <<row>>}}
      ELSE {}

(* Whether a statement of the script is one that changes the database. *)
Writes(sql) == \E i \in DOMAIN sql.statements : sql.statements[i].type # "kStmtSelect"

(* Whether a function its statements call changes the database, as setval() *)
(* and nextval() do; a SELECT that calls one runs like any other.           *)
HasEffects(sql) == \E i \in DOMAIN sql.statements : sql.statements[i].effects = "some"
=============================================================================

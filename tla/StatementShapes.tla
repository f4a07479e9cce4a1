--------------------------- MODULE StatementShapes ---------------------------
(***************************************************************************)
(* The pipeline over every small text: a SELECT or an INSERT is put        *)
(* together clause by clause, or another statement is taken, the text may  *)
(* repeat it, and in every state the text built so far is parsed,          *)
(* analyzed, decided, answered by the database, classified, masked and     *)
(* recorded by the operators of the other modules.                         *)
(***************************************************************************)
EXTENDS RequestProcessing, MaskedAnswers

CONSTANTS Entries,     \* expressions a select list is built from
          Leaves,      \* table references a FROM clause is built from
          Targets,     \* table references an INSERT may name
          ColumnLists, \* column lists an INSERT may have
          Values,      \* expressions a VALUES list is built from
          Others,      \* statements that are neither
          MaxEntries,  \* bound: expressions in a select list
          MaxParts,    \* bound: expressions and table references of a SELECT together
          MaxValues    \* bound: expressions in a VALUES list

(* The syntax trees of single statements over these parts; what functions   *)
(* change besides is no question asked here.                                *)
Statements ==
  [type : {"kStmtSelect", "kStmtInsert"} \cup {s.type : s \in Others},
   from : Seq(TableNames \cup {TableSelect}), list : Seq(Entries),
   group_by : BOOLEAN, with : BOOLEAN, set_operation : BOOLEAN,
   has_columns : BOOLEAN, columns : Seq(Seq(DOMAIN Lexicon)),
   kind : {"plain", "kInsertSelect"} \cup {s.kind : s \in Others}, values : Seq(Values),
   effects : {"none"}]

(* In a statement the adapter has no case for there is no reference to read. *)
ASSUME PartsAssumption ==
  /\ \A e \in Entries \cup Values : IsExpr(e)
  /\ Leaves \subseteq TableNames \cup {TableSelect}
  /\ Targets \subseteq InsertTargets
  /\ ColumnLists \subseteq Seq(Seq(DOMAIN Lexicon))
  /\ Others \subseteq Statements
  /\ \A s \in Others : /\ s.type \notin {"kStmtSelect", "kStmtInsert"}
                       /\ s.from \in Seq(TableNames)
                       /\ s.type \notin {"kStmtUpdate", "kStmtDelete", "kStmtCreate",
                                         "kStmtDrop", "kStmtAlter"} => s.from = <<>>

VARIABLES stmt,   \* the statement built so far
          more    \* the statements that follow it in the text

vars == <<stmt, more>>

text == Script(<<stmt>> \o more)
analysis == analyze(text)
decision == evaluate(analysis)
tag == [boot |-> 1, request_id |-> 1]

Init ==
  /\ more = <<>>
  /\ \/ \E e \in Entries : stmt = [Statement("kStmtSelect") EXCEPT !.list = <<e>>]
     \/ \E target \in Targets, columns \in ColumnLists, e \in Values :
          stmt = [Statement("kStmtInsert") EXCEPT
                    !.from = <<target>>, !.columns = columns, !.values = <<e>>]
     \/ stmt \in Others

AddEntry(e) ==
  /\ stmt.type = "kStmtSelect" /\ Len(stmt.list) < MaxEntries
  /\ Len(stmt.list) + Len(stmt.from) < MaxParts
  /\ stmt' = [stmt EXCEPT !.list = Append(@, e)]

AddLeaf(leaf) ==
  /\ stmt.type = "kStmtSelect"
  /\ Len(stmt.list) + Len(stmt.from) < MaxParts
  /\ stmt' = [stmt EXCEPT !.from = Append(@, leaf)]

AddGroupBy ==
  /\ stmt.type = "kStmtSelect" /\ ~stmt.group_by
  /\ stmt' = [stmt EXCEPT !.group_by = TRUE]

AddUnseenSelect ==
  /\ stmt.type = "kStmtSelect" /\ ~stmt.with /\ ~stmt.set_operation
  /\ \/ stmt' = [stmt EXCEPT !.with = TRUE]
     \/ stmt' = [stmt EXCEPT !.set_operation = TRUE]

AddValue(e) ==
  /\ stmt.type = "kStmtInsert" /\ stmt.kind = "plain" /\ Len(stmt.values) < MaxValues
  /\ stmt' = [stmt EXCEPT !.values = Append(@, e)]

DropColumnList ==
  /\ stmt.type = "kStmtInsert" /\ stmt.has_columns
  /\ stmt' = [stmt EXCEPT !.has_columns = FALSE, !.columns = <<>>]

InsertFromSelect ==
  /\ stmt.type = "kStmtInsert" /\ stmt.kind = "plain"
  /\ stmt' = [stmt EXCEPT !.kind = "kInsertSelect", !.values = <<>>]

Grow ==
  \/ \E e \in Entries : AddEntry(e)
  \/ \E leaf \in Leaves : AddLeaf(leaf)
  \/ AddGroupBy
  \/ AddUnseenSelect
  \/ \E e \in Values : AddValue(e)
  \/ DropColumnList
  \/ InsertFromSelect

(* The text goes on with what it has said before. *)
Repeat == more' = <<stmt>> /\ UNCHANGED stmt

Next == more = <<>> /\ ((Grow /\ UNCHANGED more) \/ Repeat)

Spec == Init /\ [][Next]_vars

----------------------------------------------------------------------------
IsSelect == stmt.type = "kStmtSelect"

(* What the executor may answer once the server has run the query. *)
Executions ==
  {[status |-> "Ok", columns |-> answer.columns, rows |-> answer.rows,
    row_count |-> Len(answer.rows), affected_rows |-> 0] : answer \in QueryAnswers(stmt)}

Outcomes ==
  IF ~decision.allowed THEN {ProcessDenied(tag, analysis, decision)}
  ELSE IF IsSelect THEN {ProcessExecuted(tag, analysis, x) : x \in Executions}
  ELSE {ProcessWritten(tag, analysis, 1)}

(* A statement that is answered is masked where it reads PII by the name it  *)
(* is stored under, whatever stars, aliases, qualifiers, spellings, joins    *)
(* and computed entries it mixes: those cells are masked by what the column  *)
(* holds, and cells of other columns come back untouched.                    *)
PiiReadByNameIsMasked ==
  \A x \in IF IsSelect /\ decision.allowed THEN Executions ELSE {} :
     LET result == ProcessExecuted(tag, analysis, x).result
     IN  succeeded(result) => MaskedRows(stmt, x.rows, result.rows)

(* README: "A sensitive column must not be treated as safe simply because    *)
(* its source cannot be determined."  Refuted: the classifier takes the name *)
(* a column is called by for its source, and a table's alias may change it.  *)
PiiIsReturnedMasked ==
  \A x \in IF IsSelect /\ decision.allowed THEN Executions ELSE {} :
     LET result == ProcessExecuted(tag, analysis, x).result
         answer == AnswerColumns(stmt)
         Pii(c) == answer[c].origin.kind = "column"
                     /\ CategoryOf(answer[c].origin.column) # "none"
     IN  succeeded(result) =>
           \A r \in DOMAIN x.rows, c \in DOMAIN answer :
              Pii(c) => result.rows[r][c] = Masked(answer[c].origin.column, x.rows[r][c])

(* A computed entry never comes back: what the policy lets through and the  *)
(* classifier cannot attribute is refused, not guessed.                     *)
ComputedPiiIsRefused ==
  \A outcome \in IF IsSelect THEN Outcomes ELSE {} :
     (\E i \in DOMAIN stmt.list :
        /\ ~IsColumn(stmt.list[i])
        /\ \E j \in DOMAIN stmt.list[i].args : IsColumn(stmt.list[i].args[j])) =>
     ~succeeded(outcome.result)

(* No statement makes the pipeline contradict itself: the record factories  *)
(* accept everything process() hands them, and the classifier's answer      *)
(* always passes the masker's structural checks, so InternalFailure is left *)
(* for real faults.                                                         *)
NoInternalContradiction ==
  \A outcome \in Outcomes : outcome.record.outcome # "InternalFailure"

(* What the policy lets through to the database besides a SELECT is exactly *)
(* the authorized INSERT: one unqualified orders, both columns in order, one *)
(* positive literal each, and nothing before or after it in the text.        *)
OnlyTheAuthorizedWriteIsAllowed ==
  /\ decision.allowed => more = <<>>
  /\ ~IsSelect /\ more = <<>> =>
       (decision.allowed <=>
          /\ stmt.type = "kStmtInsert" /\ stmt.kind = "plain" /\ stmt.has_columns
          /\ stmt.from = <<TableName(<<>>, <<"orders">>)>>
          /\ stmt.columns = << <<"customer_id">>, <<"amount">> >>
          /\ Len(stmt.values) = 2
          /\ \A i \in DOMAIN stmt.values : stmt.values[i].positive
          /\ stmt.values[1].type = "kExprLiteralInt")

(* The names of a FROM clause or an INSERT, qualified as written. *)
NamesIn == {leaf.schema \o leaf.name :
              leaf \in {stmt.from[i] : i \in DOMAIN stmt.from} \ {TableSelect}}

(* The trail has all the names the statement refers to, each once, or none: *)
(* one name that is qualified, too long or one too many drops them all.     *)
TableNamesAreAllOrNothing ==
  \A outcome \in IF more = <<>> THEN Outcomes ELSE {} :
     LET metadata == outcome.record.referenced_tables
         kept == {metadata.tables[i] : i \in DOMAIN metadata.tables}
     IN  /\ metadata.state = "Present" => kept = NamesIn
         /\ Len(metadata.tables) = Cardinality(kept)
         /\ metadata.state = "Present" <=>
              /\ NamesIn # {} /\ Cardinality(NamesIn) <= kMaxReferencedTables
              /\ \A name \in NamesIn :
                   Len(name) = 1 /\ Lexicon[name[1]].plain
                     /\ Lexicon[name[1]].length <= kMaxTableNameLength
==============================================================================

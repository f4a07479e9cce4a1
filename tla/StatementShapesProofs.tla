------------------------ MODULE StatementShapesProofs ------------------------
(***************************************************************************)
(* What the sequential pipeline makes of a statement, for every statement  *)
(* that can be put together from any set of expressions, tables and        *)
(* values, however long.                                                   *)
(***************************************************************************)
EXTENDS StatementShapes, RequestProcessingProofs

(* The statement is one the grammar knows, of parts that fit its type, and *)
(* the text at most repeats it.                                            *)
ShapeInv ==
  /\ stmt \in Statements
  /\ more \in {<<>>, <<stmt>>}
  /\ stmt.type = "kStmtInsert" =>
       stmt.from \in {<<target>> : target \in Targets} /\ stmt.kind \in {"plain", "kInsertSelect"}
  /\ stmt.type \notin {"kStmtSelect", "kStmtInsert"} => stmt \in Others

(* A statement stays one when a part is exchanged for a part of its kind. *)
LEMMA Exchanged ==
  ASSUME NEW s \in Statements
  PROVE  /\ \A l \in Seq(Entries) : /\ [s EXCEPT !.list = l] \in Statements
                                    /\ [s EXCEPT !.list = l].type = s.type
         /\ \A f \in Seq(TableNames \cup {TableSelect}) :
              /\ [s EXCEPT !.from = f] \in Statements
              /\ [s EXCEPT !.from = f].type = s.type
         /\ \A v \in Seq(Values) : /\ [s EXCEPT !.values = v] \in Statements
                                   /\ [s EXCEPT !.values = v].type = s.type
                                   /\ [s EXCEPT !.values = v].from = s.from
                                   /\ [s EXCEPT !.values = v].kind = s.kind
         /\ \A t : t = [s EXCEPT !.has_columns = FALSE, !.columns = <<>>] =>
              t \in Statements /\ t.type = s.type /\ t.from = s.from /\ t.kind = s.kind
         /\ \A t : t = [s EXCEPT !.kind = "kInsertSelect", !.values = <<>>] =>
              /\ t \in Statements /\ t.type = s.type /\ t.from = s.from
              /\ t.kind = "kInsertSelect"
<1> USE DEF Statements
<1>0. <<>> \in Seq(Seq(DOMAIN Lexicon)) /\ <<>> \in Seq(Values)
  OBVIOUS
<1>1. ASSUME NEW l \in Seq(Entries)
      PROVE  [s EXCEPT !.list = l] \in Statements /\ [s EXCEPT !.list = l].type = s.type
  OBVIOUS
<1>2. ASSUME NEW f \in Seq(TableNames \cup {TableSelect})
      PROVE  [s EXCEPT !.from = f] \in Statements /\ [s EXCEPT !.from = f].type = s.type
  OBVIOUS
<1>3. ASSUME NEW v \in Seq(Values)
      PROVE  /\ [s EXCEPT !.values = v] \in Statements
             /\ [s EXCEPT !.values = v].type = s.type
             /\ [s EXCEPT !.values = v].from = s.from
             /\ [s EXCEPT !.values = v].kind = s.kind
  OBVIOUS
<1>4. ASSUME NEW t, t = [s EXCEPT !.has_columns = FALSE, !.columns = <<>>]
      PROVE  t \in Statements /\ t.type = s.type /\ t.from = s.from /\ t.kind = s.kind
  BY <1>4, <1>0
<1>5. ASSUME NEW t, t = [s EXCEPT !.kind = "kInsertSelect", !.values = <<>>]
      PROVE  /\ t \in Statements /\ t.type = s.type /\ t.from = s.from
             /\ t.kind = "kInsertSelect"
  BY <1>5, <1>0
<1> QED
  BY <1>1, <1>2, <1>3, <1>4, <1>5

(* The statement the builders start from. *)
LEMMA BareSelect ==
  /\ Statement("kStmtSelect") \in Statements
  /\ Statement("kStmtSelect").type = "kStmtSelect"
<1>1. /\ <<>> \in Seq(TableNames \cup {TableSelect}) /\ <<>> \in Seq(Entries)
      /\ <<>> \in Seq(Seq(DOMAIN Lexicon)) /\ <<>> \in Seq(Values)
  OBVIOUS
<1> QED
  BY <1>1 DEF Statement, Statements

(* The table of an INSERT is a table reference. *)
LEMMA TargetsAreNames == Targets \subseteq TableNames
<1>1. <<>> \in Optional /\ <<>> \in Seq(DOMAIN Lexicon)
  BY DEF Optional
<1>2. ASSUME NEW schema \in Optional, NEW w \in DOMAIN Lexicon
      PROVE  TableName(schema, <<w>>) \in TableNames
  BY <1>1 DEF TableName, TableRef, TableNames
<1>3. Targets \subseteq InsertTargets
  BY PartsAssumption
<1>4. ASSUME NEW target \in InsertTargets PROVE target \in TableNames
  <2>1. PICK schema \in Optional, w \in DOMAIN Lexicon : target = TableName(schema, <<w>>)
    BY DEF InsertTargets
  <2> QED
    BY <1>2, <2>1
<1> QED
  BY <1>3, <1>4

(* Every text is built of grammatical statements. *)
LEMMA ShapeInit == Init => ShapeInv
<1> SUFFICES ASSUME Init PROVE ShapeInv
  OBVIOUS
<1> USE PartsAssumption
<1>0. /\ <<>> \in Seq(TableNames \cup {TableSelect}) /\ <<>> \in Seq(Entries)
      /\ <<>> \in Seq(Seq(DOMAIN Lexicon)) /\ <<>> \in Seq(Values)
  OBVIOUS
<1>1. ASSUME NEW e \in Entries, stmt = [Statement("kStmtSelect") EXCEPT !.list = <<e>>]
      PROVE  stmt \in Statements /\ stmt.type = "kStmtSelect"
  <2>1. <<e>> \in Seq(Entries)
    OBVIOUS
  <2> QED
    BY <1>1, <2>1, BareSelect, Exchanged
<1>2. ASSUME NEW target \in Targets, NEW columns \in ColumnLists, NEW e \in Values,
             stmt = [Statement("kStmtInsert") EXCEPT
                       !.from = <<target>>, !.columns = columns, !.values = <<e>>]
      PROVE  /\ stmt \in Statements /\ stmt.type = "kStmtInsert"
             /\ stmt.from = <<target>> /\ stmt.kind = "plain"
  <2>1. /\ <<target>> \in Seq(TableNames \cup {TableSelect}) /\ <<e>> \in Seq(Values)
        /\ columns \in Seq(Seq(DOMAIN Lexicon))
    BY TargetsAreNames
  <2>2. stmt = [type |-> "kStmtInsert", from |-> <<target>>, list |-> <<>>,
                group_by |-> FALSE, with |-> FALSE, set_operation |-> FALSE,
                has_columns |-> TRUE, columns |-> columns, kind |-> "plain",
                values |-> <<e>>, effects |-> "none"]
    BY <1>2 DEF Statement
  <2> QED
    BY <1>0, <2>1, <2>2 DEF Statements
<1>3. stmt \in Others => stmt \in Statements /\ stmt.type \notin {"kStmtSelect", "kStmtInsert"}
  OBVIOUS
<1> QED
  BY <1>1, <1>2, <1>3 DEF Init, ShapeInv

(* Growing a statement keeps it grammatical. *)
LEMMA ShapeNext == ShapeInv /\ [Next]_vars => ShapeInv'
<1> SUFFICES ASSUME ShapeInv, [Next]_vars PROVE ShapeInv'
  OBVIOUS
<1> USE DEF ShapeInv
<1>1. CASE UNCHANGED vars
  BY <1>1 DEF vars
<1>2. CASE more = <<>> /\ Repeat
  BY <1>2 DEF Repeat
<1>3. CASE more = <<>> /\ Grow /\ UNCHANGED more
  <2>1. ASSUME NEW e \in Entries, AddEntry(e)
        PROVE  stmt' \in Statements /\ stmt'.type = "kStmtSelect"
    <3>1. Append(stmt.list, e) \in Seq(Entries)
      BY DEF Statements
    <3> QED
      BY <2>1, <3>1, Exchanged DEF AddEntry
  <2>2. ASSUME NEW leaf \in Leaves, AddLeaf(leaf)
        PROVE  stmt' \in Statements /\ stmt'.type = "kStmtSelect"
    <3>1. Append(stmt.from, leaf) \in Seq(TableNames \cup {TableSelect})
      BY PartsAssumption DEF Statements
    <3> QED
      BY <2>2, <3>1, Exchanged DEF AddLeaf
  <2>3. AddGroupBy => stmt' \in Statements /\ stmt'.type = "kStmtSelect"
    BY DEF AddGroupBy, Statements
  <2>4. AddUnseenSelect => stmt' \in Statements /\ stmt'.type = "kStmtSelect"
    BY DEF AddUnseenSelect, Statements
  <2>5. ASSUME NEW e \in Values, AddValue(e)
        PROVE  /\ stmt' \in Statements /\ stmt'.type = "kStmtInsert"
               /\ stmt'.from = stmt.from /\ stmt'.kind = stmt.kind
    <3>1. Append(stmt.values, e) \in Seq(Values)
      BY DEF Statements
    <3> QED
      BY <2>5, <3>1, Exchanged DEF AddValue
  <2>6. DropColumnList => /\ stmt' \in Statements /\ stmt'.type = "kStmtInsert"
                          /\ stmt'.from = stmt.from /\ stmt'.kind = stmt.kind
    BY Exchanged DEF DropColumnList
  <2>7. InsertFromSelect => /\ stmt' \in Statements /\ stmt'.type = "kStmtInsert"
                            /\ stmt'.from = stmt.from /\ stmt'.kind = "kInsertSelect"
    BY Exchanged DEF InsertFromSelect
  <2>8. stmt.type = stmt'.type
    BY <1>3 DEF Grow, AddEntry, AddLeaf, AddGroupBy, AddUnseenSelect, AddValue,
                DropColumnList, InsertFromSelect, Statements
  <2>9. stmt' \in Statements /\ stmt'.type \in {"kStmtSelect", "kStmtInsert"}
    BY <1>3, <2>1, <2>2, <2>3, <2>4, <2>5, <2>6, <2>7 DEF Grow
  <2>10. stmt'.type = "kStmtInsert" => stmt'.from = stmt.from
                                       /\ stmt'.kind \in {"plain", "kInsertSelect"}
    BY <1>3, <2>1, <2>2, <2>3, <2>4, <2>5, <2>6, <2>7, <2>8 DEF Grow
  <2> QED
    BY <1>3, <2>8, <2>9, <2>10
<1> QED
  BY <1>1, <1>2, <1>3 DEF Next

(* Every text of StatementShapes is built of grammatical statements. *)
LEMMA ShapeAlways == Spec => []ShapeInv
  BY ShapeInit, ShapeNext, PTL DEF Spec

(* An INSERT built here is one the grammar makes. *)
LEMMA BuiltInserts ==
  ASSUME ShapeInv, stmt.type = "kStmtInsert"
  PROVE  InsertStatement(stmt)
<1>1. stmt.values \in Seq(Values)
  BY DEF ShapeInv, Statements
<1>2. PICK target \in Targets : stmt.from = <<target>>
  BY DEF ShapeInv
<1> QED
  BY <1>1, <1>2, PartsAssumption, OverItsRange DEF InsertStatement

(* The parts of a SELECT built here are those of a query. *)
LEMMA BuiltQueries ==
  ASSUME ShapeInv
  PROVE  IsQuery(stmt)
<1>1. stmt.list \in Seq(Entries) /\ stmt.from \in Seq(TableNames \cup {TableSelect})
  BY DEF ShapeInv, Statements
<1>2. \A q \in Seq(Entries) : \A i \in DOMAIN q : q[i] \in Entries
  OBVIOUS
<1>3. \A e \in Entries : IsExpr(e)
  BY PartsAssumption
<1> QED
  BY <1>1, <1>2, <1>3, OverItsRange DEF IsQuery

(* The text is the statement, or the statement twice. *)
LEMMA BuiltTexts ==
  ASSUME ShapeInv
  PROVE  /\ text.text = "script"
         /\ Grammatical(text)
         /\ text.statements[1] = stmt
         /\ Len(text.statements) = IF more = <<>> THEN 1 ELSE 2
<1>1. text.text = "script" /\ text.statements = <<stmt>> \o more
  BY DEF text, Script
<1>2. <<stmt>> \in Seq({stmt}) /\ Len(<<stmt>>) = 1 /\ <<stmt>> # <<>> /\ Len(<<>>) = 0
  OBVIOUS
<1>3. more \in Seq({stmt}) /\ Len(more) = IF more = <<>> THEN 0 ELSE 1
  <2>1. CASE more = <<>>
    BY <2>1
  <2>2. CASE more = <<stmt>>
    BY <1>2, <2>2
  <2> QED
    BY <2>1, <2>2 DEF ShapeInv
<1>4. /\ text.statements \in Seq({stmt})
      /\ Len(text.statements) = 1 + Len(more)
      /\ \A i \in DOMAIN text.statements : text.statements[i] = stmt
      /\ 1 \in DOMAIN text.statements
  <2>1. ASSUME NEW p \in Seq({stmt}), NEW q \in Seq({stmt}), Len(p) = 1
        PROVE  /\ p \o q \in Seq({stmt}) /\ Len(p \o q) = 1 + Len(q)
               /\ \A i \in DOMAIN (p \o q) : (p \o q)[i] = stmt
               /\ 1 \in DOMAIN (p \o q)
    <3>1. p \o q \in Seq({stmt}) /\ Len(p \o q) = Len(p) + Len(q) /\ Len(q) \in Nat
      OBVIOUS
    <3>2. \A r \in Seq({stmt}) : DOMAIN r = 1 .. Len(r) /\ \A i \in 1 .. Len(r) : r[i] \in {stmt}
      OBVIOUS
    <3> QED
      BY <2>1, <3>1, <3>2
  <2> QED
    BY <1>1, <1>2, <1>3, <2>1
<1>5. text.statements \in Seq(Range(text.statements))
  BY <1>4, OverItsRange
<1>6. Grammatical(text)
  <2>1. stmt.effects = "none"
    BY DEF ShapeInv, Statements
  <2> QED
    BY <1>4, <1>5, <2>1, BuiltQueries, BuiltInserts DEF Grammatical, InsertStatement
<1> QED
  BY <1>1, <1>3, <1>4, <1>6

(* What the policy decides of a text that says one thing only. *)
LEMMA DecisionOfOne ==
  ASSUME ShapeInv, more = <<>>
  PROVE  analysis = Analyzed(translate_statement(stmt))
BY BuiltTexts, AnalysisOfOne DEF analysis, Grammatical

(* core/policy_engine.cpp, evaluate(): besides SELECTs, the policy allows    *)
(* exactly the authorized INSERT, of all statements that can be built.       *)
THEOREM OnlyTheOrderInsert == Spec => []OnlyTheAuthorizedWriteIsAllowed
<1>1. ASSUME ShapeInv PROVE OnlyTheAuthorizedWriteIsAllowed
  <2>1. decision.allowed => more = <<>>
    BY <1>1, BuiltTexts, OnlyOneStatement DEF decision, analysis, Grammatical
  <2>2. ASSUME ~IsSelect, more = <<>>
        PROVE  decision.allowed <=>
                 /\ stmt.type = "kStmtInsert" /\ stmt.kind = "plain" /\ stmt.has_columns
                 /\ stmt.from = <<TableName(<<>>, <<"orders">>)>>
                 /\ stmt.columns = << <<"customer_id">>, <<"amount">> >>
                 /\ Len(stmt.values) = 2
                 /\ \A i \in DOMAIN stmt.values : stmt.values[i].positive
                 /\ stmt.values[1].type = "kExprLiteralInt"
    <3>1. analysis = Analyzed(translate_statement(stmt))
      BY <1>1, <2>2, DecisionOfOne
    <3>2. stmt.type # "kStmtInsert" => ~decision.allowed
      BY <2>2, <3>1, AllowedTypes DEF decision, IsSelect
    <3>3. CASE stmt.type = "kStmtInsert"
      <4>1. decision.allowed <=> AuthorizedInsert(stmt)
        BY <1>1, <3>1, <3>3, BuiltInserts, InsertDecision DEF decision
      <4>2. stmt.values \in Seq(Values)
        BY <1>1 DEF ShapeInv, Statements
      <4>3. Len(stmt.values) = 2 =>
              /\ DOMAIN stmt.values = {1, 2}
              /\ stmt.values[1] \in Values /\ stmt.values[2] \in Values
        BY <4>2
      <4>4. \A e \in Values : e.positive => e.type \in {"kExprLiteralInt", "kExprLiteralFloat"}
        BY PartsAssumption DEF IsExpr, IsNumber
      <4>5. stmt.kind = "plain" <=> stmt.kind # "kInsertSelect"
        BY <1>1, <3>3 DEF ShapeInv
      <4> QED
        BY <3>3, <4>1, <4>3, <4>4, <4>5 DEF AuthorizedInsert
    <3> QED
      BY <3>2, <3>3
  <2> QED
    BY <2>1, <2>2 DEF OnlyTheAuthorizedWriteIsAllowed
<1> QED
  BY <1>1, ShapeAlways, PTL

----------------------------------------------------------------------------
(* The analysis of a SELECT that is allowed. *)
LEMMA AllowedSelect ==
  ASSUME ShapeInv, IsSelect, decision.allowed
  PROVE  /\ analysis = Analyzed(translate_statement(stmt))
         /\ analysis.statement_type = "Select"
<1>1. more = <<>>
  BY BuiltTexts, OnlyOneStatement DEF decision, analysis, Grammatical
<1>2. analysis = Analyzed(translate_statement(stmt))
  BY <1>1, DecisionOfOne
<1> QED
  BY <1>2, SelectFacts DEF IsSelect

(* What process() makes of a query of these shapes. *)
LEMMA BuiltOutcome ==
  ASSUME ShapeInv, IsSelect, decision.allowed, NEW x \in Executions
  PROVE  LET outcome == ProcessExecuted(tag, analysis, x)
         IN  /\ IsQuery(stmt) /\ IsExecution(x, stmt)
             /\ succeeded(outcome.result) <=> Attributable(analysis, x.columns)
             /\ succeeded(outcome.result) => MaskedRows(stmt, x.rows, outcome.result.rows)
             /\ outcome.record.outcome \in {"Success", "MaskingRefused"}
             /\ outcome.record.referenced_tables = classify_tables(analysis.tables)
<1>1. PICK answer \in QueryAnswers(stmt) :
        x = [status |-> "Ok", columns |-> answer.columns, rows |-> answer.rows,
             row_count |-> Len(answer.rows), affected_rows |-> 0]
  BY DEF Executions
<1>2. IsExecution(x, stmt)
  BY <1>1 DEF IsExecution
<1>3. IsQuery(stmt) /\ analysis = Analyzed(translate_statement(stmt))
  BY BuiltQueries, AllowedSelect
<1> QED
  BY <1>2, <1>3, QueryOutcome DEF IsSelect

(* What process() makes of the authorized write. *)
LEMMA WrittenOutcome ==
  ASSUME ShapeInv, ~IsSelect, decision.allowed
  PROVE  LET outcome == ProcessWritten(tag, analysis, 1)
         IN  /\ outcome.record.outcome = "Success"
             /\ outcome.record.referenced_tables = classify_tables(analysis.tables)
<1> DEFINE outcome == ProcessWritten(tag, analysis, 1)
           details == WriteSuccessDetails(analysis.statement_type, 1)
           record == Record(tag, "Success", details, analysis.tables)
<1>1. analysis.statement_type = "Insert"
  <2>1. Grammatical(text) /\ text.statements[1] = stmt
    BY BuiltTexts
  <2> QED
    BY <2>1, AllowedTexts DEF decision, analysis, IsSelect
<1>2. write_success(tag, details, analysis.tables) = record
  BY <1>1 DEF write_success, Requiring, WriteSuccessDetails
<1>3. /\ record # Throws /\ record.outcome = "Success"
      /\ record.referenced_tables = classify_tables(analysis.tables)
  BY DEF Record, Throws
<1>4. outcome = Processing(tag, Written(1), write_success(tag, details, analysis.tables))
  BY DEF ProcessWritten, checked_count
<1> HIDE DEF record, details
<1>5. outcome = [result |-> Written(1), record |-> record]
  BY <1>2, <1>3, <1>4 DEF Processing
<1> HIDE DEF outcome
<1>6. outcome.record = record
  BY <1>5
<1> QED
  BY <1>3, <1>6 DEF outcome

(* core/proxy_service.cpp, process(): no statement that can be built makes  *)
(* a record factory throw or the masker refuse the classifier's answer as   *)
(* malformed, so InternalFailure is left for real faults.                   *)
THEOREM ThePipelineAgreesWithItself == Spec => []NoInternalContradiction
<1>1. ASSUME ShapeInv PROVE NoInternalContradiction
  <2> SUFFICES ASSUME NEW outcome \in Outcomes
               PROVE  outcome.record.outcome # "InternalFailure"
    BY DEF NoInternalContradiction
  <2>1. CASE ~decision.allowed
    <3>1. decision.reason \in RejectReasons
      BY <2>1, DeniedForAReason DEF decision
    <3>2. outcome = ProcessDenied(tag, analysis, decision)
      BY <2>1 DEF Outcomes
    <3> QED
      BY <3>1, <3>2, DeniedOutcome
  <2>2. CASE decision.allowed /\ IsSelect
    <3>1. PICK x \in Executions : outcome = ProcessExecuted(tag, analysis, x)
      BY <2>2 DEF Outcomes
    <3> QED
      BY <1>1, <2>2, <3>1, BuiltOutcome
  <2>3. CASE decision.allowed /\ ~IsSelect
    <3>1. outcome = ProcessWritten(tag, analysis, 1)
      BY <2>3 DEF Outcomes
    <3> QED
      BY <1>1, <2>3, <3>1, WrittenOutcome
  <2> QED
    BY <2>1, <2>2, <2>3
<1> QED
  BY <1>1, ShapeAlways, PTL

(* core/data_classifier.cpp, classify(), and core/pii_masker.cpp, mask(): an *)
(* answer with a computed entry that reads a column is never handed out.     *)
THEOREM ComputedEntriesAreRefused == Spec => []ComputedPiiIsRefused
<1>1. ASSUME ShapeInv, IsSelect, decision.allowed, NEW x \in Executions,
             NEW i \in DOMAIN stmt.list, ~IsColumn(stmt.list[i]),
             NEW j \in DOMAIN stmt.list[i].args, IsColumn(stmt.list[i].args[j])
      PROVE  ~Attributable(analysis, x.columns)
  <2> DEFINE e == stmt.list[i]
  <2>1. IsExpr(e)
    BY <1>1, BuiltQueries, StatementSequences
  <2>2. e.type # "kExprStar"
    <3>1. e.type = "kExprStar" => e.args = <<>>
      BY <2>1 DEF IsExpr
    <3>2. e.args # <<>>
      BY <1>1
    <3> QED
      BY <3>1, <3>2
  <2>3. ~is_count_star(e)
    <3>1. e.args \in Seq(Range(e.args))
      BY <2>1 DEF IsExpr
    <3>2. Len(e.args) = 1 => j = 1
      BY <1>1, <3>1
    <3> QED
      BY <1>1, <3>2 DEF is_count_star, IsColumn
  <2>4. analysis.has_computed_projection
    BY <1>1, <2>2, <2>3, AllowedSelect, SelectFacts DEF IsSelect
  <2>5. x.columns # <<>>
    <3>1. Resolves(stmt) /\ DOMAIN x.columns = DOMAIN AnswerColumns(stmt)
      BY <1>1, BuiltOutcome, ExecutionFacts
    <3>2. AnswerParts(stmt)[i] # <<>>
      <4>1. PICK name, cell, origin :
              AnswerOf(stmt, stmt.list[i]) = <<ColumnAnswer(name, cell, origin)>>
        BY <1>1, <2>2, <3>1, BuiltQueries, EntryAnswers
      <4>2. AnswerParts(stmt)[i] = <<ColumnAnswer(name, cell, origin)>>
        BY <1>1, <4>1 DEF AnswerParts
      <4> QED
        BY <4>2
    <3>3. /\ \E X : AnswerParts(stmt) \in Seq(Seq(X))
          /\ i \in 1 .. Len(AnswerParts(stmt))
      BY <1>1, <3>1, BuiltQueries, AnswerPartsAreSeqs, StatementSequences
    <3>4. AnswerColumns(stmt) = FlattenSeq(AnswerParts(stmt))
      BY DEF AnswerColumns, AnswerParts
    <3>5. AnswerColumns(stmt) # <<>>
      BY <3>2, <3>3, <3>4, FlattenKeepsParts
    <3>6. /\ DOMAIN AnswerColumns(stmt) = 1 .. Len(AnswerColumns(stmt))
          /\ Len(AnswerColumns(stmt)) \in Nat
          /\ IsSeq(AnswerColumns(stmt))
      BY <1>1, <3>1, BuiltQueries, AnswerIsSeq
    <3>7. Len(AnswerColumns(stmt)) # 0
      BY <3>5, <3>6, EmptySeq DEF IsSeq
    <3>8. 1 \in DOMAIN AnswerColumns(stmt)
      BY <3>6, <3>7
    <3> QED
      BY <3>1, <3>8
  <2> QED
    BY <2>4, <2>5 DEF Attributable, count_star_only_shape, positional_shape, wildcard_shape
<1>2. ASSUME ShapeInv PROVE ComputedPiiIsRefused
  <2> SUFFICES ASSUME IsSelect, NEW outcome \in Outcomes,
                      NEW i \in DOMAIN stmt.list, ~IsColumn(stmt.list[i]),
                      NEW j \in DOMAIN stmt.list[i].args, IsColumn(stmt.list[i].args[j])
               PROVE  ~succeeded(outcome.result)
    BY DEF ComputedPiiIsRefused
  <2>1. CASE ~decision.allowed
    <3>1. decision.reason \in RejectReasons
      BY <2>1, DeniedForAReason DEF decision
    <3>2. outcome = ProcessDenied(tag, analysis, decision)
      BY <2>1 DEF Outcomes
    <3> QED
      BY <3>1, <3>2, DeniedOutcome
  <2>2. CASE decision.allowed
    <3>1. PICK x \in Executions : outcome = ProcessExecuted(tag, analysis, x)
      BY <2>2 DEF Outcomes
    <3>2. ~Attributable(analysis, x.columns)
      BY <1>1, <1>2, <2>2
    <3> QED
      BY <1>2, <2>2, <3>1, <3>2, BuiltOutcome
  <2> QED
    BY <2>1, <2>2
<1> QED
  BY <1>2, ShapeAlways, PTL

(* core/data_classifier.cpp and core/pii_masker.cpp: of an answer that is     *)
(* handed out, the columns the server read by the names they are stored under *)
(* are masked by what they hold or left alone, through whatever stars,        *)
(* aliases, qualifiers, spellings, joins and counts; columns renamed in FROM  *)
(* and whole rows come masked by some category or raw, and nothing computed   *)
(* from a column comes at all.                                                *)
THEOREM PiiReadByNameLeavesMasked == Spec => []PiiReadByNameIsMasked
<1>1. ASSUME ShapeInv PROVE PiiReadByNameIsMasked
  BY <1>1, BuiltOutcome DEF PiiReadByNameIsMasked
<1> QED
  BY <1>1, ShapeAlways, PTL

----------------------------------------------------------------------------
(* The names in the trail. *)

(* collect_tables() keeps the tables with a name, and only them. *)
LEMMA CollectedTables ==
  ASSUME NEW from \in Seq(TableNames \cup {TableSelect})
  PROVE  LET tables == collect_tables(from).tables
         IN  /\ tables \in Seq(TableNames)
             /\ \A leaf : Holds(tables, leaf) <=> Holds(from, leaf) /\ leaf # TableSelect
<1> DEFINE parts == [i \in DOMAIN from |-> Note(from[i].type = "kTableName", from[i])]
           n == Len(from)
<1>1. /\ n \in Nat
      /\ DOMAIN from = 1 .. n
      /\ \A i \in 1 .. n : from[i] \in TableNames \cup {TableSelect}
  OBVIOUS
<1>2. collect_tables(from).tables = FlattenSeq(parts)
  BY DEF collect_tables
<1>3. TableSelect.type # "kTableName" /\ \A leaf \in TableNames : leaf.type = "kTableName"
  BY DEF TableSelect, TableRef, TableNames
<1>4. ASSUME NEW i \in 1 .. n
      PROVE  parts[i] = IF from[i] = TableSelect THEN <<>> ELSE <<from[i]>>
  BY <1>1, <1>3 DEF Note
<1>5. \A leaf \in TableNames : <<leaf>> \in Seq(TableNames) /\ <<>> \in Seq(TableNames)
  OBVIOUS
<1>6. <<>> \in Seq(TableNames)
  OBVIOUS
<1>7. parts \in [1 .. n -> Seq(TableNames)]
  <2>1. \A i \in 1 .. n : parts[i] \in Seq(TableNames)
    BY <1>1, <1>4, <1>5, <1>6
  <2>2. parts = [i \in 1 .. n |-> parts[i]]
    BY <1>1
  <2> HIDE DEF parts, n
  <2> QED
    BY <2>1, <2>2
<1> HIDE DEF parts
<1>8. parts \in Seq(Seq(TableNames)) /\ Len(parts) = n
  <2>1. parts \in Seq(Seq(TableNames))
    BY <1>1, <1>7, SeqDef
  <2>2. DOMAIN parts = 1 .. n
    BY <1>7
  <2> QED
    BY <1>1, <2>1, <2>2
<1>9. FlattenSeq(parts) \in Seq(TableNames)
  BY <1>8, FlattenType
<1>10. ASSUME NEW leaf
       PROVE  Holds(FlattenSeq(parts), leaf) <=> Holds(from, leaf) /\ leaf # TableSelect
  <2>1. Holds(FlattenSeq(parts), leaf) <=> \E i \in 1 .. n : Holds(parts[i], leaf)
    BY <1>8, FlattenHolds
  <2>2. ASSUME NEW x PROVE /\ Holds(<<x>>, leaf) <=> x = leaf
                           /\ ~Holds(<<>>, leaf)
    BY DEF Holds
  <2>3. \A i \in 1 .. n : Holds(parts[i], leaf) <=> from[i] = leaf /\ from[i] # TableSelect
    BY <1>4, <2>2
  <2> QED
    BY <2>1, <2>3 DEF Holds, n
<1> QED
  BY <1>2, <1>9, <1>10

(* The tables the adapter finds are the ones the statement names. *)
LEMMA FoundTables ==
  ASSUME ShapeInv
  PROVE  LET tables == translate_statement(stmt).tables
         IN  /\ tables \in Seq(TableNames)
             /\ \A leaf : Holds(tables, leaf) <=> Holds(stmt.from, leaf) /\ leaf # TableSelect
<1> DEFINE f == translate_statement(stmt)
<1>1. stmt.from \in Seq(TableNames \cup {TableSelect})
  BY DEF ShapeInv, Statements
<1>2. TableSelect \notin TableNames
  BY DEF TableSelect, TableRef, TableNames
<1>3. ASSUME stmt.from \in Seq(TableNames)
      PROVE  \A leaf : Holds(stmt.from, leaf) => leaf # TableSelect
  <2>1. \A i \in 1 .. Len(stmt.from) : stmt.from[i] \in TableNames
    BY <1>3
  <2> QED
    BY <1>2, <2>1 DEF Holds
<1>4. CASE stmt.type \in {"kStmtSelect", "kStmtUpdate"}
  <2>1. /\ translate_select(stmt).tables = collect_tables(stmt.from).tables
        /\ translate_update(stmt).tables = collect_tables(stmt.from).tables
    BY DEF translate_select, translate_update, NoFacts
  <2>2. f.tables = collect_tables(stmt.from).tables
    BY <1>4, <2>1 DEF translate_statement
  <2> QED
    BY <1>1, <2>2, CollectedTables
<1>5. CASE stmt.type \notin {"kStmtSelect", "kStmtUpdate"}
  <2>1. stmt.from \in Seq(TableNames)
    <3>1. CASE stmt.type = "kStmtInsert"
      <4>1. PICK target \in Targets : stmt.from = <<target>>
        BY <3>1 DEF ShapeInv
      <4>2. target \in TableNames
        BY TargetsAreNames
      <4> QED
        BY <4>1, <4>2
    <3>2. CASE stmt.type # "kStmtInsert"
      BY <1>5, <3>2, PartsAssumption DEF ShapeInv
    <3> QED
      BY <3>1, <3>2
  <2>2. /\ translate_insert(stmt).tables = stmt.from
        /\ \A type : translate_named(stmt, type).tables = stmt.from
        /\ NoFacts.tables = <<>>
    BY DEF translate_insert, translate_named, NoFacts
  <2>3. \A type, kind, note : translate_object(stmt, type, kind, note).tables = stmt.from
    BY DEF translate_object, translate_named, NoFacts
  <2>4. stmt.type \notin {"kStmtInsert", "kStmtDelete", "kStmtCreate", "kStmtDrop", "kStmtAlter"}
          => stmt.from = <<>>
    BY <1>5, PartsAssumption DEF ShapeInv
  <2>5. f.tables = stmt.from
    BY <1>5, <2>2, <2>3, <2>4 DEF translate_statement
  <2> QED
    BY <1>3, <2>1, <2>5
<1> QED
  BY <1>4, <1>5

(* The names of the analysis are the names of the statement, each once. *)
LEMMA AnalysisNames ==
  ASSUME ShapeInv, more = <<>>
  PROVE  /\ IsSeq(analysis.tables)
         /\ Range(analysis.tables) = NamesIn
         /\ IsFiniteSet(NamesIn) /\ Len(analysis.tables) = Cardinality(NamesIn)
         /\ analysis.status = "Ok"
<1> DEFINE tables == translate_statement(stmt).tables
           q == analysis.tables
<1>1. q = normalized_tables(tables) /\ analysis.status = "Ok"
  BY DecisionOfOne, AnalyzedFacts
<1>2. /\ tables \in Seq(TableNames)
      /\ \A leaf : Holds(tables, leaf) <=> Holds(stmt.from, leaf) /\ leaf # TableSelect
  BY FoundTables
<1> HIDE DEF tables, q
<1>3. /\ IsSeq(q)
      /\ \A x : Holds(q, x) <=> \E i \in 1 .. Len(tables) : x = qualified_name(tables[i])
      /\ IsFiniteSet(Range(q)) /\ Len(q) = Cardinality(Range(q))
  BY <1>1, <1>2, NormalizedNames
<1>4. DOMAIN stmt.from = 1 .. Len(stmt.from)
  BY BuiltQueries, StatementSequences
<1>5. ASSUME NEW x
      PROVE  Holds(q, x) <=> x \in NamesIn
  <2>1. Holds(q, x) <=> \E leaf : Holds(tables, leaf) /\ x = leaf.schema \o leaf.name
    BY <1>3 DEF Holds, qualified_name
  <2>2. x \in NamesIn <=> \E leaf : /\ Holds(stmt.from, leaf) /\ leaf # TableSelect
                                    /\ x = leaf.schema \o leaf.name
    BY <1>4 DEF NamesIn, Holds
  <2> QED
    BY <1>2, <2>1, <2>2
<1>6. DOMAIN q = 1 .. Len(q)
  BY <1>3 DEF IsSeq
<1>7. Range(q) = NamesIn
  BY <1>5, <1>6 DEF Range, Holds
<1> QED
  BY <1>1, <1>3, <1>7 DEF q

(* Every name has one part or two, and the parts are words. *)
LEMMA NamesOfWords ==
  ASSUME ShapeInv, NEW x \in NamesIn, Len(x) = 1
  PROVE  x[1] \in DOMAIN Lexicon /\ Lexicon[x[1]].length \in Nat \ {0}
<1>1. PICK i \in DOMAIN stmt.from : /\ stmt.from[i] # TableSelect
                                    /\ x = stmt.from[i].schema \o stmt.from[i].name
  BY DEF NamesIn
<1> DEFINE leaf == stmt.from[i]
<1>2. leaf \in TableNames
  <2>1. stmt.from \in Seq(TableNames \cup {TableSelect})
    BY DEF ShapeInv, Statements
  <2>2. leaf \in TableNames \cup {TableSelect}
    BY <2>1
  <2> QED
    BY <1>1, <2>2
<1>3. PICK w \in DOMAIN Lexicon : leaf.name = <<w>>
  BY <1>2 DEF TableNames
<1>4. leaf.schema = <<>> \/ \E v \in DOMAIN Lexicon : leaf.schema = <<v>>
  BY <1>2 DEF TableNames, Optional
<1>5. ASSUME NEW v \in DOMAIN Lexicon, leaf.schema = <<v>> PROVE FALSE
  <2>1. <<v>> \in Seq({v, w}) /\ <<w>> \in Seq({v, w}) /\ Len(<<v>>) = 1 /\ Len(<<w>>) = 1
    OBVIOUS
  <2>2. Len(<<v>> \o <<w>>) = 2
    BY <2>1, ConcatProperties
  <2> QED
    BY <1>1, <1>3, <1>5, <2>2
<1>6. leaf.schema = <<>>
  BY <1>4, <1>5
<1>7. <<>> \o <<w>> = <<w>> /\ <<w>>[1] = w
  OBVIOUS
<1>8. x[1] = w
  BY <1>1, <1>3, <1>6, <1>7
<1>9. Lexicon[w].length \in Nat \ {0}
  BY LexiconAssumption DEF LexiconEntries
<1> QED
  BY <1>8, <1>9

(* What classify_tables() keeps of a sequence of names. *)
LEMMA KeptNames ==
  ASSUME NEW q, IsSeq(q)
  PROVE  LET metadata == classify_tables(q)
         IN  /\ metadata.state = "Present" <=>
                  /\ q # <<>> /\ Len(q) <= kMaxReferencedTables
                  /\ \A x \in Range(q) : is_valid_table_name(x)
             /\ metadata.tables = IF metadata.state = "Present" THEN q ELSE <<>>
<1> DEFINE metadata == classify_tables(q)
<1>1. \A state, tables : /\ AuditTableMetadata(state, tables).state = state
                         /\ AuditTableMetadata(state, tables).tables = tables
  BY DEF AuditTableMetadata
<1>2. (\E i \in DOMAIN q : ~is_valid_table_name(q[i])) <=>
        ~\A x \in Range(q) : is_valid_table_name(x)
  BY DEF Range
<1>3. Len(q) \in Nat /\ kMaxReferencedTables \in Nat
  BY AuditLimitsAssumption DEF IsSeq
<1>4. Len(q) > kMaxReferencedTables <=> ~(Len(q) <= kMaxReferencedTables)
  BY <1>3
<1>5. metadata = IF q = <<>> THEN AuditTableMetadata("Absent", <<>>)
                 ELSE IF \/ ~(Len(q) <= kMaxReferencedTables)
                         \/ ~\A x \in Range(q) : is_valid_table_name(x)
                 THEN AuditTableMetadata("Omitted", <<>>)
                 ELSE AuditTableMetadata("Present", q)
  BY <1>2, <1>4 DEF classify_tables
<1> HIDE DEF metadata
<1>6. /\ metadata.state = "Present" <=>
           /\ q # <<>> /\ Len(q) <= kMaxReferencedTables
           /\ \A x \in Range(q) : is_valid_table_name(x)
      /\ metadata.tables = IF metadata.state = "Present" THEN q ELSE <<>>
  BY <1>1, <1>5
<1> QED
  BY <1>6 DEF metadata

(* core/audit_record.cpp, classify_tables(), over core/sql_analyzer.cpp,       *)
(* normalized_tables(): the trail has every name of the statement once, or no  *)
(* name at all.                                                                *)
THEOREM AllNamesOrNone == Spec => []TableNamesAreAllOrNothing
<1>1. ASSUME ShapeInv, more = <<>>, NEW outcome \in Outcomes
      PROVE  outcome.record.referenced_tables = classify_tables(analysis.tables)
  <2>1. CASE ~decision.allowed
    <3>1. /\ decision.reason \in RejectReasons
          /\ decision.reason = "UnparseableSql" => analysis.status = "ParseError"
      BY <2>1, DeniedForAReason DEF decision
    <3>2. analysis.status = "Ok"
      BY <1>1, AnalysisNames
    <3>3. outcome = ProcessDenied(tag, analysis, decision)
      BY <2>1 DEF Outcomes
    <3> QED
      BY <3>1, <3>2, <3>3, DeniedOutcome
  <2>2. CASE decision.allowed /\ IsSelect
    <3>1. PICK x \in Executions : outcome = ProcessExecuted(tag, analysis, x)
      BY <2>2 DEF Outcomes
    <3> QED
      BY <1>1, <2>2, <3>1, BuiltOutcome
  <2>3. CASE decision.allowed /\ ~IsSelect
    <3>1. outcome = ProcessWritten(tag, analysis, 1)
      BY <2>3 DEF Outcomes
    <3> QED
      BY <1>1, <2>3, <3>1, WrittenOutcome
  <2> QED
    BY <2>1, <2>2, <2>3
<1>2. ASSUME ShapeInv, more = <<>>, NEW metadata, metadata = classify_tables(analysis.tables),
             NEW kept, kept = {metadata.tables[i] : i \in DOMAIN metadata.tables}
      PROVE  /\ metadata.state = "Present" => kept = NamesIn
             /\ Len(metadata.tables) = Cardinality(kept)
             /\ metadata.state = "Present" <=>
                  /\ NamesIn # {} /\ Cardinality(NamesIn) <= kMaxReferencedTables
                  /\ \A name \in NamesIn :
                       Len(name) = 1 /\ Lexicon[name[1]].plain
                         /\ Lexicon[name[1]].length <= kMaxTableNameLength
  <2> DEFINE q == analysis.tables
  <2>1. /\ IsSeq(q) /\ Range(q) = NamesIn /\ IsFiniteSet(NamesIn)
        /\ Len(q) = Cardinality(NamesIn)
    BY <1>2, AnalysisNames
  <2> HIDE DEF q
  <2>2. /\ metadata.state = "Present" <=>
             /\ q # <<>> /\ Len(q) <= kMaxReferencedTables
             /\ \A x \in Range(q) : is_valid_table_name(x)
        /\ metadata.tables = IF metadata.state = "Present" THEN q ELSE <<>>
    BY <1>2, <2>1, KeptNames DEF q
  <2>3. q # <<>> <=> NamesIn # {}
    <3>1. q = <<>> <=> Len(q) = 0
      BY <2>1, EmptySeq DEF IsSeq
    <3>2. Cardinality(NamesIn) = 0 <=> NamesIn = {}
      BY <2>1, FS_EmptySet
    <3> QED
      BY <2>1, <3>1, <3>2
  <2>4. ASSUME NEW x \in NamesIn
        PROVE  is_valid_table_name(x) <=>
                 Len(x) = 1 /\ Lexicon[x[1]].plain
                   /\ Lexicon[x[1]].length <= kMaxTableNameLength
    <3>1. CASE Len(x) = 1
      <4>1. Lexicon[x[1]].length \in Nat \ {0}
        BY <1>2, <3>1, NamesOfWords
      <4>2. \A l \in Nat \ {0} : l \in 1 .. kMaxTableNameLength <=> l <= kMaxTableNameLength
        BY AuditLimitsAssumption
      <4>3. Lexicon[x[1]].length \in 1 .. kMaxTableNameLength
              <=> Lexicon[x[1]].length <= kMaxTableNameLength
        BY <4>1, <4>2
      <4> QED
        BY <3>1, <4>3 DEF is_valid_table_name
    <3>2. CASE Len(x) # 1
      BY <3>2 DEF is_valid_table_name
    <3> QED
      BY <3>1, <3>2
  <2>5. metadata.state = "Present" <=>
          /\ NamesIn # {} /\ Cardinality(NamesIn) <= kMaxReferencedTables
          /\ \A name \in NamesIn :
               Len(name) = 1 /\ Lexicon[name[1]].plain
                 /\ Lexicon[name[1]].length <= kMaxTableNameLength
    BY <2>1, <2>2, <2>3, <2>4
  <2>6. CASE metadata.state = "Present"
    <3>1. metadata.tables = q
      BY <2>2, <2>6
    <3>2. kept = Range(q)
      BY <1>2, <3>1 DEF Range
    <3> QED
      BY <2>1, <2>5, <3>1, <3>2
  <2>7. CASE metadata.state # "Present"
    <3>1. metadata.tables = <<>>
      BY <2>2, <2>7
    <3>2. DOMAIN <<>> = {} /\ Len(<<>>) = 0
      OBVIOUS
    <3>3. kept = {}
      BY <1>2, <3>1, <3>2
    <3> QED
      BY <2>5, <2>7, <3>1, <3>2, <3>3, FS_EmptySet
  <2> QED
    BY <2>6, <2>7
<1>3. ShapeInv => TableNamesAreAllOrNothing
  BY <1>1, <1>2 DEF TableNamesAreAllOrNothing
<1> QED
  BY <1>3, ShapeAlways, PTL
==============================================================================

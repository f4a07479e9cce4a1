-------------------------- MODULE MCStatementShapes --------------------------
(* Statements over the demo schema, with names that differ in case, in       *)
(* length (the audit trail's limit) and in being a system table.             *)
EXTENDS StatementShapes

Entry(lower, pg, plain, length) ==
  [lower |-> lower, pg |-> pg, plain |-> plain, length |-> length]
Plain(word, length) == word :> Entry(word, FALSE, TRUE, length)

MCLexicon ==
  Plain("orders", 6) @@ Plain("customers", 9) @@ Plain("id", 2) @@ Plain("name", 4)
    @@ Plain("email", 5) @@ Plain("phone", 5) @@ Plain("credit_card", 11)
    @@ Plain("customer_id", 11) @@ Plain("amount", 6) @@ Plain("public", 6)
    @@ Plain("count", 5) @@ Plain("upper", 5) @@ Plain("computed", 8)
    @@ Plain("x", 1) @@ Plain("c", 1) @@ Plain("row_to_json", 11)
    @@ "Email" :> Entry("email", FALSE, TRUE, 5)
    @@ "COUNT" :> Entry("count", FALSE, TRUE, 5)
    @@ "PG_Authid" :> Entry("pg_authid", FALSE, TRUE, 9)
    @@ "pg_authid" :> Entry("pg_authid", TRUE, TRUE, 9)
    @@ "long63" :> Entry("long63", FALSE, TRUE, 63)
    @@ "long64" :> Entry("long64", FALSE, TRUE, 64)

MCSchema ==
  "customers" :> <<"id", "email", "credit_card">> @@ "orders" :> <<"id", "amount">>
    @@ "long63" :> <<"phone">> @@ "long64" :> <<"phone">>

Value(bytes) == <<bytes>>
Phone == Value(<<"0", "5", "0", "1", "2", "3", "0">>)

MCStored ==
  "customers" :>
     [id |-> Value(<<"1">>), email |-> Value(<<"k", "p", "@", "e">>), credit_card |-> NULL]
    @@ "orders" :> [id |-> Value(<<"7">>), amount |-> Value(<<"5">>)]
    @@ "long63" :> [phone |-> Phone] @@ "long64" :> [phone |-> Phone]

Col(name) == Column(<<>>, <<name>>, <<>>)

(* Columns by their names, by other columns' names, and whole rows. *)
MCEntries ==
  {Star, StarOf("c"),
   Col("email"), Column(<<"customers">>, <<"Email">>, <<"x">>),
   Column(<<>>, <<"id">>, <<"email">>), Col("c"), Column(<<"c">>, <<"row_to_json">>, <<>>),
   Call(<<"COUNT">>, <<Star>>, <<"email">>),
   [Call(<<"count">>, <<Star>>, <<>>) EXCEPT !.window = TRUE],
   [Call(<<"count">>, <<Col("email")>>, <<>>) EXCEPT !.distinct = TRUE]}

(* One reference calls the key email and the address id. *)
MCLeaves ==
  {TableName(<<>>, <<"customers">>),
   Aliased(TableName(<<"public">>, <<"customers">>), "c", <<"Email", "id">>),
   TableName(<<>>, <<"PG_Authid">>),
   TableName(<<>>, <<"long63">>), TableName(<<>>, <<"long64">>), TableSelect}

MCTargets ==
  {TableName(<<>>, <<"orders">>), TableName(<<"public">>, <<"orders">>),
   TableName(<<>>, <<"customers">>)}

MCColumnLists ==
  {<< <<"customer_id">>, <<"amount">> >>, << <<"amount">>, <<"customer_id">> >>,
   << <<"customer_id">> >>}

MCValues ==
  {Literal("kExprLiteralInt", TRUE), Literal("kExprLiteralInt", FALSE),
   Literal("kExprLiteralFloat", TRUE), Literal("kExprLiteralFloat", FALSE),
   Literal("kExprLiteralString", FALSE), Literal("kExprOperator", FALSE)}

(* The other statements of the grammar: on a table, on something else, and   *)
(* one the adapter has no case for.                                          *)
MCOthers ==
  {[Statement(type) EXCEPT !.from = <<TableName(<<>>, <<"orders">>)>>, !.kind = kind] :
     type \in {"kStmtUpdate", "kStmtDelete", "kStmtAlter", "kStmtCreate", "kStmtDrop"},
     kind \in {"kCreateTable", "kDropTable"}}
    \cup {Statement("kStmtShow")}
==============================================================================

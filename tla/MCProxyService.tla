--------------------------- MODULE MCProxyService ---------------------------
(* Worker threads over the demo schema of sql/schema.sql, with one text for *)
(* each way through the pipeline.                                           *)
EXTENDS ProxyService

CONSTANTS t1, t2

Entry(lower, pg, plain, length) ==
  [lower |-> lower, pg |-> pg, plain |-> plain, length |-> length]
Plain(word, length) == word :> Entry(word, FALSE, TRUE, length)

MCLexicon ==
  Plain("orders", 6) @@ Plain("customers", 9) @@ Plain("id", 2) @@ Plain("name", 4)
    @@ Plain("email", 5) @@ Plain("phone", 5) @@ Plain("credit_card", 11)
    @@ Plain("customer_id", 11) @@ Plain("amount", 6) @@ Plain("created_at", 10)
    @@ Plain("count", 5) @@ Plain("nextval", 7) @@ Plain("computed", 8)
    @@ Plain("c", 1) @@ Plain("contact", 7)

MCSchema ==
  "customers" :> <<"id", "name", "email", "phone", "credit_card">>
    @@ "orders" :> <<"id", "customer_id", "amount", "created_at">>

Value(bytes) == <<bytes>>

MCStored ==
  "customers" :>
     [id |-> Value(<<"1">>), name |-> Value(<<"K">>),
      email |-> Value(<<"k", "p", "@", "e">>),
      phone |-> NULL,
      credit_card |-> Value([i \in 1 .. 12 |-> "4"])]
    @@ "orders" :>
     [id |-> Value(<<"1">>), customer_id |-> Value(<<"1">>), amount |-> Value(<<"5">>),
      created_at |-> Value(<<"2">>)]

Customers == TableName(<<>>, <<"customers">>)
Orders == TableName(<<>>, <<"orders">>)

OrderInsert ==
  [Statement("kStmtInsert") EXCEPT
     !.from = <<Orders>>, !.columns = << <<"customer_id">>, <<"amount">> >>,
     !.values = <<Literal("kExprLiteralInt", TRUE), Literal("kExprLiteralFloat", TRUE)>>]

(* INSERT ... SELECT: the same table and columns, no values. *)
CopyingInsert == [OrderInsert EXCEPT !.kind = "kInsertSelect", !.values = <<>>]

SelectOf(list) == [Statement("kStmtSelect") EXCEPT !.from = <<Customers>>, !.list = list]

Insert1 == Script(<<OrderInsert>>)
Copy1 == Script(<<CopyingInsert>>)
(* SELECT contact, credit_card AS name FROM customers AS c(id, name, contact) *)
Renamed == Aliased(Customers, "c", <<"id", "name", "contact">>)
ReadPii ==
  Script(<<[SelectOf(<<Column(<<>>, <<"contact">>, <<>>),
                       Column(<<"c">>, <<"credit_card">>, <<"name">>)>>)
            EXCEPT !.from = <<Renamed>>]>>)
(* SELECT nextval(...): a function of no column, which changes a sequence. *)
Computed ==
  Script(<<[SelectOf(<<Call(<<"nextval">>, <<Literal("kExprLiteralString", FALSE)>>, <<>>)>>)
            EXCEPT !.effects = "some"]>>)
TwoStatements == Script(<<OrderInsert, OrderInsert>>)

WriteSqls == {Insert1}
BriefSqls == {Insert1, MalformedSql}
MixedSqls == {BlankSql, MalformedSql, Insert1, Copy1, ReadPii, Computed, TwoStatements}

(* The worker threads are interchangeable (for safety properties). *)
Symmetry == Permutations(Threads)
=============================================================================

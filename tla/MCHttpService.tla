--------------------------- MODULE MCHttpService ---------------------------
(* Clients of the HTTP server over the demo schema; the customers table has *)
(* a name that is no UTF-8.                                                 *)
EXTENDS HttpService, MCProxyService

HttpStored ==
  [MCStored EXCEPT !["customers"].name = Value(<<"K", Continuation>>)]

ReadNames == Script(<<SelectOf(<<Column(<<>>, <<"name">>, <<>>)>>)>>)
CteSelect == Script(<<[SelectOf(<<Column(<<>>, <<"id">>, <<>>)>>) EXCEPT !.with = TRUE]>>)

(* Texts of exactly the size that is accepted, and one of a byte more. *)
MixedRequests ==
  {Query(Insert1, kMaxSqlLength + 1)}
    \cup {Query(text, kMaxSqlLength) :
            text \in {Insert1, ReadNames, TwoStatements, CteSelect}}
MixedTexts == {r.sql : r \in MixedRequests}

(* Bound: the connections of one run are rejected by the policy, or none is. *)
AlikeConnections ==
  \A i, j \in DOMAIN connections :
     connections[i].sql \in {TwoStatements, CteSelect} =>
       connections[j].sql \in {TwoStatements, CteSelect}

(* One query that needs the database, one that does not. *)
WriteRequests == {Health, Query(Insert1, 1)}
BriefRequests == {Health, Query(Insert1, 1), Query(MalformedSql, 1)}
=============================================================================

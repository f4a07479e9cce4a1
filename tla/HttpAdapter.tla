---------------------------- MODULE HttpAdapter ----------------------------
(***************************************************************************)
(* http/routes.cpp, its sequential part: what handle_query_request()       *)
(* refuses before the pipeline and what it makes of the pipeline's result. *)
(* A request is what its checks tell apart: where it goes, its content     *)
(* type, whether the body is a JSON object, whether "sql" is a string      *)
(* there, that string and its size in bytes.                               *)
(***************************************************************************)
EXTENDS RequestProcessing, Utf8

CONSTANT kMaxSqlLength

Query(sql, size) ==
  [path |-> "/query", content_type |-> "application/json", body |-> "object",
   sql_field |-> "string", sql |-> sql, size |-> size]
Health == [Query(BlankSql, 0) EXCEPT !.path = "/health"]

(* A response: its status, the error code or the kind of the body, and what *)
(* the body holds besides.                                                  *)
Response(status, kind, content) == [status |-> status, kind |-> kind, content |-> content]
send_error(status, code) == Response(status, code, <<>>)

(* The first check of the request that fails, in the code's order. *)
Refusal(request) ==
  IF request.content_type # "application/json" THEN "invalid_content_type"
  ELSE IF request.body # "object" THEN "invalid_json"
  ELSE IF request.sql_field # "string" THEN "invalid_request"
  ELSE IF request.size > kMaxSqlLength THEN "sql_too_large"
  ELSE "none"

response_for(reason) ==
  CASE reason = "EmptyInput" -> send_error(400, "empty_sql")
    [] reason = "UnparseableSql" -> send_error(400, "invalid_sql")
    [] reason = "PolicyRejected" -> send_error(403, "policy_rejected")
    [] reason = "QueryFailed" -> send_error(400, "query_failed")
    [] reason = "DatabaseUnavailable" -> send_error(503, "database_unavailable")
    [] reason = "MaskingRefused" -> send_error(422, "masking_refused")
    [] reason = "InternalError" -> send_error(500, "internal_error")

(* dump() throws on a cell that is no UTF-8; SQL NULL becomes null. *)
Renders(rows) ==
  \A r \in DOMAIN rows : \A c \in DOMAIN rows[r] :
     rows[r][c] # NULL => IsUtf8(rows[r][c][1])

(* What cpp-httplib answers when the handler throws. *)
HandlerThrew == Response(500, "no_body", <<>>)

(* Fault: an exception while rendering is answered like a pipeline error. *)
handle_query_result_catching(result) ==
  IF result.kind = "rows" /\ ~Renders(result.rows)
  THEN response_for("InternalError")
  ELSE IF result.kind = "failure" THEN response_for(result.reason)
  ELSE Response(200, "rows", <<>>)

handle_query_result(result) ==
  CASE result.kind = "failure" -> response_for(result.reason)
    [] result.kind = "write" -> Response(200, "affected_rows", <<result.affected_rows>>)
    [] result.kind = "rows" ->
         IF Renders(result.rows)
         THEN Response(200, "rows", <<result.column_names, result.rows>>)
         ELSE HandlerThrew

health_response == Response(200, "status", <<>>)
=============================================================================

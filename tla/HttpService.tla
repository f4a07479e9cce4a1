---------------------------- MODULE HttpService ----------------------------
(***************************************************************************)
(* http/http_server.cpp and the routes, around the pipeline: the library   *)
(* queues accepted connections, its worker threads serve them first come,  *)
(* first served, and a worker that is inside handle() serves nobody else.  *)
(* One request per connection; a kept-alive connection is served like the  *)
(* next one of the same client.                                            *)
(***************************************************************************)
EXTENDS ProxyService, HttpAdapter

CONSTANT Requests   \* the requests clients send

ASSUME TextsAssumption == \A request \in Requests \ {Health} : request.sql \in Sqls

VARIABLES
  server,       \* "listening", "stopping" (after stop()) or "stopped"
  connections,  \* the requests accepted so far, in order (history)
  queue,        \* the connections no worker has taken yet
  serving,      \* the connection each worker serves, 0 if none
  response,     \* the response it has for it, or NoResponse
  answers       \* what connections were closed with (history)

webVars == <<server, connections, queue, serving, response, answers>>
httpVars == <<vars, webVars>>

NoResponse == Response(0, "none", <<>>)
Answer(tag, r) == [tag |-> tag, response |-> r]
NoAnswer == Answer(NoTag, NoResponse)
Unread == Response(0, "closed", <<>>)
Closing(i, answer) ==
  [connection |-> i, tag |-> answer.tag, response |-> answer.response]

HttpInit ==
  /\ Init
  /\ server = "listening"
  /\ connections = <<>> /\ queue = <<>>
  /\ serving = [t \in Threads |-> 0]
  /\ response = [t \in Threads |-> NoAnswer]
  /\ answers = {}

(* The accept loop hands the connection to the pool. *)
Accept ==
  /\ server = "listening"
  /\ Len(connections) < MaxRequests
  /\ \E request \in Requests : connections' = Append(connections, request)
  /\ queue' = Append(queue, Len(connections'))
  /\ UNCHANGED <<server, serving, response, answers, vars>>

(* An idle worker takes the first connection of the queue. *)
Take(t, request) ==
  /\ serving[t] = 0
  /\ queue # <<>>
  /\ request = connections[Head(queue)]
  /\ serving' = [serving EXCEPT ![t] = Head(queue)]
  /\ queue' = Tail(queue)
  /\ UNCHANGED <<server, connections, answers>>

Respond(t, tag, r) == response' = [response EXCEPT ![t] = Answer(tag, r)]

(* Fault: the health check goes through the pipeline's mutex. *)
ServeHealthLocking(t) ==
  /\ mutex = NoThread
  /\ Take(t, Health)
  /\ Respond(t, NoTag, health_response)
  /\ UNCHANGED vars

ServeHealth(t) ==
  /\ Take(t, Health)
  /\ Respond(t, NoTag, health_response)
  /\ UNCHANGED vars

(* The client has gone, or the server is stopping, before the request could *)
(* be read: the connection is closed without a response.                    *)
Drop(t) ==
  /\ \E request \in Requests : Take(t, request)
  /\ Respond(t, NoTag, Unread)
  /\ UNCHANGED vars

(* Transport validation fails; the pipeline is not called. *)
Refuse(t) ==
  /\ \E request \in Requests \ {Health} :
       /\ Take(t, request)
       /\ Refusal(request) # "none"
       /\ Respond(t, NoTag, send_error(400, Refusal(request)))
  /\ UNCHANGED vars

(* proxy.handle(sql) is called ... *)
EnterPipeline(t) ==
  /\ \E request \in Requests \ {Health} :
       /\ Take(t, request)
       /\ Refusal(request) = "none"
       /\ Handle(t, request.sql)
  /\ UNCHANGED response

(* ... and returns; the rest of the handler renders its result. *)
LeavePipeline(t) ==
  /\ Reply(t)
  /\ Respond(t, Tag(t), handle_query_result(ResultOf(t)))
  /\ UNCHANGED <<server, connections, queue, serving, answers>>

(* The response is written and the connection closed.  A client that has    *)
(* gone meanwhile does not get it, which nobody in the proxy learns of.     *)
Send(t) ==
  /\ response[t] # NoAnswer
  /\ answers' = answers \cup {Closing(serving[t], response[t])}
  /\ serving' = [serving EXCEPT ![t] = 0]
  /\ response' = [response EXCEPT ![t] = NoAnswer]
  /\ UNCHANGED <<server, connections, queue, vars>>

(* HttpServer::stop(): nothing is accepted any more. *)
Stop ==
  /\ server = "listening"
  /\ server' = "stopping"
  /\ UNCHANGED <<connections, queue, serving, response, answers, vars>>

(* The pool works off its queue and joins its workers; run() returns. *)
RunReturns ==
  /\ server = "stopping"
  /\ queue = <<>> /\ \A t \in Threads : serving[t] = 0
  /\ server' = "stopped"
  /\ UNCHANGED <<connections, queue, serving, response, answers, vars>>

(* Connections that ended. *)
Closed == {a.connection : a \in answers}

(* The process dies: its connections are reset. *)
RestartServer ==
  /\ Restart
  /\ server' = "listening"
  /\ answers' = answers \cup
       {Closing(i, Answer(NoTag, Unread)) : i \in DOMAIN connections \ Closed}
  /\ queue' = <<>>
  /\ serving' = [t \in Threads |-> 0]
  /\ response' = [t \in Threads |-> NoAnswer]
  /\ UNCHANGED connections

(* Everybody was served, or the server has stopped: not a deadlock. *)
NothingToServe ==
  /\ queue = <<>> /\ \A t \in Threads : serving[t] = 0
  /\ server = "stopped" \/ Len(connections) = MaxRequests
  /\ UNCHANGED httpVars

Pipeline(t) == PipelineStep(t) /\ UNCHANGED webVars

Worker(t) ==
  \/ ServeHealth(t) \/ Refuse(t) \/ EnterPipeline(t)
  \/ Pipeline(t) \/ LeavePipeline(t) \/ Send(t)

HttpNext ==
  \/ Accept
  \/ \E t \in Threads : Worker(t) \/ Drop(t)
  \/ Server /\ UNCHANGED webVars
  \/ Stop \/ RunReturns \/ RestartServer
  \/ NothingToServe

(* Worker threads keep running, as in ProxyService, and the accept loop ends. *)
HttpFairness == WF_httpVars(RunReturns) /\ \A t \in Threads : WF_httpVars(Worker(t))
HttpSpec == HttpInit /\ [][HttpNext]_httpVars /\ HttpFairness

(* The same when the database may never answer: only the threads that do    *)
(* not wait for it are sure to go on.                                       *)
Independent(t) == exec_pc[t] \in {"idle", "returned"} /\ Worker(t)
StalledSpec ==
  HttpInit /\ [][HttpNext]_httpVars /\ \A t \in Threads : WF_httpVars(Independent(t))

----------------------------------------------------------------------------
(* The outcome in the trail that a response stands for. *)
Meaning(r) ==
  CASE r.status = 200 \/ r = HandlerThrew -> "Success"
    [] r.kind \in {"empty_sql", "policy_rejected"} -> "PolicyRejected"
    [] r.kind = "invalid_sql" -> "ParsingFailure"
    [] r.kind \in {"query_failed", "database_unavailable"} -> "DatabaseFailure"
    [] r.kind = "masking_refused" -> "MaskingRefused"
    [] r.kind = "internal_error" -> "InternalFailure"

(* The trail says of a request what its client was told.  The one exception  *)
(* is a response without a body: the pipeline succeeded and recorded it, the *)
(* rows could not be rendered, and then no INSERT was made for the request.  *)
AnsweredAsRecorded ==
  \A a \in answers : a.tag # NoTag =>
     /\ \A entry \in Entries : entry.tag = a.tag => entry.outcome = Meaning(a.response)
     /\ Meaning(a.response) = "Success" =>
          \E entry \in Entries : entry.tag = a.tag
     /\ a.response = HandlerThrew => \A change \in AllChanges : change.tag # a.tag

(* "rejection reasons cannot be probed from outside": two texts rejected for *)
(* different reasons, as their audit records say, get the same response.     *)
RejectionsLookAlike ==
  LET Rejected(a) ==
        \E r \in submitted :
          /\ r.tag = a.tag
          /\ r.outcome = "PolicyRejected" /\ r.details.reason # "EmptyInput"
  IN  \A a, b \in answers : Rejected(a) /\ Rejected(b) => a.response = b.response

(* Every accepted connection is answered and closed, whatever fails behind   *)
(* it and however many wait for the pipeline; each time the pipeline's mutex *)
(* is free again; and a stopped server's run() returns ("Stops a running     *)
(* server so a blocked run() returns").                                      *)
EveryConnectionEnds ==
  []<>(Closed = DOMAIN connections /\ mutex = NoThread /\ server # "stopping")

(* /health answers for the process, not for the database: as long as fewer   *)
(* queries than there are workers have come in, it is answered even when the *)
(* database never is.                                                        *)
HealthNeedsNoDatabase ==
  LET queries == {i \in DOMAIN connections : connections[i] # Health}
  IN  [](Cardinality(queries) < Cardinality(Threads)) =>
        []<>(DOMAIN connections \subseteq queries \cup Closed)
=============================================================================

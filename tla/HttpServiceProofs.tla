-------------------------- MODULE HttpServiceProofs --------------------------
(***************************************************************************)
(* What the HTTP server adds to handle(): every response with a body of    *)
(* the pipeline renders a reply of handle(), so what is proved of replies  *)
(* holds of what leaves the process.                                       *)
(***************************************************************************)
EXTENDS HttpService, ProxyServiceProofs

(* The invariant of the pipeline, which the server does not disturb. *)
LEMMA ServerDrivesPipeline == HttpNext => [Next]_vars
<1> SUFFICES ASSUME HttpNext
             PROVE  Next \/ UNCHANGED vars
  OBVIOUS
<1>1. CASE Accept \/ Stop \/ RunReturns
  BY <1>1 DEF Accept, Stop, RunReturns
<1>2. CASE NothingToServe
  BY <1>2 DEF NothingToServe, httpVars
<1>3. CASE RestartServer \/ Server
  BY <1>3 DEF RestartServer, Next
<1>4. ASSUME NEW t \in Threads, ServeHealth(t) \/ Refuse(t) \/ Drop(t) \/ Send(t)
      PROVE  UNCHANGED vars
  BY <1>4 DEF ServeHealth, Refuse, Drop, Send
<1>5. ASSUME NEW t \in Threads, EnterPipeline(t)
      PROVE  Next
  BY <1>5, TextsAssumption DEF EnterPipeline, Next
<1>6. ASSUME NEW t \in Threads, Pipeline(t) \/ LeavePipeline(t)
      PROVE  Next
  BY <1>6 DEF Pipeline, LeavePipeline, Next, HandleStep
<1> QED
  BY <1>1, <1>2, <1>3, <1>4, <1>5, <1>6 DEF HttpNext, Worker

----------------------------------------------------------------------------
(* What a worker has for its client is what handle() returned, rendered. *)
Rendered(answer) ==
  answer.tag # NoTag =>
    \E reply \in replies :
       reply.tag = answer.tag /\ answer.response = handle_query_result(reply.result)

(* Replies can be rendered, and tell a rejection as it was recorded. *)
RepliesAreTold ==
  \A reply \in replies :
     /\ WellFormed(reply.result)
     /\ \A r \in submitted : r.tag = reply.tag => ToldAsRejected(reply.result, r)

HttpInv ==
  /\ ChangesInv
  /\ RepliesAreTold
  /\ \A r \in submitted : r.tag # NoTag
  /\ response = [t \in Threads |-> response[t]]
  /\ \A t \in Threads : Rendered(response[t])
  /\ \A a \in answers : Rendered(a)

(* Replies are never taken back. *)
LEMMA RepliesGrow ==
  ASSUME ServiceInv, [Next]_vars
  PROVE  replies \subseteq replies'
BY StepKinds DEF Quiet, Restart, Acquire, Audit, Reply, Repository, serviceVars

(* A new reply tells a rejection as its own record does, and no record is    *)
(* made for a request that was answered.                                     *)
LEMMA RepliesStayTold ==
  ASSUME HttpInv, [Next]_vars
  PROVE  RepliesAreTold' /\ \A r \in submitted' : r.tag # NoTag
<1>1. TrailInv /\ ServiceInv /\ HolderIsLatest /\ SubmittedOnce /\ RepliesArePast
  BY DEF HttpInv, ChangesInv, TrailInv
<1>2. RepliesAreTold /\ \A r \in submitted : r.tag # NoTag
  BY DEF HttpInv
<1>3. CASE UNCHANGED <<replies, submitted>>
  BY <1>2, <1>3 DEF RepliesAreTold
<1>4. ASSUME NEW t \in Threads, Audit(t)
      PROVE  RepliesAreTold' /\ \A r \in submitted' : r.tag # NoTag
  <2>1. /\ pc[t] = "append" /\ replies' = replies
        /\ submitted' = submitted \cup {processing[t].record}
    BY <1>4 DEF Audit, StartAppend, AppendThrows
  <2>2. processing[t].record.tag = Tag(t)
    BY <1>1, <2>1 DEF ServiceInv, RecordsMatch, Matches
  <2>3. mutex = t
    BY <1>1, <2>1, AppendingHolds
  <2>4. \A reply \in replies : reply.tag # Tag(t)
    BY <1>1, <2>3, PastIsBefore DEF RepliesArePast
  <2>5. Tag(t) # NoTag
    <3>1. boot # 0
      BY <1>1, BootsAssumption DEF ServiceInv, ServiceTypeOK
    <3> QED
      BY <3>1 DEF Tag, NoTag
  <2> QED
    BY <1>2, <2>1, <2>2, <2>4, <2>5 DEF RepliesAreTold
<1>5. ASSUME NEW t \in Threads, Reply(t)
      PROVE  RepliesAreTold' /\ \A r \in submitted' : r.tag # NoTag
  <2> DEFINE new == [tag |-> Tag(t), sql |-> sql[t], result |-> ResultOf(t)]
             p == processing[t]
  <2>1. /\ pc[t] = "appending" /\ replies' = replies \cup {new} /\ submitted' = submitted
    BY <1>5 DEF Reply, TakeAppendResult
  <2>2. /\ WellFormed(p.result) /\ ToldAsRejected(p.result, p.record)
        /\ p.record.outcome = OutcomeOf(p.result) /\ append_record[t] = p.record
    BY <1>1, <2>1 DEF ServiceInv, RecordsMatch, Matches
  <2>3. WellFormed(ResultOf(t))
    <3>1. WellFormed(Failure("InternalError"))
      BY DEF WellFormed, ServiceFailures
    <3> QED
      BY <2>2, <3>1 DEF ResultOf, ResultAfter
  <2>4. ASSUME NEW r \in submitted, r.tag = Tag(t)
        PROVE  ToldAsRejected(ResultOf(t), r)
    <3>1. r = p.record
      BY <1>1, <2>1, <2>2, <2>4, RecordOfHolder
    <3>2. CASE r.outcome = "PolicyRejected"
      <4>1. ~succeeded(p.result)
        BY <2>2, <3>1, <3>2, OutcomeTable
      <4> QED
        BY <2>2, <3>1, <4>1 DEF ResultOf, ResultAfter
    <3> QED
      BY <3>2 DEF ToldAsRejected
  <2>5. new.tag = Tag(t) /\ new.result = ResultOf(t)
    OBVIOUS
  <2> HIDE DEF new
  <2> QED
    BY <1>2, <2>1, <2>3, <2>4, <2>5 DEF RepliesAreTold
<1>6. ASSUME NEW t \in Threads, Acquire(t) \/ Repository(t)
      PROVE  UNCHANGED <<replies, submitted>>
  BY <1>6 DEF Acquire, Repository, serviceVars, auditVars, AppendStep, LockStream,
              LockClosedStream, InsertLine, InsertNewline, Insert, FlushWrites, FlushFails,
              FlushBadStream, CheckStream
<1>7. CASE Restart
  BY <1>3, <1>7 DEF Restart, AuditRestart
<1>8. CASE Quiet
  BY <1>3, <1>8 DEF Quiet, auditVars
<1> QED
  BY <1>1, <1>3, <1>4, <1>5, <1>6, <1>7, <1>8, StepKinds

(* The invariant holds when the server starts. *)
LEMMA HttpInitInv == HttpInit => HttpInv
<1> SUFFICES ASSUME HttpInit PROVE HttpInv
  OBVIOUS
<1>1. ChangesInv
  BY ChangesInit DEF HttpInit
<1>2. replies = {} /\ submitted = {} /\ answers = {}
  BY DEF HttpInit, Init, AuditInit
<1>3. NoAnswer.tag = NoTag
  BY DEF NoAnswer, Answer
<1> QED
  BY <1>1, <1>2, <1>3 DEF HttpInit, HttpInv, RepliesAreTold, Rendered

(* Every step of the server or of the pipeline preserves it. *)
LEMMA HttpNextInv == HttpInv /\ [HttpNext]_httpVars => HttpInv'
<1> SUFFICES ASSUME HttpInv, [HttpNext]_httpVars
             PROVE  HttpInv'
  OBVIOUS
<1>1. [Next]_vars
  BY ServerDrivesPipeline DEF httpVars
<1>2. ChangesInv' /\ RepliesAreTold' /\ \A r \in submitted' : r.tag # NoTag
  BY <1>1, ChangesNext, RepliesStayTold DEF HttpInv
<1>3. replies \subseteq replies'
  BY <1>1, RepliesGrow DEF HttpInv, ChangesInv, TrailInv
<1>4. ASSUME NEW answer, Rendered(answer)
      PROVE  Rendered(answer)'
  BY <1>3, <1>4 DEF Rendered
<1>5. ASSUME NEW answer, answer.tag = NoTag
      PROVE  Rendered(answer)'
  BY <1>5 DEF Rendered
<1>6. /\ \A t \in Threads : Rendered(response[t])
      /\ \A a \in answers : Rendered(a)
      /\ response = [t \in Threads |-> response[t]]
  BY DEF HttpInv
<1> DEFINE Goal == /\ response' = [t \in Threads |-> response'[t]]
                   /\ \A t \in Threads : Rendered(response[t])'
                   /\ \A a \in answers' : Rendered(a)'
<1>7. ASSUME NEW f, f = response
      PROVE  \A t \in Threads : Rendered(f[t])'
  BY <1>4, <1>6, <1>7
<1>8. ASSUME NEW A, A = answers
      PROVE  \A a \in A : Rendered(a)'
  BY <1>4, <1>6, <1>8
<1>9. ASSUME UNCHANGED <<response, answers>>
      PROVE  Goal
  BY <1>6, <1>7, <1>8, <1>9
<1>10. ASSUME NEW t \in Threads, NEW answer, Rendered(answer)',
              response' = [response EXCEPT ![t] = answer], answers' = answers
       PROVE  Goal
  <2>1. \A u \in Threads : response'[u] = IF u = t THEN answer ELSE response[u]
    BY <1>6, <1>10
  <2>2. \A u \in Threads : Rendered(response[u])'
    BY <1>7, <1>10, <2>1
  <2>3. \A a \in answers' : Rendered(a)'
    BY <1>8, <1>10
  <2> QED
    BY <1>6, <1>10, <2>2, <2>3
<1>11. ASSUME NEW t \in Threads, ServeHealth(t) \/ Refuse(t) \/ Drop(t)
       PROVE  Goal
  <2>1. PICK r : Respond(t, NoTag, r)
    BY <1>11 DEF ServeHealth, Refuse, Drop
  <2>2. answers' = answers
    BY <1>11 DEF ServeHealth, Refuse, Drop, Take
  <2>3. Answer(NoTag, r).tag = NoTag
    BY DEF Answer
  <2> QED
    BY <1>5, <1>10, <2>1, <2>2, <2>3 DEF Respond
<1>12. ASSUME NEW t \in Threads, LeavePipeline(t)
       PROVE  Goal
  <2>1. PICK answer : answer = Answer(Tag(t), handle_query_result(ResultOf(t)))
    OBVIOUS
  <2>2. response' = [response EXCEPT ![t] = answer] /\ answers' = answers
    BY <1>12, <2>1 DEF LeavePipeline, Respond
  <2>3. PICK new : new = [tag |-> Tag(t), sql |-> sql[t], result |-> ResultOf(t)]
    OBVIOUS
  <2>4. new \in replies' /\ new.tag = Tag(t) /\ new.result = ResultOf(t)
    BY <1>12, <2>3 DEF LeavePipeline, Reply
  <2>5. answer.tag = new.tag /\ answer.response = handle_query_result(new.result)
    BY <2>1, <2>4 DEF Answer
  <2>6. Rendered(answer)'
    BY <2>4, <2>5 DEF Rendered
  <2> QED
    BY <1>10, <2>2, <2>6
<1>13. ASSUME NEW t \in Threads, Send(t)
       PROVE  Goal
  <2>1. PICK closing, none : closing = Closing(serving[t], response[t]) /\ none = NoAnswer
    OBVIOUS
  <2>2. /\ closing.tag = response[t].tag /\ closing.response = response[t].response
        /\ none.tag = NoTag
    BY <2>1 DEF Closing, NoAnswer, Answer
  <2>3. response' = [response EXCEPT ![t] = none] /\ answers' = answers \cup {closing}
    BY <1>13, <2>1 DEF Send
  <2>4. Rendered(closing)
    BY <1>6, <2>2 DEF Rendered
  <2>5. \A a \in answers' : Rendered(a)'
    BY <1>4, <1>8, <2>3, <2>4
  <2>6. \A u \in Threads : response'[u] = IF u = t THEN none ELSE response[u]
    BY <1>6, <2>3
  <2>7. \A u \in Threads : Rendered(response[u])'
    BY <1>5, <1>7, <2>2, <2>6
  <2> QED
    BY <1>6, <2>3, <2>5, <2>7
<1>14. ASSUME RestartServer
       PROVE  Goal
  <2>1. PICK none : none = NoAnswer
    OBVIOUS
  <2>2. none.tag = NoTag /\ response' = [t \in Threads |-> none]
    BY <1>14, <2>1 DEF RestartServer, NoAnswer, Answer
  <2>3. \A a \in answers' : a \in answers \/ a.tag = NoTag
    BY <1>14 DEF RestartServer, Closing, Answer
  <2> QED
    BY <1>5, <1>8, <2>2, <2>3
<1>15. ASSUME NEW t \in Threads, EnterPipeline(t) \/ Pipeline(t)
       PROVE  UNCHANGED <<response, answers>>
  BY <1>15 DEF EnterPipeline, Take, Pipeline, webVars
<1>16. ASSUME \/ Accept \/ Stop \/ RunReturns \/ NothingToServe
              \/ Server /\ UNCHANGED webVars
              \/ UNCHANGED httpVars
       PROVE  Goal
  BY <1>9, <1>16 DEF Accept, Stop, RunReturns, NothingToServe, httpVars, webVars
<1>17. Goal
  BY <1>9, <1>11, <1>12, <1>13, <1>14, <1>15, <1>16 DEF HttpNext, Worker
<1> QED
  BY <1>2, <1>17 DEF HttpInv

(* HttpInv holds throughout. *)
LEMMA HttpAlways == HttpSpec => []HttpInv
BY HttpInitInv, HttpNextInv, PTL DEF HttpSpec

----------------------------------------------------------------------------
(* What routes.cpp makes of each reason. *)
LEMMA ErrorTable ==
  /\ response_for("EmptyInput") = Response(400, "empty_sql", <<>>)
  /\ response_for("UnparseableSql") = Response(400, "invalid_sql", <<>>)
  /\ response_for("PolicyRejected") = Response(403, "policy_rejected", <<>>)
  /\ response_for("QueryFailed") = Response(400, "query_failed", <<>>)
  /\ response_for("DatabaseUnavailable") = Response(503, "database_unavailable", <<>>)
  /\ response_for("MaskingRefused") = Response(422, "masking_refused", <<>>)
  /\ response_for("InternalError") = Response(500, "internal_error", <<>>)
BY DEF response_for, send_error

(* A response stands for the outcome of the result it renders, and only rows *)
(* fail to be rendered.                                                      *)
LEMMA ResponseMeans ==
  ASSUME NEW result, WellFormed(result)
  PROVE  /\ Meaning(handle_query_result(result)) = OutcomeOf(result)
         /\ OutcomeOf(result) = "Success" => succeeded(result)
         /\ handle_query_result(result) = HandlerThrew => result.kind = "rows"
<1>1. \A status, kind, content :
        /\ Response(status, kind, content).status = status
        /\ Response(status, kind, content).kind = kind
  BY DEF Response
<1>2. \A kind, content : kind \in {"rows", "affected_rows"} =>
        Meaning(Response(200, kind, content)) = "Success"
  BY <1>1 DEF Meaning
<1>3. Meaning(HandlerThrew) = "Success" /\ HandlerThrew.kind = "no_body"
  BY <1>1 DEF Meaning, HandlerThrew
<1>4. CASE result.kind = "rows"
  <2>1. \/ handle_query_result(result) = Response(200, "rows", <<result.column_names, result.rows>>)
        \/ handle_query_result(result) = HandlerThrew
    BY <1>4 DEF handle_query_result
  <2>2. succeeded(result) /\ OutcomeOf(result) = "Success"
    BY <1>4, OutcomeTable DEF succeeded
  <2> QED
    BY <1>2, <1>3, <1>4, <2>1, <2>2
<1>5. CASE result.kind = "write"
  <2>1. handle_query_result(result) = Response(200, "affected_rows", <<result.affected_rows>>)
    BY <1>5 DEF handle_query_result
  <2>2. succeeded(result) /\ OutcomeOf(result) = "Success"
    BY <1>5, OutcomeTable DEF succeeded
  <2>3. handle_query_result(result) # HandlerThrew
    BY <1>1, <1>3, <2>1
  <2> QED
    BY <1>2, <2>1, <2>2, <2>3
<1>6. ASSUME NEW reason \in ServiceFailures, result = Failure(reason)
      PROVE  /\ Meaning(handle_query_result(result)) = OutcomeOf(result)
             /\ OutcomeOf(result) # "Success"
             /\ handle_query_result(result) # HandlerThrew
  <2>1. handle_query_result(result) = response_for(reason)
    BY <1>6 DEF handle_query_result, Failure
  <2>2. response_for(reason).status # 200 /\ response_for(reason).kind # "no_body"
    BY <1>1, ErrorTable DEF ServiceFailures
  <2>3. Meaning(response_for(reason)) = OutcomeOf(Failure(reason))
    <3>1. response_for(reason) # HandlerThrew
      BY <1>3, <2>2
    <3>2. ASSUME NEW r, r.status # 200, r # HandlerThrew
          PROVE  /\ r.kind \in {"empty_sql", "policy_rejected"} => Meaning(r) = "PolicyRejected"
                 /\ r.kind = "invalid_sql" => Meaning(r) = "ParsingFailure"
                 /\ r.kind \in {"query_failed", "database_unavailable"} =>
                      Meaning(r) = "DatabaseFailure"
                 /\ r.kind = "masking_refused" => Meaning(r) = "MaskingRefused"
                 /\ r.kind = "internal_error" => Meaning(r) = "InternalFailure"
      BY <3>2 DEF Meaning
    <3> QED
      BY <1>1, <2>2, <3>1, <3>2, ErrorTable, OutcomeTable DEF ServiceFailures
  <2>4. OutcomeOf(Failure(reason)) # "Success"
    BY OutcomeTable DEF ServiceFailures
  <2> QED
    BY <1>3, <1>6, <2>1, <2>2, <2>3, <2>4
<1> QED
  BY <1>4, <1>5, <1>6 DEF WellFormed

(* What a client is told over HTTP is what the trail has of its request; a   *)
(* response without a body stands for a recorded success that wrote nothing. *)
THEOREM AnswersAreAsRecorded == HttpSpec => []AnsweredAsRecorded
<1>1. HttpInv => AnsweredAsRecorded
  <2> SUFFICES ASSUME HttpInv, NEW a \in answers, a.tag # NoTag
               PROVE  /\ \A entry \in Entries :
                            entry.tag = a.tag => entry.outcome = Meaning(a.response)
                      /\ Meaning(a.response) = "Success" =>
                           \E entry \in Entries : entry.tag = a.tag
                      /\ a.response = HandlerThrew =>
                           \A change \in AllChanges : change.tag # a.tag
    BY DEF AnsweredAsRecorded
  <2>1. PICK reply \in replies :
          reply.tag = a.tag /\ a.response = handle_query_result(reply.result)
    BY DEF HttpInv, Rendered
  <2>2. /\ Meaning(a.response) = OutcomeOf(reply.result)
        /\ OutcomeOf(reply.result) = "Success" => succeeded(reply.result)
        /\ a.response = HandlerThrew => reply.result.kind = "rows"
    BY <2>1, ResponseMeans DEF HttpInv, RepliesAreTold
  <2>3. ASSUME NEW entry \in Entries, entry.tag = a.tag
        PROVE  entry.outcome = OutcomeOf(reply.result)
    <3>1. PICK i \in 1 .. Len(file) - 1 :
            /\ file[i].part = "line" /\ file[i + 1] = Newline
            /\ entry = [tag |-> file[i].record.tag, outcome |-> file[i].record.outcome]
      BY DEF Entries
    <3> QED
      BY <2>1, <2>3, <3>1 DEF HttpInv, ChangesInv, TrailInv, TrailAgreesWithReplies
  <2>4. ASSUME succeeded(reply.result)
        PROVE  \E entry \in Entries : entry.tag = a.tag
    <3>1. PICK r \in acknowledged : r.tag = reply.tag
      BY <2>4 DEF HttpInv, ChangesInv, TrailInv, ServiceInv, SuccessIsAcknowledged
    <3>2. PICK i \in 1 .. Len(file) - 1 : file[i] = Line(r) /\ file[i + 1] = Newline
      BY DEF HttpInv, ChangesInv, TrailInv, ServiceInv, AuditInv, AcknowledgedIsWhole, HasLine
    <3>3. file[i].part = "line" /\ file[i].record = r
      BY <3>2 DEF Line
    <3>4. [tag |-> file[i].record.tag, outcome |-> file[i].record.outcome] \in Entries
      BY <3>2, <3>3 DEF Entries
    <3> QED
      BY <2>1, <3>1, <3>3, <3>4
  <2>5. ASSUME reply.result.kind = "rows"
        PROVE  \A change \in AllChanges : change.tag # a.tag
    <3>1. WriteOf(reply.result) = "none"
      BY <2>5 DEF WriteOf
    <3> QED
      BY <2>1, <3>1 DEF HttpInv, ChangesInv, RepliesTruthful, Truthful, Untouched
  <2> QED
    BY <2>2, <2>3, <2>4, <2>5
<1> QED
  BY <1>1, HttpAlways, PTL

(* Two texts that the policy rejects for different reasons get the same      *)
(* response, so that the reasons cannot be probed from outside.              *)
THEOREM RejectionsCannotBeToldApart == HttpSpec => []RejectionsLookAlike
<1>1. HttpInv => RejectionsLookAlike
  <2> SUFFICES ASSUME HttpInv, NEW a \in answers, NEW r \in submitted, r.tag = a.tag,
                      r.outcome = "PolicyRejected", r.details.reason # "EmptyInput"
               PROVE  a.response = response_for("PolicyRejected")
    BY DEF RejectionsLookAlike
  <2>1. a.tag # NoTag
    BY DEF HttpInv
  <2>2. PICK reply \in replies :
          reply.tag = a.tag /\ a.response = handle_query_result(reply.result)
    BY <2>1 DEF HttpInv, Rendered
  <2>3. reply.result = Failure(client_failure_for(r.details.reason))
    BY <2>2 DEF HttpInv, RepliesAreTold, ToldAsRejected
  <2>4. reply.result = Failure("PolicyRejected")
    BY <2>3 DEF client_failure_for
  <2> QED
    BY <2>2, <2>4 DEF handle_query_result, Failure
<1> QED
  BY <1>1, HttpAlways, PTL
==============================================================================

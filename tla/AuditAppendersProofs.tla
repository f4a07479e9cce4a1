----------------------- MODULE AuditAppendersProofs -----------------------
(***************************************************************************)
(* What the audit repository keeps for any number of threads, records and  *)
(* restarts when its callers are not serialized by anybody else.           *)
(***************************************************************************)
EXTENDS AuditAppenders, JsonlAuditRepositoryProofs

AppendersInv ==
  AuditInv /\ CopyInv /\ boot \in 1 .. MaxBoots /\ submitted \subseteq Records

(* The invariant holds before the first append(). *)
LEMMA InitInv == Init => AppendersInv
BY AuditInitInv, CopyInitInv, BootsAssumption DEF Init, AppendersInv, AuditInit

(* Every step of every caller, and a restart, keeps it. *)
LEMMA NextInv == AppendersInv /\ [Next]_vars => AppendersInv'
<1> SUFFICES ASSUME AppendersInv, [Next]_vars
             PROVE  AppendersInv'
  OBVIOUS
<1> USE DEF AppendersInv
<1>1. ASSUME NEW t \in Threads, CallAppend(t)
      PROVE  AppendersInv'
  <2>1. PICK r \in Records \ submitted : StartAppend(t, r) \/ AppendThrows(t, r)
    BY <1>1 DEF CallAppend
  <2>2. AuditInv' /\ CopyInv'
    BY <2>1, StartInv, StartCopyInv, RecordsAssumption
  <2> QED
    BY <1>1, <2>1, <2>2 DEF CallAppend, StartAppend, AppendThrows
<1>2. ASSUME NEW t \in Threads, RunAppend(t)
      PROVE  AppendersInv'
  <2>1. AuditInv' /\ CopyInv'
    BY <1>2, AppendStepInv, AppendStepCopyInv DEF RunAppend
  <2>2. UNCHANGED <<submitted, boot>>
    BY <1>2 DEF RunAppend, AppendStep, LockStream, LockClosedStream, InsertLine,
                InsertNewline, Insert, FlushWrites, FlushFails, FlushBadStream, CheckStream
  <2> QED
    BY <2>1, <2>2
<1>3. ASSUME NEW t \in Threads, ReturnFromAppend(t)
      PROVE  AppendersInv'
  BY <1>3, TakeAppendResultInv, TakeCopyInv DEF ReturnFromAppend, TakeAppendResult
<1>4. CASE RestartRepository
  <2>1. AuditInv' /\ CopyInv' /\ submitted' = submitted
    BY <1>4, AuditRestartInv, RestartCopyInv DEF RestartRepository, AuditRestart
  <2>2. boot' \in 1 .. MaxBoots
    BY <1>4, BootsAssumption DEF RestartRepository
  <2> QED
    BY <2>1, <2>2
<1>5. CASE AllAppended
  BY <1>5, StutterInv, CopyStutterInv DEF AllAppended, vars, auditVars
<1>6. CASE UNCHANGED vars
  BY <1>6, StutterInv, CopyStutterInv DEF vars, auditVars
<1> QED
  BY <1>1, <1>2, <1>3, <1>4, <1>5, <1>6 DEF Next

(* append()'s state stays in its types, whoever calls it. *)
THEOREM TypeCorrectness == Spec => []TypeOK
<1>1. AppendersInv => TypeOK
  BY DEF AppendersInv, AuditInv, TypeOK
<1> QED
  BY <1>1, InitInv, NextInv, PTL DEF Spec

(* Whatever append() answered Ok for is whole in the file, for ever: through *)
(* every interleaving of callers, every failed write and every restart.      *)
THEOREM AcknowledgedRecordsAreWhole == Spec => []AcknowledgedIsWhole
<1>1. AppendersInv => AcknowledgedIsWhole
  BY DEF AppendersInv, AuditInv
<1> QED
  BY <1>1, InitInv, NextInv, PTL DEF Spec

(* One process never writes behind a line it has torn. *)
THEOREM TornLinesStayLast == Spec => []TornTailStaysLast
<1>1. AppendersInv => TornTailStaysLast
  BY DEF AppendersInv, AuditInv
<1> QED
  BY <1>1, InitInv, NextInv, PTL DEF Spec

(* "no retries": no failed write, no other caller and no restart ever puts a *)
(* record into the file a second time, whole or in part.                     *)
THEOREM NoRecordIsWrittenTwice == Spec => []AtMostOneCopy
<1>1. AppendersInv => AtMostOneCopy
  BY DEF AppendersInv, CopyInv
<1> QED
  BY <1>1, InitInv, NextInv, PTL DEF Spec

----------------------------------------------------------------------------
(* The repository implements its port.  The refinement mapping counts a      *)
(* record once its line is whole, so what has to be shown of each step is    *)
(* which lines it makes whole: a flush that succeeds, its own; no other step *)
(* any, the write a crash cuts short included.                               *)
Trail == {r \in submitted : HasLine(r)}
Calls == [t \in Threads |-> CallOf(t)]

(* A step of thread t that moves its call and records what it says. *)
LEMMA CallsMove ==
  ASSUME NEW t \in Threads, NEW value, CallOf(t)' = value,
         \A u \in Threads \ {t} : CallOf(u)' = CallOf(u)
  PROVE  Calls' = [Calls EXCEPT ![t] = value]
BY DEF Calls

(* The mapped initial state is the port's. *)
LEMMA InitRefines == Init => Port!Init
<1> SUFFICES ASSUME Init PROVE Port!Init
  OBVIOUS
<1>1. Trail = {}
  BY DEF Init, AuditInit, Trail
<1>2. Calls = [t \in Threads |-> "none"]
  BY DEF Init, AuditInit, Calls, CallOf
<1> QED
  BY <1>1, <1>2 DEF Init, AuditInit, NoRecord, Port!Init, Trail, Calls

(* Entering append() is the port's Call. *)
LEMMA CallRefines ==
  ASSUME AppendersInv, NEW t \in Threads, CallAppend(t)
  PROVE  Port!Call(t)
<1>1. PICK r \in Records \ submitted : StartAppend(t, r) \/ AppendThrows(t, r)
  BY DEF CallAppend
<1>2. /\ append_pc[t] = "idle"
      /\ append_record' = [append_record EXCEPT ![t] = r]
      /\ submitted' = submitted \cup {r} /\ UNCHANGED <<file, stream>>
      /\ \A u \in Threads \ {t} : append_pc'[u] = append_pc[u] /\ append_result'[u] = append_result[u]
      /\ \/ append_pc'[t] = "lock"
         \/ append_pc'[t] = "returned" /\ append_result'[t] = "WriteFailure"
  BY <1>1 DEF StartAppend, AppendThrows, AppendReturns, AppendersInv, AuditInv, AuditTypeOK
<1>3. Trail' = Trail
  <2>1. \A q : HasLine(q)' <=> HasLine(q)
    BY <1>2 DEF HasLine, Line, Newline, NoRecord
  <2>2. ~HasLine(r)
    BY <1>1, NewRecordIsNowhere, RecordsAssumption DEF AppendersInv
  <2> QED
    BY <1>2, <2>1, <2>2 DEF Trail
<1>4. CallOf(t) = "none" /\ CallOf(t)' \in {"pending", "failed"}
  BY <1>2 DEF CallOf
<1>5. \A u \in Threads \ {t} : CallOf(u)' = CallOf(u)
  BY <1>2 DEF CallOf
<1>6. Calls' \in {[Calls EXCEPT ![t] = "pending"], [Calls EXCEPT ![t] = "failed"]}
  BY <1>4, <1>5, CallsMove
<1>7. r \in Records \ Trail
  BY <1>1 DEF Trail
<1>8. Calls[t] = "none"
  BY <1>4 DEF Calls
<1> QED
  BY <1>2, <1>3, <1>6, <1>7, <1>8 DEF Port!Call, Port!Set, Trail, Calls

(* A step inside append() that leaves the file alone gives the answer or     *)
(* changes nothing the caller sees.                                          *)
LEMMA QuietRefines ==
  ASSUME AppendersInv, NEW t \in Threads,
         \/ LockStream(t) \/ LockClosedStream(t) \/ InsertLine(t) \/ InsertNewline(t)
         \/ FlushBadStream(t) \/ CheckStream(t)
  PROVE  Port!Answer(t) \/ UNCHANGED Port!vars
<1>1. /\ UNCHANGED <<file, stream, submitted, append_record>>
      /\ \A u \in Threads \ {t} : append_pc'[u] = append_pc[u] /\ append_result'[u] = append_result[u]
      /\ \/ CallOf(t)' = CallOf(t)
         \/ CallOf(t) = "pending" /\ CallOf(t)' = "failed"
         \/ CallOf(t) = "recorded" /\ CallOf(t)' = "ok"
  BY DEF LockStream, LockClosedStream, InsertLine, InsertNewline, Insert, FlushBadStream,
         CheckStream, AppendReturns, AppendersInv, AuditInv, AuditTypeOK, CallOf
<1>2. Trail' = Trail
  BY <1>1 DEF Trail, HasLine, Line, Newline, NoRecord
<1>3. \A u \in Threads \ {t} : CallOf(u)' = CallOf(u)
  BY <1>1 DEF CallOf
<1>4. CASE CallOf(t)' = CallOf(t)
  BY <1>1, <1>2, <1>3, <1>4 DEF Port!vars, Trail, Calls
<1>5. CASE CallOf(t)' # CallOf(t)
  <2>1. Calls[t] = CallOf(t) /\ Calls' = [Calls EXCEPT ![t] = CallOf(t)']
    BY <1>3, CallsMove DEF Calls
  <2> QED
    BY <1>1, <1>2, <1>5, <2>1 DEF Port!Answer, Port!Set, Trail, Calls
<1> QED
  BY <1>4, <1>5

(* A flush that succeeds records the record, one that fails does nothing     *)
(* the caller could see.                                                     *)
LEMMA FlushRefines ==
  ASSUME AppendersInv, NEW t \in Threads, FlushWrites(t) \/ FlushFails(t)
  PROVE  Port!RecordIt(t) \/ UNCHANGED Port!vars
<1> DEFINE r == append_record[t]
<1>1. /\ r \in submitted /\ append_pc[t] = "flush"
      /\ \A u \in Threads : append_pc'[u] = IF u = t THEN "check" ELSE append_pc[u]
      /\ \A u \in Threads \ {t} : append_pc[u] \notin {"line", "newline", "flush", "check"}
      /\ UNCHANGED <<append_record, append_result, submitted>>
  BY FlushEffect DEF AppendersInv
<1>2. \A q : HasLine(q)' <=> HasLine(q) \/ (stream' = "good" /\ q = r)
  BY FlushedLines DEF AppendersInv
<1>3. \A u \in Threads \ {t} : CallOf(u)' = CallOf(u)
  BY <1>1 DEF CallOf
<1>4. CallOf(t) = "pending" /\ CallOf(t)' = IF stream' = "good" THEN "recorded" ELSE "pending"
  BY <1>1 DEF CallOf
<1>5. CASE stream' = "good"
  <2>1. Trail' = Trail \cup {r}
    BY <1>1, <1>2, <1>5 DEF Trail
  <2>2. Calls[t] = "pending" /\ Calls' = [Calls EXCEPT ![t] = "recorded"]
    BY <1>3, <1>4, <1>5, CallsMove DEF Calls
  <2> QED
    BY <1>1, <2>1, <2>2 DEF Port!RecordIt, Port!Set, Trail, Calls
<1>6. CASE stream' # "good"
  <2>1. Trail' = Trail /\ Calls' = Calls
    BY <1>1, <1>2, <1>3, <1>4, <1>6 DEF Trail, Calls
  <2> QED
    BY <1>1, <2>1 DEF Port!vars, Trail, Calls
<1> QED
  BY <1>5, <1>6

(* Taking the answer is the port's Return. *)
LEMMA ReturnRefines ==
  ASSUME AppendersInv, NEW t \in Threads, ReturnFromAppend(t)
  PROVE  Port!Return(t)
<1>1. /\ UNCHANGED <<file, stream, submitted>>
      /\ append_pc[t] = "returned" /\ append_pc'[t] = "idle"
      /\ append_record' = [append_record EXCEPT ![t] = NoRecord]
      /\ \A u \in Threads \ {t} : append_pc'[u] = append_pc[u] /\ append_result'[u] = append_result[u]
  BY DEF ReturnFromAppend, TakeAppendResult, AppendersInv, AuditInv, AuditTypeOK
<1>2. Trail' = Trail
  BY <1>1 DEF Trail, HasLine, Line, Newline, NoRecord
<1>3. CallOf(t) \in {"ok", "failed"} /\ CallOf(t)' = "none"
  BY <1>1 DEF CallOf
<1>4. \A u \in Threads \ {t} : CallOf(u)' = CallOf(u)
  BY <1>1 DEF CallOf
<1>5. Calls[t] \in {"ok", "failed"} /\ Calls' = [Calls EXCEPT ![t] = "none"]
  BY <1>3, <1>4, CallsMove DEF Calls
<1> QED
  BY <1>1, <1>2, <1>5 DEF Port!Return, Port!Set, Trail, Calls, NoRecord

(* A restart is the port's Crash. *)
LEMMA RestartRefines ==
  ASSUME AppendersInv, RestartRepository
  PROVE  Port!Crash
<1>1. /\ UNCHANGED submitted
      /\ append_pc' = [t \in Threads |-> "idle"]
      /\ append_record' = [t \in Threads |-> <<>>]
  BY DEF RestartRepository, AuditRestart, NoRecord
<1>2. Trail' = Trail
  BY <1>1, RestartedLines DEF AppendersInv, RestartRepository, Trail
<1>3. Calls' = [t \in Threads |-> "none"]
  BY <1>1 DEF Calls, CallOf
<1> QED
  BY <1>1, <1>2, <1>3 DEF Port!Crash, Trail, Calls

(* append() implements its port: every step of every caller, every failed    *)
(* write and every restart is a step of AuditTrail or none at all.           *)
THEOREM AppendImplementsItsPort == Spec => ImplementsAuditTrail
<1>1. AppendersInv /\ [Next]_vars => [Port!Next]_(Port!vars)
  <2> SUFFICES ASSUME AppendersInv, [Next]_vars
               PROVE  Port!Next \/ UNCHANGED Port!vars
    OBVIOUS
  <2>1. ASSUME NEW t \in Threads, CallAppend(t) \/ RunAppend(t) \/ ReturnFromAppend(t)
        PROVE  Port!Next \/ UNCHANGED Port!vars
    BY <2>1, CallRefines, QuietRefines, FlushRefines, ReturnRefines
    DEF RunAppend, AppendStep, Port!Next
  <2>2. CASE RestartRepository
    BY <2>2, RestartRefines DEF Port!Next
  <2>3. CASE UNCHANGED vars \/ AllAppended
    BY <2>3 DEF AllAppended, vars, auditVars, Port!vars, CallOf, HasLine, Line, Newline,
                NoRecord
  <2> QED
    BY <2>1, <2>2, <2>3 DEF Next
<1> QED
  BY <1>1, InitRefines, InitInv, NextInv, PTL DEF Spec, ImplementsAuditTrail, Port!Spec
===========================================================================

--------------------------- MODULE AuditAppenders ---------------------------
(***************************************************************************)
(* The audit repository on its own, called by threads that append distinct *)
(* records (handle() builds a fresh record for every request).  The        *)
(* interface promises thread safety by itself, so here nothing above it    *)
(* serializes the callers.                                                 *)
(***************************************************************************)
EXTENDS JsonlAuditRepository

CONSTANT Records    \* the records the callers append, each once

ASSUME RecordsAssumption == NoRecord \notin Records

vars == <<auditVars, boot>>

Init == AuditInit /\ boot = 1

CallAppend(t) ==
  /\ \E r \in Records \ submitted : StartAppend(t, r) \/ AppendThrows(t, r)
  /\ UNCHANGED boot

RunAppend(t) == AppendStep(t) /\ UNCHANGED boot

ReturnFromAppend(t) == TakeAppendResult(t) /\ UNCHANGED boot

RestartRepository ==
  /\ boot < MaxBoots
  /\ boot' = boot + 1
  /\ AuditRestart

(* Nothing is left to append and nobody is inside append(): not a deadlock. *)
AllAppended ==
  /\ submitted = Records
  /\ \A t \in Threads : append_pc[t] = "idle"
  /\ UNCHANGED vars

Next ==
  \/ \E t \in Threads : CallAppend(t) \/ RunAppend(t) \/ ReturnFromAppend(t)
  \/ RestartRepository
  \/ AllAppended

(* A thread inside append() keeps running; a free mutex is eventually taken. *)
Fairness == \A t \in Threads : WF_vars(RunAppend(t))

Spec ==
  Init /\ [][Next]_vars /\ Fairness

----------------------------------------------------------------------------
(* The variables stay in their types. *)
TypeOK == boot \in 1 .. MaxBoots /\ submitted \subseteq Records /\ AuditTypeOK

(* Whoever takes the repository's mutex gives it back (or the process is     *)
(* restarted), whichever return path of append() it takes.                   *)
AuditLockIsReleased ==
  \A t \in Threads : audit_mutex = t ~> audit_mutex # t

----------------------------------------------------------------------------
(* The repository as its callers see it: a record counts once its line is    *)
(* whole, and a call has done its work when that line is in the file.        *)
CallOf(t) ==
  CASE append_pc[t] = "idle" -> "none"
    [] append_pc[t] = "check" /\ stream = "good" -> "recorded"
    [] append_pc[t] = "returned" -> IF append_result[t] = "Ok" THEN "ok" ELSE "failed"
    [] OTHER -> "pending"

Port ==
  INSTANCE AuditTrail WITH
    Callers <- Threads,
    trail <- {r \in submitted : HasLine(r)},
    call <- [t \in Threads |-> CallOf(t)],
    record <- append_record

(* append() implements its port: whatever the threads, the failed writes and *)
(* the restarts do, a caller sees an append that happened at one moment and  *)
(* was answered Ok, or one that did not happen and was answered a failure.   *)
ImplementsAuditTrail == Port!Spec
=============================================================================

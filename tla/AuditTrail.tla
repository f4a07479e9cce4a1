----------------------------- MODULE AuditTrail -----------------------------
(***************************************************************************)
(* What ports::IAuditRepository promises its callers, without streams,     *)
(* buffers and locks: append() records its record at one moment between    *)
(* call and return or not at all, answers Ok exactly when it did, and what *)
(* is recorded stays, also when the process dies.                          *)
(***************************************************************************)
CONSTANTS Callers,   \* who calls append()
          Records    \* what they append

VARIABLES trail,   \* the records a reader of the trail finds
          call,    \* what each caller's append() has come to
          record   \* the record it was called with

vars == <<trail, call, record>>

Set(f, c, value) == [f EXCEPT ![c] = value]

Init ==
  /\ trail = {}
  /\ call = [c \in Callers |-> "none"]
  /\ record = [c \in Callers |-> <<>>]

(* No recorded record is appended again; the call may fail at once. *)
Call(c) ==
  /\ call[c] = "none"
  /\ \E r \in Records \ trail : record' = Set(record, c, r)
  /\ call' \in {Set(call, c, "pending"), Set(call, c, "failed")}
  /\ UNCHANGED trail

RecordIt(c) ==
  /\ call[c] = "pending"
  /\ trail' = trail \cup {record[c]}
  /\ call' = Set(call, c, "recorded")
  /\ UNCHANGED record

Answer(c) ==
  /\ \/ call[c] = "pending" /\ call' = Set(call, c, "failed")
     \/ call[c] = "recorded" /\ call' = Set(call, c, "ok")
  /\ UNCHANGED <<trail, record>>

Return(c) ==
  /\ call[c] \in {"ok", "failed"}
  /\ call' = Set(call, c, "none")
  /\ record' = Set(record, c, <<>>)
  /\ UNCHANGED trail

(* The calls of a process that dies are gone; the trail is not. *)
Crash ==
  /\ call' = [c \in Callers |-> "none"]
  /\ record' = [c \in Callers |-> <<>>]
  /\ UNCHANGED trail

Next ==
  \/ \E c \in Callers : Call(c) \/ RecordIt(c) \/ Answer(c) \/ Return(c)
  \/ Crash

Spec == Init /\ [][Next]_vars
=============================================================================

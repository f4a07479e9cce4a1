--------------------------- MODULE AuditedGateway ---------------------------
(***************************************************************************)
(* What ProxyService promises, without threads, locks, connections and     *)
(* streams: requests are served one at a time, in the order of their tags; *)
(* a request may change the database once, if its text is permitted, and   *)
(* may be recorded once; and its answer never says more than what the      *)
(* trail and the database then hold.  A change here is one made by a       *)
(* statement; what functions a query calls is not the gateway's business.  *)
(***************************************************************************)
EXTENDS Naturals, Sequences

CONSTANTS Sqls,          \* what clients may send
          Permitted(_),  \* whether the text is the one write the policy allows
          Counts,        \* numbers of rows a write may report
          Outcomes,      \* what a trail entry or an answer may say
          Nobody         \* no request is being served

VARIABLES serving,    \* the request being served: its tag and its text
          last,       \* the tag of the last request begun
          trail,      \* the entries a reader finds: tag and outcome
          database,   \* the changes made, in order: tag, text and rows
          doubtful,   \* changes the database may still make
          answers     \* what clients were told: tag, outcome and write

vars == <<serving, last, trail, database, doubtful, answers>>

(* What an answer lets the client conclude about its write. *)
Knowledge == {"done", "none", "unknown"}

Made(tag) == {i \in DOMAIN database : database[i].tag = tag}
NothingChanged(tag) == Made(tag) = {} /\ \A change \in doubtful : change.tag # tag

Init ==
  /\ serving = Nobody
  /\ last = [boot |-> 1, request_id |-> 0]
  /\ trail = {} /\ database = <<>> /\ doubtful = {} /\ answers = {}

Begin ==
  /\ serving = Nobody
  /\ last' = [last EXCEPT !.request_id = @ + 1]
  /\ \E text \in Sqls : serving' = [tag |-> last', sql |-> text]
  /\ UNCHANGED <<trail, database, doubtful, answers>>

(* The one change of this request, if it has made none yet. *)
Change(n) == [tag |-> serving.tag, sql |-> serving.sql, affected_rows |-> n]
MayChange ==
  serving # Nobody /\ Permitted(serving.sql) /\ NothingChanged(serving.tag)

Commit ==
  /\ MayChange
  /\ \E n \in Counts : database' = Append(database, Change(n))
  /\ UNCHANGED <<serving, last, trail, doubtful, answers>>

Doubt ==
  /\ MayChange
  /\ \E n \in Counts : doubtful' = doubtful \cup {Change(n)}
  /\ UNCHANGED <<serving, last, trail, database, answers>>

Settle ==
  /\ \E change \in doubtful :
       database' = Append(database, change) /\ doubtful' = doubtful \ {change}
  /\ UNCHANGED <<serving, last, trail, answers>>

Record ==
  /\ serving # Nobody
  /\ \A entry \in trail : entry.tag # serving.tag
  /\ \E outcome \in Outcomes :
       trail' = trail \cup {[tag |-> serving.tag, outcome |-> outcome]}
  /\ UNCHANGED <<serving, last, database, doubtful, answers>>

(* A success is told only when it is recorded, a recorded outcome is the    *)
(* one told, and what is said about the write is true.                      *)
Answer(outcome, write) ==
  /\ serving # Nobody
  /\ outcome = "Success" => [tag |-> serving.tag, outcome |-> "Success"] \in trail
  /\ \A entry \in trail : entry.tag = serving.tag => entry.outcome = outcome
  /\ write = "none" => NothingChanged(serving.tag)
  /\ write = "done" => \E i \in DOMAIN database : Made(serving.tag) = {i}
  /\ answers' = answers \cup {[tag |-> serving.tag, outcome |-> outcome, write |-> write]}
  /\ serving' = Nobody
  /\ UNCHANGED <<last, trail, database, doubtful>>

(* The request being served is lost, and its change may still be made. *)
Crash ==
  /\ serving' = Nobody
  /\ last' = [boot |-> last.boot + 1, request_id |-> 0]
  /\ \/ UNCHANGED doubtful
     \/ MayChange /\ \E n \in Counts : doubtful' = doubtful \cup {Change(n)}
  /\ UNCHANGED <<trail, database, answers>>

Next ==
  \/ Begin \/ Commit \/ Doubt \/ Settle \/ Record \/ Crash
  \/ \E outcome \in Outcomes, write \in Knowledge : Answer(outcome, write)

Spec == Init /\ [][Next]_vars
=============================================================================

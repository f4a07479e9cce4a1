-------------------------- MODULE MCAuditAppenders --------------------------
(* Two threads, three records, three processes. *)
EXTENDS AuditAppenders

CONSTANTS t1, t2, r1, r2, r3
=============================================================================

--------------------------- MODULE ServiceProcess ---------------------------
(***************************************************************************)
(* The operating-system process the proxy runs in.  cpp-httplib hands each *)
(* request to one of its worker threads; the container is restarted after  *)
(* a crash (docker-compose: restart: unless-stopped), and nothing of a     *)
(* process survives into the next one but the audit file and the database. *)
(***************************************************************************)
EXTENDS Naturals

CONSTANTS Threads,   \* worker threads of the HTTP server's pool
          NoThread,  \* the owner of a mutex nobody holds
          MaxBoots   \* bound: how many times the process is started

ASSUME ThreadsAssumption == NoThread \notin Threads
ASSUME BootsAssumption == MaxBoots \in Nat \ {0}

(* No line of the audit file holds it: across restarts a reader of the file *)
(* cannot tell requests of the same id apart, where a property here can.    *)
VARIABLE boot        \* which start of the process this is, from 1 (history)
=============================================================================

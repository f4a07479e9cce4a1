---------------------------- MODULE ServiceStart ----------------------------
(***************************************************************************)
(* main.cpp, with logging/system_log.cpp: from the start of the process to *)
(* listen().  Variables are read from the environment in the code's order, *)
(* the first one that cannot be used ends the process, and only then are   *)
(* the components built, the audit file opened and the port bound.  A      *)
(* process that has ended is started again.                                *)
(***************************************************************************)
EXTENDS Config

CONSTANT Values   \* the values a variable may have in the environment

ASSUME ValuesAssumption == Values \subseteq Seq(STRING)

VARIABLES
  phase,       \* what main() does next
  g_logger,    \* the global logger: "null" until init()
  env,         \* the variables read so far
  port,        \* port_resolution, or NotResolved
  timeout,     \* the timeout in database_resolution, or NotResolved
  audit_path,  \* the file the repository has opened, or NoPath
  bound,       \* whether the port is bound
  exit_code    \* the process's exit code, or -1

vars == <<phase, g_logger, env, port, timeout, audit_path, bound, exit_code>>

NotResolved == [valid |-> FALSE, value |-> -1]
Environment == Values \cup {Unset}
NoPath == <<"no path">>
kDefaultAuditLogPath == <<"audit.jsonl">>
NoEnv == [v \in {"PORT", "DATABASE_URL", "DB_STATEMENT_TIMEOUT_MS"} |-> Unset]

Init ==
  /\ phase = "init_logging"
  /\ g_logger = "null"
  /\ env = NoEnv
  /\ port = NotResolved /\ timeout = NotResolved
  /\ audit_path = NoPath
  /\ bound = FALSE
  /\ exit_code = -1

(* Fault: main() starts with the configuration. *)
InitLoggingNever ==
  /\ phase = "init_logging"
  /\ phase' = "port"
  /\ UNCHANGED <<g_logger, env, port, timeout, audit_path, bound, exit_code>>

(* system_log::init(), before anything that may have to be reported. *)
InitLogging ==
  /\ phase = "init_logging"
  /\ g_logger' = "spdlog"
  /\ phase' = "port"
  /\ UNCHANGED <<env, port, timeout, audit_path, bound, exit_code>>

(* system_log::logger()->...: a null logger ends the process on the spot. *)
Logged(next, code) ==
  IF g_logger = "null"
  THEN phase' = "crashed" /\ exit_code' = 139
  ELSE phase' = next /\ exit_code' = code

ResolvePort ==
  /\ phase = "port"
  /\ \E raw \in Environment :
       /\ env' = [env EXCEPT !["PORT"] = raw]
       /\ port' = resolve_port(raw)
  /\ IF port'.valid THEN phase' = "database" /\ UNCHANGED exit_code
                    ELSE Logged("exited", 1)
  /\ UNCHANGED <<g_logger, timeout, audit_path, bound>>

ResolveDatabase ==
  /\ phase = "database"
  /\ \E url \in {Unset, <<>>, <<"url">>}, raw \in Environment :
       /\ env' = [env EXCEPT !["DATABASE_URL"] = url, !["DB_STATEMENT_TIMEOUT_MS"] = raw]
       /\ timeout' = resolve_database_config(url, raw)
  /\ IF timeout'.valid THEN Logged("build", -1) ELSE Logged("exited", 1)
  /\ UNCHANGED <<g_logger, port, audit_path, bound>>

resolve_audit_log_path(configured) ==
  IF configured \notin {Unset, <<>>} THEN configured ELSE kDefaultAuditLogPath

(* Analyzer, executor, repository, service and server are constructed. *)
Build ==
  /\ phase = "build"
  /\ \E configured \in {Unset, <<>>, <<"path">>} :
       audit_path' = resolve_audit_log_path(configured)
  /\ phase' = "run"
  /\ UNCHANGED <<g_logger, env, port, timeout, bound, exit_code>>

(* server.run(): listen() binds and blocks until stop() ... *)
Run ==
  /\ phase = "run"
  /\ bound' = TRUE
  /\ Logged("listening", -1)
  /\ UNCHANGED <<g_logger, env, port, timeout, audit_path>>

(* ... or fails to bind. *)
FailToBind ==
  /\ phase = "run"
  /\ Logged("exited", 1)
  /\ UNCHANGED <<g_logger, env, port, timeout, audit_path, bound>>

ListenReturns ==
  /\ phase = "listening"
  /\ bound' = FALSE
  /\ phase' = "exited" /\ exit_code' = 0
  /\ UNCHANGED <<g_logger, env, port, timeout, audit_path>>

(* docker-compose: restart: unless-stopped, with whatever environment. *)
StartAgain ==
  /\ phase \in {"exited", "crashed"}
  /\ phase' = "init_logging" /\ g_logger' = "null" /\ env' = NoEnv
  /\ port' = NotResolved /\ timeout' = NotResolved
  /\ audit_path' = NoPath /\ bound' = FALSE /\ exit_code' = -1

Next ==
  \/ InitLogging \/ ResolvePort \/ ResolveDatabase \/ Build
  \/ Run \/ FailToBind \/ ListenReturns \/ StartAgain

Spec == Init /\ [][Next]_vars

----------------------------------------------------------------------------
(* The decimal numeral of a number, by division: how it should be written. *)
numeral[n \in Nat] ==
  LET last == <<DigitChars[(n % 10) + 1]>>
  IN  IF n < 10 THEN last ELSE numeral[n \div 10] \o last

Zeros(k) == [i \in 1 .. k |-> "0"]

(* raw writes the number n in decimal, perhaps with zeros in front. *)
Denotes(raw, n) == \E k \in 0 .. Len(raw) : raw = Zeros(k) \o numeral[n]

(* raw may be used: it is not set, or it writes a number of the range. *)
Usable(raw, max) == raw = Unset \/ \E n \in 1 .. max : Denotes(raw, n)

(* What the service runs with is what the environment says: the numbers are  *)
(* the ones written there, never truncated, wrapped or cut at a character    *)
(* that is no digit, and a variable that is not set has its default.         *)
RunsAsConfigured ==
  phase \in {"run", "listening"} =>
    /\ IF env["PORT"] = Unset THEN port.value = default_port
       ELSE port.value \in 1 .. kMaxPort /\ Denotes(env["PORT"], port.value)
    /\ IF env["DB_STATEMENT_TIMEOUT_MS"] = Unset
       THEN timeout.value = kDefaultStatementTimeoutMs
       ELSE /\ timeout.value \in 1 .. kMaxStatementTimeoutMs
            /\ Denotes(env["DB_STATEMENT_TIMEOUT_MS"], timeout.value)

(* The process refuses to start only when the variable it complains about    *)
(* cannot be used or the port cannot be bound, and a configuration it        *)
(* refuses has touched neither the audit file nor the port.                  *)
RefusedOnlyIfUnusable ==
  (phase = "exited" /\ exit_code = 1 /\ audit_path = NoPath) =>
    /\ ~bound
    /\ IF ~port.valid THEN ~Usable(env["PORT"], kMaxPort)
       ELSE \/ env["DATABASE_URL"] \in {Unset, <<>>}
            \/ ~Usable(env["DB_STATEMENT_TIMEOUT_MS"], kMaxStatementTimeoutMs)

(* "Logging is set up first so that configuration errors can be reported":   *)
(* no path through main() uses the logger before init().                     *)
LoggerIsReady == phase # "crashed"
=============================================================================

# A TLA+ model of the SQL proxy service

The proxy accepts SQL over HTTP, decides by a fixed policy whether a statement
may run, runs it on PostgreSQL, masks personal data in the rows and writes one
JSON line per request to an audit file. This directory models it from `main()` to
the audit file: its start, its HTTP workers, its pipeline and its use of the
database. TLC checks the models on small instances and shows that the audit
repository and the service implement abstract specifications of what they
promise; TLAPS proves, for every size, that no success leaves the service
unaudited, that trail, answers and committed inserts agree, that rows reach a client
only masked wherever its statement reads personal data by the name it is stored
under, what each mask reveals of a value of any length, and both refinements. Two
things the service does not do are part of the model too: it does not see through
names that a FROM clause gives to columns, and it does not look at what functions a
SELECT calls.

## The system

| Part (`src/src/...`) | State | Operations | What makes it correct |
| --- | --- | --- | --- |
| `core/proxy_service` | a mutex, the next request id | `handle()` from several worker threads | one request at a time; a success only after its audit line; the trail agrees with the client |
| `audit/jsonl_audit_repository` | an `ofstream` opened once, a mutex | `append()`; constructor | `Ok` only for a whole line; never writes behind its own torn line; no copies |
| `postgres/postgres_query_executor` | none between calls: a connection and a transaction per call | `execute()` | a failure is classified by what may have been committed |
| `parser/hyrise_sql_parser` | none | `parse()`: the syntax tree of the vendored parser to the project's own | nothing the policy needs is lost |
| `core/sql_analyzer` | none | `analyze()` | tables, shape and features of a statement |
| `core/policy_engine` | the authorized insert | `evaluate()` | the allowed statements are SELECTs without unseen parts and one insert form |
| `core/data_classifier` | the PII mappings | `classify()` | every result column attributed to what it was read from, or to nothing |
| `core/pii_masker` | none | `mask()` | PII cells masked, other cells untouched, refusal when in doubt |
| `core/audit_record` | none | the record factories | refuse inconsistent records; table names all or none |
| `http/` | the HTTP library's queue and worker threads | `POST /query` to `handle()`, result to JSON; `GET /health`; `run()`, `stop()` | the answer says what the trail says; every connection ends |
| `config/`, `main.cpp` | environment variables | validation, order of construction | nothing starts half configured, or otherwise than configured |
| `logging/` | a global logger, null until `init()` | text to standard output | ready before its first use |

An HTTP worker calls `handle()`. Under the pipeline mutex it draws an id, calls
parser, analyzer and policy; if the policy allows the text, the executor gets the
*text* (not the analysis) and answers with rows or a count; classifier and masker
turn the rows into what the client may see; the record is appended; only then
does `handle()` return and release the mutex. The audit repository has its own
mutex and promises to be safe without the outer one.

What is hard to test here: several threads in `handle()` or `append()`; a write
of the audit line that fails half way; a process that dies between COMMIT and the
audit line, or inside the write of it; a COMMIT whose answer is lost; exceptions at
any point of the pipeline; a result that cannot be rendered after it was audited;
a worker pool full of requests that wait for the database; numbers at the edge
of their ranges in the environment; and the combinatorics of select lists, FROM
clauses and masked values. Each of these is an entry under `hazards` in `PROJECT.json`,
with the properties that would catch it going wrong.

## Modules

    ServiceProcess            threads, the process and its restarts
      JsonlAuditRepository    append(), one action per step under the lock
        AuditAppenders        unserialized callers of append()
          AuditTrail          what they may rely on (abstract)
    SqlVocabulary             identifiers, and the syntax trees of texts
      HyriseSqlParser         parse()
        SqlAnalyzer           analyze()
          PolicyEngine        evaluate()
          DataClassifier      classify()
        PostgresDatabase      the server (external)
    PiiMasker, AuditRecord    mask(), the record factories
      RequestProcessing       the sequential part of ProxyService::process()
    MaskedAnswers             what a client may see of an answer of the server,
                              by where the server read it
    PostgresQueryExecutor     execute(), one action per round trip
    ProxyService              handle(): composes the repository, the executor
                              and RequestProcessing
      AuditedGateway          what its clients may rely on (abstract)
    Utf8                      what the JSON library accepts as a string (external)
      HttpAdapter             validation and rendering in routes.cpp
        HttpService           queue, workers, stop(): composes HttpAdapter with
                              ProxyService
    Config                    resolve_port(), resolve_database_config()
      ServiceStart            main(), with the logger
    StatementShapes           the sequential pipeline over every small statement
    MaskedValues              the masking rules over every small value
    MC*                       instances for TLC
    *Proofs                   invariants, lemmas and theorems for TLAPS

`PROJECT.json` maps every definition to its lines. The correspondence in short:

* **ProxyService.** `pc` is the position of a thread in `handle()`; `Acquire` is
  the `lock_guard` and the id; `Deny`, `ParserThrows`, `Approve`, `Complete` and the
  two `Throw` actions are the ways through `process()` and the catch around it;
  `Audit` calls `append_safely`; `Reply` turns an unaudited success into
  `InternalError`, returns and unlocks. The analysis is a function of the text, so
  it is recomputed where the code keeps a local. `replies` is history.
* **JsonlAuditRepository.** The file is a sequence of tokens: a whole line, a
  proper beginning of one, or a newline. `append()` serializes (`StartAppend` or
  `AppendThrows`), locks, inserts the line, inserts the newline, flushes and looks at
  the stream. `FlushFails` leaves any proper prefix in the file and sets the stream
  bad, which no code ever clears. A line is shorter than the size from which the
  standard library bypasses its buffer, so only the flush writes.
  `AuditRestart` may also leave a prefix: the process dies inside the write.
* **PostgresQueryExecutor.** Connect, BEGIN with the timeout, statement, COMMIT,
  each with the exceptions it can end in. `CommitInDoubt` is libpqxx's
  `in_doubt_error`: not a `broken_connection`, hence `ExecutionFailure`.
  `in_flight` holds COMMITs the server may still carry out when nobody waits for them
  any more (`LateCommit`), also after the proxy died.
* **HttpService.** The library's accept loop queues connections (`Accept`), an idle
  worker takes the first (`Take`, a conjunct of what it then does: `ServeHealth`,
  `Refuse`, `EnterPipeline` or `Drop`), and closes it with `Send`. Between
  `EnterPipeline` and `LeavePipeline`, where the result is rendered, the
  worker's steps are those of `ProxyService`. A cell that is not UTF-8 makes
  `dump()` throw, and the library answers 500 without a body (`HandlerThrew`).
  `Stop` and `RunReturns` are `stop()` and the end of `run()`.
* **Config, ServiceStart.** A value of the environment is a sequence of
  characters, `from_chars` is modelled by what it reads and refuses, and `main()` by
  one action per thing it does. `Logged` is a use of the global logger: with the
  null pointer it would end the process.
* **Pure components.** Each is a set of operators with the names of the code's
  functions. An identifier is a word of a `Lexicon` that says what the code looks at: its
  lower-case form, whether it starts with `pg_`, whether it is a plain
  identifier, its length. Values are sequences of bytes. An exception is the value
  `Throws`.
* **PostgresDatabase** is external: which columns and cells a SELECT returns. It
  resolves names as the server does: a table is called by its alias, an alias may
  rename the first columns, a qualifier (of a star too) picks a table, a name that is
  no column may be a table's whole row, `t.f` may be a function of that row, and a name
  with two meanings is refused. Each column of an answer carries its `Origin`,
  which the proxy never sees. Every query may also return no rows, fail or time out.
  `Writes` says whether a *statement* changes the database, `HasEffects` whether a
  *function* called in it does (`nextval`, `setval`): an attribute of the
  text, since neither the parser adapter nor the policy looks at it. `effects` in
  PostgresQueryExecutor is the set of requests whose functions may have
  changed something, from the moment the statement may have been running: what they do
  is kept by COMMIT or, like a sequence's value, kept whatever becomes of the
  transaction.
* **MaskedAnswers** says what a client may see of a cell, by its origin: of a stored
  column under its own name the cell masked by what the column holds; of a value read
  from no column (`COUNT(*)`) the cell; of a computation over columns nothing; of
  a renamed column or a whole row the cell masked or not, as nothing more is so.

Operators whose comment starts with *Fault:* are not part of any specification.
Each is a wrong version of the definition that follows it; `mutants` in
`PROJECT.json` names the property that notices it.

## Abstract specifications

* **AuditTrail** is the port `IAuditRepository` without streams and locks: an append
  happens at one moment or not at all, is answered accordingly, and survives the
  process. `AuditAppenders` implements it under the mapping `Port`: the trail is
  the set of records whose line is whole in the file, and a call counts as
  recorded from the flush that wrote the line. A record counts although a torn
  line of an earlier process stands before it on its line; whether it can be
  read there is the question of `torn_tail_restart`.
* **AuditedGateway** is the service without threads, connections and files: a
  request begins, may commit its one permitted change or leave it in doubt, may be
  recorded, and is answered; the answer may claim a success only if it is
  recorded, and a write made or not made only if that is so. A change is one made by
  a statement; effects of functions are outside it. `ProxyService`
  implements it under the mapping `Gateway`: the request served is the one of the
  thread that holds the mutex, the trail is the set of whole lines, and an answer
  is reduced to its outcome and to what it says of the write (`WriteOf`:
  `QueryFailed` and `InternalError` say nothing).

Both mappings are functions of the state; no variables were added for them.

## Runs

| Run | Instance | Shows |
| --- | --- | --- |
| `audit_repository` | 2 threads, 3 records, 3 processes | acknowledged records are whole, torn lines stay last, no second copy, the lock is released, `AuditTrail` is implemented |
| `service_mixed` | 2 threads, 2 requests, 2 processes, 7 kinds of text, counts 0 to 2 | serialization, audited successes, trail and replies agree, the file is in request order, only authorized inserts and functions of an allowed SELECT change the database, a confirmed write is committed exactly once, 503 means nothing was inserted and a rejection that nothing was called either, rows are the answer to the client's own text masked where PII is read by its name, `AuditedGateway` is implemented |
| `http_answers` | 2 workers, 2 connections, 2 processes, 5 kinds of request, a stored name that is not UTF-8 | trail and HTTP answer agree, rejections look alike |
| `http_liveness` | 2 workers, 2 connections, `stop()` at any time, no symmetry | every connection ends, the pipeline mutex comes back, `run()` returns |
| `http_stalled_database` | 2 workers, 2 connections, a database that may never answer | `/health` is answered while a worker is left |
| `service_start` | every value of up to 3 characters out of 7, `int` up to 127, ports up to 36, timeouts up to 60 | runs as configured, refuses only what cannot be used, reports through a logger that is there |
| `statement_shapes` | SELECTs of up to 3 entries and 4 parts, INSERTs of up to 3 values, UPDATE, DELETE, DDL and SHOW, each also twice in one text; tables with and without aliases, one with a column list | masking exactly where PII is read by its name, computed PII refused, no self-contradiction, the write policy, table names all or none |
| `masked_values` | emails of up to 6 bytes, numbers of up to 15 bytes | what each mask reveals, that it cuts no character in two, and that nothing passes through unmasked |
| `torn_tail_restart`, `unrecorded_reply`, `query_failed_wrote`, `renamed_column` | as above | sentences of the documentation that the code does not keep (below) |

**Why the bounds are enough.** Two threads are enough for every race on one mutex; a
third record, for a line after a failed append after a good one, and a third process,
for a torn tail behind a torn tail, are in the repository's own run; two processes are
enough for everything else about a restart. `MaxRequests`, `MaxBoots` and `Records`
bound the history only. The seven texts take each way through `process()`; one reads
PII under its own name beside a column that FROM has renamed, one calls a function
that changes a sequence. A select list shows a shift of columns from two entries on,
and three mix a star, a column and a computed entry. `kMaxReferencedTables` is 8 in
the code and 2 in `statement_shapes`, so that three tables are one too many; the
length limit keeps its value because lengths are attributes of words. Fifteen bytes
pass the thresholds of 7 and 12 digits with two separators to spare. Two connections
fill two workers and make one of them wait for the mutex, or one worker serve both.
The ranges of `service_start` are scaled down so that numbers inside them, at their
ends, beyond them and beyond `int` all have numerals of three characters.
`kMaxSqlLength` keeps its value: a request carries its size, and the sizes are the
limit and one more. Of the four transport refusals, which differ in nothing but their
code, the instance has this one. The two connections of `http_answers` are both
rejected by the policy or neither is (`AlikeConnections`): what a rejection does
beside a request that is executed is in `service_mixed`. Threads are interchangeable
in the runs without liveness only; both refinement mappings treat threads alike.
`statement_shapes` and `masked_values` build values, and stop when the value is
complete, so they are not checked for deadlock; the others are.

**Fairness.** Weak fairness of the steps of each thread inside `handle()`
(`HandleStep`) or `append()` (`RunAppend`): the scheduler runs a thread that can run.
No request has to arrive, no failure and no restart has to happen, and no particular
thread is favoured by the mutex. For the service this contains an assumption on the
server: each round trip is answered or the connection is reported lost. The code sets
`statement_timeout` for the statement and nothing for connecting, BEGIN and COMMIT, so
a server that accepts and stays silent there would block every worker:
`EveryConnectionEnds` says nothing of such a server. In `HttpService` the steps of
each worker and the return of `run()` are weakly fair. Requests are finitely many, so
a mutex that wakes its waiters in no particular order starves nobody within a run;
with endless requests the code would promise nothing here. `Drop` is left out of the
fairness: no client has to disappear. `StalledSpec` drops the assumption on the server
altogether: a worker inside `execute()` may stay there for ever, and what then still
holds is `HealthNeedsNoDatabase`, with its condition that fewer queries than workers
have come in. It is the best the code offers, since `/health` shares the pool.

## Proofs

The theorems hold for any set of threads, any number of requests and restarts and any
set of texts. What is assumed of the constants: `NoThread` is no thread and the bounds
are numbers (`ThreadsAssumption`, `BootsAssumption`, `RequestsAssumption`, for the
repository alone `RecordsAssumption`); the texts are what the grammar can produce
(`SqlsAssumption`, `TextsAssumption`); lower case is idempotent and no word is empty
(`LexiconAssumption`); the limits of a record are numbers (`AuditLimitsAssumption`);
the server keeps the names of columns in lower case (`SchemaAssumption`). What the
grammar can produce (`Grammatical`): an INSERT has one table and a list of values; a
SELECT has named tables or subqueries, each name perhaps with an alias and other names
for its columns, and a list of expressions of which a star has no arguments, a column
has a name and only a number is positive; an INSERT of nothing but numbers calls no
function. For single statements, the same of the parts they are built from
(`PartsAssumption`), and a statement the adapter has no case for refers to no table.
For values, `@` and the two bytes that UTF-8 is about are no letters
(`LettersAssumption`), and `@` is ASCII (`NonAsciiAssumption`). For the start of the
process, the largest port and timeout are positive numbers that fit an int
(`ConfigAssumption`), and a value of the environment is a sequence of characters
(`ValuesAssumption`). TLC evaluates each of them on the instances. Nothing is assumed
of how many rows the server says it inserted.

| Module | Theorems | Property |
| --- | --- | --- |
| `AuditAppendersProofs` | `TypeCorrectness`, `AcknowledgedRecordsAreWhole`, `TornLinesStayLast`, `NoRecordIsWrittenTwice` | `TypeOK`, `AcknowledgedIsWhole`, `TornTailStaysLast`, `AtMostOneCopy` |
| | `AppendImplementsItsPort` | `ImplementsAuditTrail` |
| `ProxyServiceProofs` | `TypeCorrectness`, `RequestsAreSerialized`, `SuccessesAreAudited` | `TypeOK`, `OneRequestAtATime`, `SuccessIsAudited` |
| | `TheTrailIsOrdered`, `TheTrailAgrees` | `TrailIsInRequestOrder`, `TrailAgreesWithReplies` |
| | `OnlyAuthorizedWrites`, `FailuresWroteNothing`, `ConfirmedWritesAreMade` | `OnlyOrderInsertsCommit`, `OtherFailuresWroteNothing`, `ConfirmedWriteIsCommittedOnce` |
| | `RowsLeaveMasked` | `RowsAreMaskedAnswers` |
| | `HandleImplementsTheGateway` | `ImplementsAuditedGateway` |
| `HttpServiceProofs` | `AnswersAreAsRecorded`, `RejectionsCannotBeToldApart` | `AnsweredAsRecorded`, `RejectionsLookAlike` |
| `StatementShapesProofs` | `OnlyTheOrderInsert`, `ThePipelineAgreesWithItself` | `OnlyTheAuthorizedWriteIsAllowed`, `NoInternalContradiction` |
| | `PiiReadByNameLeavesMasked`, `ComputedEntriesAreRefused`, `AllNamesOrNone` | `PiiReadByNameIsMasked`, `ComputedPiiIsRefused`, `TableNamesAreAllOrNothing` |
| `MaskedValuesProofs` | `NumbersAreMasked`, `CardsAreShownIffWellFormed`, `LocalPartsAreHidden` | `NumbersShowLastFourAtMost`, `CardsShownIffWellFormed`, `LocalPartIsHidden` |
| | `MaskedTextIsText`, `ValuesChange` | `MaskingKeepsUtf8`, `UnchangedOnlyIfMasked` |
| `ServiceStartProofs` | `TheServiceRunsAsConfigured`, `OnlyTheUnusableIsRefused`, `TheLoggerIsReady` | `RunsAsConfigured`, `RefusedOnlyIfUnusable`, `LoggerIsReady` |

`JsonlAuditRepositoryProofs` and `RequestProcessingProofs` hold the lemmas the others
rest on: what each step of `append()` keeps, and what the parser, the analyzer, the
policy, the classifier, the masker and the record factories make of a text and of
an answer.

*Repository.* "An acknowledged record is whole" is not inductive: nothing in it
says that a good stream after the flush means the line is there. `AuditInv`
adds that the mutex is held by exactly the thread between lock and return
(`AuditMutexHeld`); that a good stream's buffer holds exactly what the holder has
inserted (`BufferIsHolders`); that a good stream has written whole lines only
(`TailIsClean`); and what a caller knows on its way out (`CallersKnow`).
`JsonlAuditRepositoryProofs` shows once, for each action, that it keeps
`AuditInv`; both specifications that contain the repository cite those lemmas.
For the copies and for `AuditTrail`, `CopyInv` adds that a caller that has not
flushed finds its record neither in the file nor answered. Under `Port`, the
flush that writes the line is `RecordIt`, the return is `Answer`, a restart is
the abstract crash, and everything else is a stutter.

*Service.* `ServiceInv` adds to `AuditInv` that the mutex is held by exactly the
thread inside the pipeline (`MutexHeld`), that executor and repository run only
inside their call (`CallsNest`), that the record being appended is the one of the
result being returned (`RecordsMatch`), and that successes are acknowledged
(`SuccessIsAcknowledged`). `RecordsMatch` is where the sequential
code enters: `DeniedMatches` and `ExecutedMatches` show that every path of
`process()` pairs a success with a `Success` record of the same request, whatever
the analysis and the execution result are. `SuccessIsAudited` follows from
`SuccessIsAcknowledged` and `AcknowledgedIsWhole`.

*Trail.* That the file is in request order needs to be said of the future: every
request that has been answered, recorded or has changed something drew its
id before the one that holds the mutex (`TrailInv`). Ids are drawn under the
mutex and restarts raise the boot number, so the next line is later than all
the others, and a record and a reply with one tag come from one pass through
`process()`, where `RecordsMatch` compares them. The boot number is the model's: the
line has the request id alone, which `audit_record.h` says carries no identity
across restarts. So the theorems order the lines and match them with the replies of
the process that wrote them, and do not say that a reader can tell the
processes apart.

*Writes.* `ChangesInv` says, for every position inside `execute()`, what the
transaction of the request may have left in the database: nothing before COMMIT, one
change after it, perhaps one in doubt. That only authorized inserts commit
also needs that the *text* sent to the server is what the policy has seen:
`AllowedTexts` shows that an allowed text is one SELECT or one INSERT of the
authorized form, and no statement beside it.

*Effects.* What functions may have changed needs an invariant of its own. `EffectsInv`
says of every effect that its text is one SELECT, and that its request is over, or is
the one being served and the executor has or had it (`Called`). An allowed INSERT
has two numbers for values and calls nothing (`ApprovedEffects`), and no result
`process()` makes of an execution is a rejection (`ExecutedIsNotRejected`). So
a client that was told `empty_sql`, `invalid_sql` or `policy_rejected` has had
nothing called. One that was told `masking_refused` may have: the SELECT had run,
and was committed, when its answer was refused.

*Rows.* `RowsAreMaskedAnswers` says of a reply what `MaskedAnswers` says of a
statement: its rows are an answer of the database to that text, each cell read from a
PII column under its own name masked by the category of that column. Where a cell was
read is the server's finding (`Meant`, `ColumnsOf`), by scopes, aliases and the
schema; the classifier goes by shapes and names. That both agree is the content of the
proof, and where they need not agree, for renamed columns and whole rows, nothing but
"masked or unchanged" is claimed. The reply is far from the statement that was run, so
`AnswersInv` follows the result set: from the moment the statement has run until
`execute()` returns `Ok`, the executor holds an answer to the text of the request it
serves (`AnswersOwn`, with `ExecutesOwn` for whose text that is), and from then on
`processing` holds no rows or the masked ones. `QueryIsShownMasked` is the step
between the two: the allowed text is one SELECT, its analysis is that SELECT's, and
`QueryOutcome` says what `process()` makes of it. Denials, exceptions, failed
executions and the count of an INSERT have no rows.

*Gateway.* Under the mapping (`Serving`, `LastBegun`, `Told`), `Acquire` is
`Begin`, the commit of the server `Commit`, a lost answer to COMMIT `Doubt`, a late
commit `Settle`, the flush that writes the line `Record`, `Reply` is `Answer`, a
restart `Crash`. The conditions the abstract actions put on an answer are
`SuccessIsAudited` and the three theorems on writes, one step earlier.

*HTTP.* `ServerDrivesPipeline` shows that every step of `HttpService` is a step of
`ProxyService` or leaves its variables alone, so everything above holds behind
the server too. `HttpInv` adds that an answer is the rendering of a reply
`handle()` gave that worker, or comes from before or beside the pipeline.

*Statements.* `ShapeInv` says that what was built is a statement of the grammar,
perhaps twice; the bounds of the run play no part in it, so statements are
as long as one likes. The rest is about operators. `Masking` and `ReadOutcome` show
that the classifier's answer always passes the masker's checks, so that a query is
answered, or refused for want of attribution, and for no other reason.
`ColumnOrigins` and `StarAnswers` say what the server means by a name and by a star;
`ClassesFit` takes the three shapes one by one and shows that the class of each
column allows what `MaskedAnswers` does for its origin (`KnownByNameFits`: a column
known by its own name gets the class of that name); `MaskedByOrigin` concludes that
the rows are masked by it. `AllNamesOrNone`
rests on `NormalizedNames`: the analysis has each name of the statement once.

Select lists, joins and projections are flattened sequences of parts, and facts
about them need induction. The induction theorems of the library take a predicate,
which these provers cannot instantiate; `Induction` and `BoundedInduction` take the
*set* of the numbers that have the property instead, and follow from the
well-foundedness of the naturals. `Flattening` unfolds `FlattenSeq` with them, and
`FlattenOnes`, `FlattenHolds` and `FlattenKeepsParts` are what
is needed of it.

*Values.* `MaskInv` says only which bytes a value is made of; how long it is plays
no part. What is shown of numbers rests on `DigitsBehind`, an induction on the
bytes: collecting the digits of stars with digits behind them gives those digits.
For emails, `LocalPartDoesNotShow` compares two values that differ behind the first byte
and before the `@`: whether there is one `@` at all, where the domain begins and what
it is are the same for both. `AddressBytes` has the masked address byte by byte,
from which `MaskedTextIsText` and `ValuesChange` follow.

*Start.* Two definitions by recursion meet here: the code's number, read from the
left digit by digit (`ValueOf`), and the numeral of a number, got by
division (`numeral`). `DigitsDenoteTheirValue` and `DenotedIsTheValue` show, by
`StrongInduction`, that they are inverse to each other up to zeros in front, and
`MatchedDigits` that a value read to its end without a sign is nothing but digits.
So a value is either accepted as the number it denotes or denotes none of its range
(`AcceptedOrRefused`). `StartInv` carries that through `main()`, phase by phase,
with the logger there after the first one and the audit file closed until
the last.

Checked by TLC only: the three liveness properties `AuditLockIsReleased`,
`EveryConnectionEnds` and `HealthNeedsNoDatabase`, since fairness and ENABLED are
beyond the proof system.
Every other property of a passing run is proved; for the two refinements TLC
checks the same formula that the theorems prove.

## Where code and documentation disagree

* `torn_tail_restart`: the audit header says a malformed line already in the file
  never affects appends. A torn line has no newline; the next process's first
  acknowledged record is glued to it, and neither is a JSON line.
* `unrecorded_reply`: the repository's README says every request produces one
  record. A request whose append fails is answered without one.
* `query_failed_wrote`: `query_failed` tells the client the database rejected the
  statement; it is also the answer when the reply to COMMIT was lost and the insert
  is committed.
* `renamed_column`: the repository's README says a sensitive column must not be
  treated as safe because its source cannot be determined. The classifier takes the
  name a column is called by for its source; an alias in FROM with a column list changes
  that name, and a PII column is then returned as it is. The README concedes
  data *stored* under a misleading name, which is not this case. A whole row
  selected under its table's name is returned unmasked in the same way.

Two more sentences have no run of their own. The README calls the proxy "read-only
apart from one explicitly enumerated write". That holds of statements
(`OnlyOrderInsertsCommit`, first part), and not of functions: computed and
table-less SELECTs are allowed (rule R11), and one that calls a function which
changes the database runs and is committed like any other, also when the client is
then told `masking_refused` (second part, and `OtherFailuresWroteNothing`).

And the masker's header says that no non-empty PII value is returned unchanged. That
is so but for values that have the masked form already, `***` or `a***@b`;
`UnchangedOnlyIfMasked` says just this.

## Not modelled

* The HTTP library beyond a queue and its workers: several requests on one
  connection, its own limits on headers and bodies, answers for unknown paths,
  read and write timeouts. Column names that are not UTF-8, which would fail
  like cells do.
* What is written to the system log, timestamps, durations and message texts,
  the fixed texts of the HTTP answers included.
* Loss of data the operating system had accepted (power failure): the code flushes
  to the operating system and does not call `fsync`. A failed stream's destructor
  trying its buffer once more at shutdown. Two processes on one audit file or one
  port.
* Column types, NUL handling and the precise grammar of the vendored parser; WHERE,
  ORDER BY and LIMIT, which no component looks at.
* Of the server's resolution of names: quoted identifiers that keep their case, the
  merging of columns by NATURAL and USING joins, system columns, words such as
  `current_user` that are values, and calls inside calls (a computed entry is
  what it reads first). What a function changes: the model knows only whether it does.

## Plan

The code that changes state is modelled, and all the runs check of it but liveness is
proved. What is left is to extend the model: nested SELECTs in FROM with their own
tables, joins that merge columns, and several requests on one connection.

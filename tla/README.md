# A TLA+ verification project for RPostgreSQL

RPostgreSQL is an R package: a DBI driver for PostgreSQL, written in R
(`RPostgreSQL/R/`) over a C library (`RPostgreSQL/src/`) that in turn calls
libpq, of which the repository carries a copy (`RPostgreSQL/src/libpq/`).  This
directory models the parts of both whose correctness depends on the order of
calls, on what earlier calls left behind, on what the server does meanwhile, or
on what two places of the code have to agree about; model-checks them with TLC
on small instances; and proves the central invariants for all instances with
TLAPS.

## 1. The system

| Component | State it keeps | Operations |
| --- | --- | --- |
| Object database (`RS-DBI.c`) | the singleton manager, its table of connections, each connection's table of result sets, the counters ids are drawn from | allocate, free, look up, validate a handle |
| Driver entry points (`RS-PostgreSQL.c`) | a `PGconn` per connection, a `PGresult` per result set | init, close, connect, clone, disconnect, close result |
| Statements (`RS_PostgreSQL_exec`, `RS-pgsql-pqexec*.c`, `-getResult.c`) | `completed` and `fields` of the result set | run a statement, wrap its result, look its columns up in the catalogue, read the result of a COPY |
| Fetching (`RS_PostgreSQL_fetch`, `postgresqlFetch`) | `rowCount`, `completed` | fetch n rows into a data frame |
| COPY (`RS-pgsql-copy.c`) | two buffers, for the time of a call | send a file or a data frame |
| R methods (`PostgreSQL.R`, `PostgreSQLSupport.R`) | none of their own: all they leave behind is in the session | queries, transactions, tables |
| Handle classes (`dbObjectId.R`, `S4R.R`) | the integers of a handle | coercions, validity |
| Escaping (`RS-PQescape.c`) | none | strings and `bytea` to and from SQL text |
| libpq, connecting (`fe-connect.c`, `fe-protocol2.c`) | status, socket, address list, fallbacks left, `setenv_state` of the `PGconn` | connect, poll, reset, finish |
| libpq, buffers (`fe-misc.c`) | `outBuffer`, `inBuffer` and the offsets into them | put and send messages, read, make room |
| libpq, protocols (`fe-protocol3.c`, `fe-protocol2.c`, `fe-exec.c`) | `asyncStatus`, the result being built, the row not yet kept | parse messages, send queries, get results, COPY, function calls |
| libpq, results (`fe-exec.c`, `libpq-events.c`) | blocks, rows and events of a `PGresult` | allocate, add, copy, clear |
| libpq, settings (`fe-connect.c`) | none | connection strings, services, environment, defaults, password file |
| libpq, text (`fe-exec.c`, `wchar.c`, `fe-protocol3.c`, `pqexpbuffer.c`) | a growing string | quoting, encodings, error reports |
| libpq, SSL (`fe-secure-openssl.c`) | the count of connections and the callbacks of libcrypto, shared by the process | set up, verify the server, close |
| dbApply, type names, loading, large objects, cancel, ... | see section 8 | |

How they interact.  R calls one C entry point at a time (`.Call`), so nothing
in the package runs concurrently with itself.  R holds *handles*, integer
vectors that are copied freely and outlive what they name; every entry point
resolves them through the id tables of the object database.  The entry points
call libpq synchronously; libpq and the server exchange two streams of messages,
and the server works, fails and dies on its own.  A C function that calls
`RS_DBI_errorMessage(.., RS_DBI_ERROR)` does not come back: R unwinds by a long
jump, leaving the C state where it stood.  Between two `.Call`s of one R method
the user can interrupt, and another session can change the database.

What is hard about it, and what makes each part correct:

* **Handles** (stale state, long sequences of legal calls).  An old handle may
  fail, but must never reach another session or another result; the counters
  must agree with the tables; closing one connection must not cut off another.
* **Statements and COPY** (order, partial failure, loss of the connection).
  A call must get the answer to its own statement although earlier calls left
  results unread or a COPY open; pending rows must survive a call the driver refuses;
  data must be stored only if the COPY was ended; no wait may be mutual.
* **Fetching** (boundaries, failure in the middle).  Every row once, in order,
  under its number, and none written outside the vectors; `dbHasCompleted()`
  exactly when no row is left.
* **COPY encoding** (boundaries).  No buffer overflows but where the code does not
  look, nothing is dropped or overtaken at a flush, and the server reads back the
  frame that was written.
* **Connecting** (retries, timeouts, partial messages).  A `PGconn` starts over in
  six places, with another address, protocol or use of SSL: each must leave nothing
  behind, keep the promise of `sslmode`, and end; open means that the server said so.
* **Buffers** (two streams, growth, failing sends).  No byte lost, doubled or moved;
  both sides sending at once must not be a deadlock.
* **Protocols** (portions, messages nobody asked for, bad or short messages, no memory).
  Each statement gets its own whole answer once, and the call returns.
* **Results** (allocation failures).  Memory handed out does not overlap, copies are
  whole, and event procedures hear of beginnings and ends in pairs.
* **Settings, text, SSL** (writers and readers that must agree).  What is written by
  the rules is read as it was meant; tables about one encoding agree; the caret of an
  error stands where the server points; a server is accepted just if it is the one meant.
* **Methods of several statements** (atomicity).  What they return is true,
  whatever failed on the way; the encoding they change for their own purposes is put
  back; and it is known which of them lose rows, pending ones or of the table.

`PROJECT.json` lists the hazards one by one, with line and property.

## 2. The modules

| Module | What it is |
| --- | --- |
| `DbiTable` | operators: the id tables of `RS-DBI.c` (`newEntry`, `lookup`, `freeEntry`, `listEntries`) |
| `DbiManager` | the object database as the driver drives it; extends `DbiTable` |
| `HandleRegistry` | abstract: what a connection handle promises; `DbiManager` implements it |
| `FetchLoop` | one result set and the calls of `fetch()` on it, row by row |
| `RowCursor` | abstract: what `fetch()` promises; `FetchLoop` implements it |
| `PgConnection` | one connection: the driver's statement and COPY calls, libpq, the server |
| `CopyFrame` | `RS_PostgreSQL_CopyInDataframe` and its buffers, in pieces and lengths |
| `CopyText` | the same function's text, in characters, and the server's reading of it |
| `DbiSession` | transactions, `dbRemoveTable`, `dbWriteTable`, statement by statement |
| `Connect` | `PQconnectPoll` and all around it, with network, servers and the clock |
| `Wire` | the two buffers of a connection between caller, parser and socket |
| `AsyncResult` | operators: the result a `PGconn` is building, and what every parser does to it |
| `Answers` | operators: what a caller asks and a server answers |
| `Protocol3`, `Protocol2` | operators: what one message does, in each version of the protocol |
| `Protocol` | queries, COPY and function calls over either protocol, with the server's messages |
| `PgResult` | memory, rows, copies and events of results |
| `Conninfo` | operators: connection strings and URIs |
| `Settings` | operators: where each setting comes from; extends `Conninfo` |
| `Encodings` | operators: lengths, verifiers and wide characters of the encodings |
| `Quoting` | operators: escaping of strings, identifiers and `bytea`; extends `Encodings` |
| `ErrorReport` | operators: messages of server errors; extends `Quoting` |
| `Startup`, `SSLSetup` | operators: startup packets, names of certificates; the setup of SSL |
| `ExpBuffer` | operators: growing strings |
| `Codecs` | one behaviour per conversion: a job, the conversion, the result |
| `MCxxx` | the sets TLC takes for the constants of `xxx` |
| `DbiManagerProofs`, `DbiMethodProofs`, `CopyProofs`, `PgConnectionProofs`, `ConnectProofs`, `BufferProofs` (of `Wire` and `PgResult`), `ProtocolProofs`, `AnsweredOnceProofs` (both of `Protocol`) | theorems and proofs |

The modules cut the program along its calls.  `DbiManager` sees a whole `.Call`
as one step, which is exact because nothing interleaves with it; `FetchLoop`,
`CopyFrame` and `PgConnection` open up the calls that can fail in their middle
or wait for the server; `DbiSession` takes the statements of `PgConnection` as
its steps.  `PgConnection` sees libpq by whole results; `Protocol` opens that up
to messages, `Wire` to bytes, and `Connect` has what comes before the first query.
Each hands the next what its own properties say: `Wire` that the bytes come
unchanged, `Protocol` that each statement is answered once.

Names are those of the C and R sources.  Definitions whose name has a suffix after
an underscore and whose comment begins with "Mutant" are not part of a
specification: each is a wrong version of the definition after it, with which the
property it is kept for fails.

### DbiManager

State: `dbManager` (`mgr`, with "freed" for a dangling pointer), its `counter`
and `num_con`, the arrays `connectionIds` and `connections`, and in every
connection `counter`, `num_res`, `resultSetIds`, `resultSets`.  `sessions` are
the backends open on the server, `drvConnection` the one a connection reaches;
`drvResultSet` is a number for each `PGresult`.  `conHandles` and `resHandles`
record every handle ever issued and what it was issued for; any of them can be
presented in any step.

| Actions | Code |
| --- | --- |
| `InitIgnored`, `InitAllocates`, `InitFails` | `RS_PostgreSQL_init`, `RS_DBI_allocManager`, `RS_DBI_freeManager` |
| `CloseManager` | `RS_PostgreSQL_closeManager` |
| `NewConnection`, `..TableFull`, `..NoMemory`, `CloneConnection` | `RS_PostgreSQL_newConnection`, `_cloneConnection`, `RS_DBI_allocConnection` |
| `Exec`, `ExecParams`, `ExecFails` | `RS_PostgreSQL_exec`, `_pqexecparams`, `RS_DBI_allocResultSet` |
| `Fetch`, `CloseResultSet` | `RS_PostgreSQL_fetch` reaching the end, `_closeResultSet`, `RS_DBI_freeResultSet` |
| `CloseConnection`, `CloseConnectionRefused` | `postgresqlCloseConnection`, `RS_PostgreSQL_closeConnection`, `RS_DBI_freeConnection` |

`MaxRes` is the driver's `max_res`, which `RS_PostgreSQL_newConnection` passes
as 1; the module and its proofs are for any positive number.

### FetchLoop

State: `num_rows`, `rowCount`, `completed`, the locals `i`, `k`, `num_rec` and
the output vector, and the place of the call (`phase`).  `Start`, `Exhausted`,
`Full`, `Grow`, `GrowFails` and `CopyRow` are the branches of the C loop;
`Deliver` and `ConversionFails` are the two ends of `postgresqlFetch`.  A row is
its number; all fields of a row are copied together.

### PgConnection

State: the `PGconn` (`asyncStatus`, `bad`), the two streams, the server (string
being executed, statements left, whether it receives COPY data), the running
call (`pc`, `op`, `query`, `last`, `chunks`, `lookups`) and the connection's one
result set.  Each result carries the number of the string it answers, and as history what
became of the COPY it reports on (`fate`).  `Exec`,
`ExecParams`, `PqExec` enter `PQexec`; `DrainCopyIn`, `DrainCopyOut`,
`DrainResult` are the loop of `PQexecStart`; `SendQuery`, `FinishQuery` the rest;
`Return...` what each entry point does with the last result; `MapLooksUp`,
`MapDone`, `MapAborts` are `RS_PostgreSQL_createDataMappings`.  `CopyIn`,
`PutCopyData`, `PutCopyEnd`, `GetResult` are the COPY calls.  `Server...` stand
for the backend as libpq's state machine expects it, and are marked external;
`ServerDies` may come at any time and takes an arbitrary tail of what was under
way with it.

### CopyFrame and CopyText

`CopyFrame` numbers the cells and separators of a frame and keeps only lengths:
`Fits`, `FillsUp` and `TooLong` are the three branches for a cell, `high` the
last byte of `strBuf` ever written, `encoded` against `bufsize` the second
buffer, filled by `EncodeElementSconn` after `R_AllocStringBuffer`, or without it in
`RawCell`.  The run has frames without columns that overrun `strBuf` and raw columns
that overrun the second buffer.
`CopyText` keeps characters instead and has the server's reader beside the
driver's writer; its names differ (`rowsDone` and `cellsDone` are the counters `i` and
`j` of the code) so that one module of proofs can extend both.

### DbiSession

State: one table as the set of frames in it, the transaction with what a
rollback restores, `client_encoding`, the open COPY, the result set, and the
running method.  One action per statement of `postgresqlWriteTable`,
`postgresqlImportFile` and `dbRemoveTable`; the single-statement methods
(`dbGetQuery`, `dbSendQuery`, `fetch`, `dbClearResult`, `dbBegin`, `dbCommit`,
`dbRollback`) are one action each.  Every statement may be refused by the
server, `Interrupt` may end a method between any two statements, and `Foreign`
is another session that creates or drops the table when no lock stops it.

### Connect

State: the parameters `opt`, the `PGconn` as a record `conn` (status, socket, use of
SSL, address reached, fallbacks left, unread messages, `setenv_state`), the place of
the call (`pc`, `flag`), the time limit (`late`), the open sockets of the process
(`fds`), the network connection with the server behind it (`link`), and a history of
the attempt (`log`).

| Actions | Code |
| --- | --- |
| `PQsetdbLogin`, `PQreset`, `PQfinish` | those functions, with `connectDBStart`, `closePGconn` |
| `Wake`, `TimedOut` | the loop of `connectDBComplete`; a caller of `PQconnectPoll` |
| `PollEntry` | the read at the entry of `PQconnectPoll` |
| `Needed...`, `Started`, `Made`, `SSLStartup`, `Awaiting...`, `AuthOk...` | its `case`s, one turn of `keep_going` each |
| `Setenv...` | `pqSetenvPoll` |
| `ConnectionEnds`, `ServerAnswers`, `ServerCloses`, `Tick` | network, servers of all kinds, clock |

A message may have arrived in part; a read takes any part of what is there.

### Wire

Each byte of a stream is its number in the stream, and a buffer is the sequence of the
bytes in it, so a byte that goes to the wrong place, is sent twice or lost is seen.
`pqPutMsgStart`, `pqPutMsgBytes`, `pqPutMsgEnd` build a message in the buffer;
`SendSomeWrites`, `SendSomeFails`, `SendSomeReads` and the wait are the loop of
`pqSendSome`; `pqReadData` moves, enlarges and fills the other buffer, of which
`TakeMessage` is the consumer.  The server reads, talks and blocks when the pipe to the
client is full.

### Protocol

State: the `PGconn` as a record `c`, the messages in `inBuffer`, what the server will
send, and the place of the call.  A message has a type, the statement it belongs to, a
row number or length, what its length word is worth (good, bad or too long to be
held), and its number `at` in the answer.  The parsers do not look at that number; the
history variables do: `place` is that of the last message treated, `got` counts for every
message what the copy calls handed over of it.  `Answers` says which sequences of messages
answer a query (`AnswersAssumption`): ReadyForQuery and nothing else ends it, the rows
of a statement follow its description, and the data of a copy its start, with
nothing between but what the server sends unasked; a statement belongs to one query.
Each statement is completed by one message, its last (`CompletingIds`, by the class of the
query: CommandComplete, an error, ParseComplete of a PQprepare, the row description or NoData
of a describe), and only the string of a simple query has several statements.
Servers keep to this as the protocol is documented, and the parsers rely on it: nothing in
libpq compares a row with the statement it came for.  Messages may still be bad, unknown or
too long, in protocol 3; the bad ones are those in which something can be: descriptions,
rows, and what completes a statement.  `AsyncResult` has the result that is being built
and the outcomes of treating one message, among them that an allocation failed;
`Protocol3` and `Protocol2` say per message which.  `ParseMessage` is one turn of `pqParseInput3`/`2` and, as in the code,
treats a message only when it is whole; `PQgetResult`, `PQgetCopyData`,
`PQgetlineAsync`, `PQendcopy`, `PQputCopyEnd`, `PQfn` are the callers.

### PgResult

A variable of the caller for each result; a result is its blocks with the pieces cut from
them, its array of rows and the event procedures that were told of it.  Every allocation
of a call may fail; a call yields the set of its possible outcomes.  The loops over
names, cells and rows are functions of the number of turns, `after[k]` the outcomes after
k of them, of which a failed one takes no further turn.

### Codecs and its operator modules

Pure functions are run one by one: `Init` takes a *job* (what somebody means, how it is
written, and all the conversion depends on), one action runs the code's conversion on
it, and the properties compare.  Characters are tokens where only equality matters
(connection strings, names) and bytes where their value does (encodings, quoting).
`Codecs` also holds the writers and readers of the other side: the documented rules for
connection strings and the lexer of the server, both marked external.

## 3. The runs

| Run | Question | Bounds |
| --- | --- | --- |
| `dbi_manager` | do handles, tables and counts stay right, and do the tables implement `HandleRegistry`? | `max.con` of 1, 2 and one that cannot be allocated; 3 sessions, 3 results |
| `fetch_loop` | does every `fetch()` return its rows, implement `RowCursor`, and does fetching end? | results of 0 to 6 rows, requests -1, 0, 1, 3, default 2, vectors up to 5 |
| `pg_connection` | does each call get its own answer, and come back, whatever was left behind? | 7 statement strings, 3 sent, 1 block of COPY data |
| `copy_frame` | are the buffers and the order of a frame safe? | 2 x 2 frames, threshold 4, default size 3, cells of 0, 1, 3, 4, 11 bytes |
| `copy_text` | does the server read what was written? | 2 cells of at most 2 characters out of 5, or NA |
| `dbi_session` | are the reports of the multi-statement methods true? | 2 calls of `dbWriteTable`, 2 foreign steps |
| `connect` | does every attempt end, retry cleanly, keep `sslmode` and report the truth? | 2 addresses; 7 combinations of options, one with a reset |
| `wire` | do the bytes come through, within the buffers, without deadlock? | buffers of 3 to 7 bytes, pipes of 2, 7 bytes out and 7 in |
| `protocol` | is each statement answered once and whole, and does the call return? | 2 protocols, 28 and 10 queries, each followed by another; 1 failed allocation, 1 message unasked for |
| `results` | are memory, copies and events right whatever fails? | 2 variables, 2 event procedures, blocks of 8, 2 columns, 3 rows |
| `codecs` | do writers and readers agree? | the jobs of `MCCodecs`; lines of `.pgpass` of 9 to 17 characters for a buffer of 16; 4 events of the SSL library, or 5 with libcrypto left to the application first |
| `dbi_true_means_done` | does what the repository says hold? no, see section 6 | 1 call of `dbWriteTable` |

Why the bounds are enough.  *dbi_manager*: a cell can be freed and used again,
under a table of one cell and of two, with a third session to take it, and a
reload between; the theorems below cover the rest.  *fetch_loop*: six rows are
three of the default batches, so an output doubles once and would have to double
again, which the limit of five cells refuses; requests end below, at and beyond
the rows left.  *pg_connection*: three strings are one that leaves something
behind, one whose drain meets it, and a third that meets what the drain left
(or a catalogue lookup); strings hold a COPY as their only, first and last
statement, or nothing but two.  *copy_frame*: lengths lie below, just below, at and above the
threshold, and above the buffer.  *copy_text*: the characters are both
separators, the backslash, and the two letters that mean something behind one;
two cells meet in a row or as two rows.  *dbi_session*: a second write sees
everything a first can leave behind.  *connect*: with two addresses one is the
last and one is not; every mode of SSL, an old server, a missing password, a
server without application_name and both ways to drive the connection occur, and
the theorems cover every other combination.  *wire*: the buffers grow from their
first size by both kinds of growth to the limit, and the server says more than the
pipes hold; sizes of any kind are proved.  *protocol*: the queries have each
message the parsers know, each as the last and as one in the middle of an answer, and
a second query that has to be answered as if nothing had been; one failure hits each
allocation in turn.  *results*: a block of eight is full after two pieces, the
array doubles beyond the largest `int` of the model, and a copy fails at each of
its steps.  *codecs*: strings mix the characters the code looks at with one it does not,
up to the length at which each branch was taken and left; encodings are tried with the
byte at and next to each limit of their tables; strings grow across `INT_MAX`, which is 40.

The other constants stop the exploration only: each named bound appears in the
guard of the action that would exceed it.  `CHECK_DEADLOCK FALSE` stands where
the system may stop: a dangling manager (`DbiManager`), an ended COPY
(`CopyFrame`, `CopyText`), a process that crashed or a used-up bound
(`PgConnection`), a freed connection (`Connect`), an idle one (`Wire`, `Protocol`),
a job that is done (`Codecs`).

### What the properties say

`DbiManager`: `TablesConsistent` makes the "corrupt" errors of the code unreachable.
`HandlesDenoteTheirObjects` is about handles of any age, `ClosedOnlyWhenIdle` about
disconnecting; `RefinesRegistry` gathers the promise to the R programmer in a
specification without tables.

`FetchLoop`: `WritesInBounds` is about the loop; `ImplementsCursor` is the whole
promise, that rows come in order, once and under their numbers, and are counted as lost
where a conversion fails; `Drains` that a client that fetches on gets to the end.

`PgConnection`: `InStep` is what the draining and waiting of libpq is for: every
result the driver gets, keeps or reports is that of its statement, and idle means
quiet.  `PendingRowsSurvive` and `StoredOnlyIfEnded` bind the driver; `CallsReturn` is
that no call waits for ever.

`CopyFrame`, `CopyText`: `BuffersInBounds` and `SentWholeInOrder` for frames of any
size, `ServerReadsTheFrame` for their characters.  `BuffersInBounds` names the two kinds
of frame for which it fails; section 6 has them.

`DbiSession`: `WriteReportIsTrue` (TRUE means stored, FALSE means not),
`TransactionsBeginAndEnd`, and `OnlyTheseLoseRows`, which lists the calls that lose rows
of the table and those that lose rows not yet fetched.  Every method built on
`postgresqlQuickSQL` silently clears a result set with rows pending: `dbGetQuery`,
`dbBegin`, `dbRollback`, and the lookups of `dbRemoveTable` and `dbWriteTable`.
`dbSendQuery` and `dbCommit` refuse instead, the latter by its second definition in
`PostgreSQL.R`, which is the one in force; the first would have discarded them.

`Connect`: `RetriesBeginClean`, `SSLModeKept`, `AttemptsBounded`, `EveryAddressTried`,
`OpenMeansWelcomed`, and `ConnectReturns` under `connect_timeout`.  `SSLModeKept`
speaks of TCP: over a Unix-domain socket the code drops SSL without asking, also for
`require`.

`Wire`: `WithinBuffers`, `BytesIntact`, and `SendReturns`, the reason why `pqSendSome`
reads.

`Protocol`: `RightAnswers` (rows, errors with a cause in their own statement),
`EachAnsweredOnce`, `CopyDataWhole` and `QueriesEnd`.  Executions are excepted by
name: `OutOfStep`, protocol 2 after it threw its buffer away; `LeftWaiting`, a call that
waits for ever behind a message that is there as a whole, but was left for want of memory
or because its contents are too short; and a describe whose description cannot be taken
(`Swallowed`; section 6).  A call that waits so is excepted only if it never gets any
further: `QueriesEnd` holds of the others, and of the same call when more input comes.  `EachAnsweredOnce` is about connections that live: once one is
lost, an error can be reported for a statement twice, by `pqReadData` and again by
`handleSyncLoss` for a message left in the buffer.

`PgResult`: `MemoryInBounds`, `EventsPaired`, `CopiesAgree`.

`Codecs`: `SettingsAreMeant`, `LiteralsReadBack`, `EncodingsAgree`,
`CaretUnderTheError`, `ServerIsVerified`, `CallbacksKept`, `BufferKeepsText`.  Each
compares the code with a definition that does not go its way: quoted text with the lexer
of the server, the caret with the widths of the characters before it, the
certificate rules with the code's walk over names and files.

## 4. Fairness

Safety runs use `Spec` without fairness.  `FetchLoop!FairSpec` has weak fairness
of `CallStep`: C code and R code that was called runs on.  It does not make the
client call, nor conversions succeed: `Drains` assumes that fetches are started
again and again, as by the loop `man/PostgreSQL.Rd` shows, and that they do not
run out of memory for ever.  `PgConnection!FairSpec` has weak fairness of
`DriverStep` and of `ServerStep`: a call in progress runs on, and a server that
lives works off its messages.  A server that stops reading without dying is
outside it: the code has no timeouts, and such a call does not return.

`Connect!FairSpec` has weak fairness of `Client` and of `Tick`, and none of the server:
a blocking call runs on and its clock goes on, so it returns although nobody answers.
`Wire!FairSpec` has weak fairness of `SendSome` and of `Server`: the loop of
`pqSendSome` runs on, and a server that lives reads or talks whenever it can.
`Protocol!FairSpec` has weak fairness of the calls (`InCall`), of the caller that asks
until it gets NULL (`Calls`) and reads a COPY to its end (`CopyCalls`), which is what
the manual asks of it; a read that has something to read returns it.

## 5. What is proved

For every value of the constants that meets the `ASSUME`s of the modules:

| Theorem | Statement |
| --- | --- |
| `DbiManagerProofs!FirstHoldingIsFirst`, `ClaimedCell`, `FreedCell`, `NewTableIsEmpty` | what the table operators of `DbiTable` return and change |
| `DbiManagerProofs!TypeCorrect`, `TablesAlwaysAgree`, `CountsAlwaysRight`, `TablesAlwaysConsistent`, `HandlesDenoteTheirOwn`, `HandlesDenoteTheirSession`, `RetiredForGood`, `CellsAreDistinct`, `ClosesIdleOnly`, `TablesImplementRegistry` | the properties of `DbiManager`, and that it implements `HandleRegistry` |
| `DbiMethodProofs!WritesStayInBounds`, `NeverAbandonsCall`, `CompletedIsExact`, `RowsAreAccountedFor`, `RowsDeliveredOnce`, `LoopImplementsCursor` | the safety properties of `FetchLoop`, and that it implements `RowCursor` |
| `CopyProofs!TypeCorrect`, `BufferNeverOverflows`, `EncodingFits`, `BuffersNeverOverflow`, `SentIsInOrder`, `EndedSendsWholeFrame`, `WholeFrameIsSent` | the properties of `CopyFrame`; the bounds of the buffers with the two exceptions of section 6 |
| `CopyProofs!FieldsAreReadBack`, `ServerReadsAllFrames` | the text of a cell is read back as the cell; `ServerReadsTheFrame` of `CopyText` |
| `BufferProofs!StaysWithinBuffers`, `NoByteLost` | `WithinBuffers`, `BytesIntact` |
| `PgConnectionProofs!TurnsAreTaken`, `ClientAndServerInStep`, `LeftOpenIsNotStored`, `PendingRowsKept` | the inductive invariant `IInv`, `InStep`, `StoredOnlyIfEnded`, `PendingRowsSurvive` |
| `ConnectProofs!RetriesAlwaysBeginClean`, `SSLModeAlwaysKept`, `AttemptsAlwaysBounded`, `WholeListIsTried`, `OpenIsAlwaysWelcomed` | `RetriesBeginClean`, `SSLModeKept`, `AttemptsBounded`, `EveryAddressTried`, `OpenMeansWelcomed` |
| `BufferProofs!TypeCorrect`, `MemoryIsInBounds`, `EventsArePaired`, `CopiesAlwaysAgree` | types, `MemoryInBounds`, `EventsPaired`, `CopiesAgree` |
| `ProtocolProofs!TypeCorrect`, `ProtocolInductive`, `AnswersAreRight`, `CopiesAreWhole` | types, the inductive invariant `IInv`, `RightAnswers`, `CopyDataWhole` of `Protocol` |
| `AnsweredOnceProofs!StatementsAnsweredOnce` | `EachAnsweredOnce` |
| `DbiMethodProofs!TypeCorrect`, `ReportsAreTrue`, `TransactionsDo`, `EncodingIsKept`, `CreatesTheTable`, `RowsSurviveAlways`, `PendingRowsGoByThese`, `RowsAreLostByThese` | the properties of `DbiSession` |

The arguments.

*Object database.*  `TablesAgree` is not inductive: freeing a result set
counts `num_res` down, which is right only if the freed cell was used.  `IInv`
therefore joins agreement and counts, as one predicate `ConOK` per connection,
and types.  Every entry point on a connection replaces that connection by another that is
`ConOK` and has the same id (`ConnectionStepUpdates`), and such a replacement keeps
the manager's tables (`UpdateKeepsTables`).

*Handles.*  Seen from the handles a step does one of four things: nothing
(`Quiet`), empty all cells, put the next id and a new session in an empty cell
(`Issued`), or free a cell and close its session (`Closed`); `StepsOfHandles`
proves it of every action.  `HandleInv` adds to the tables that every used cell
is among the handles issued, that an id was issued once, and that ids and
sessions to come are new: `counter` has to be above every id ever issued, not
only above those in the table, which is what keeping it across reloads is for.
A session goes only with the cell that holds it, hence `SessionsNotShared` in
the invariant.  The refinement follows case by case.  For the handles of results
`ResultInv` adds the same one level below: the counter of a connection is above every
result id issued for it, and a connection that is gone takes its results with it.

*Fetching.*  The row and the cell indices move together: in the loop
`k = rowCount + i` and cell x holds row `rowCount + x`.  With that, `i = num_rows`
would need all rows copied while one remains, and the batch handed over is the
interval below `rowCount`.

*COPY buffers.*  Behind a cell fewer than `Threshold` bytes wait, so a tab, a cell
below the threshold, a newline and the NUL end inside `2 * Threshold + 2`; what
was sent followed by what is buffered is always the text up to the next cell.

*Text of a COPY.*  `CopyProofs` holds the proofs about both models of the function.
Escaping, freeing of backslashes and reading
are loops over characters.  `LoopFunction` shows that such a loop is a function
of the sequence that takes one step for each element; it needs no rule of induction:
two runs that differ do so at a first place (`LeastElement`).  A character is
written as itself, where it means nothing to the reader, or as a backslash and what
the reader makes it of again (`EscapeForms`), so a shortest string that is not read
back cannot exist (`StringsReadBack`), and no string is written as `\N`, the text of NA
(`FieldsAreReadBack`).  No tab and no newline is left in the text of a cell, which
therefore becomes one field (`PlainIsOneField`).  The invariant `RowsRead` says what the
reader has in the middle of a row: the rows before, the cells before the last
one written, and the text of that one.  `NAAssumption`, that NA is not a
string, is what R provides: `NA_STRING` is compared by its address.

*Methods of several statements.*  A promise about the return of a call needs to be
carried through its statements.  The invariant says, step by step, that the
encoding is the one found until it is switched (`EncInv`); that the server has done
what the call is for exactly from the end of the COPY on (`DoneInv`); and that, with
no other session about, a frame that is to make its table finds it absent, then
empty, then its own (`FreshInv`).  `EffectKeepsServer` treats what a statement does
to the server once for all; each action then has a lemma with one step for each part.

*Buffers of a connection.*  The bytes in the pipe and in `outBuffer` behind those
already written are consecutive, and so are the unread bytes of `inBuffer` and those
coming; the number of the first is known from what was received and taken.  In the
middle of `pqSendSome` the bytes up to `ptr` are written and still in the buffer, which
`Gone` accounts for; a message that is being built lies behind `outCount` and is part of
the sequence from its first byte on.  `RunsJoin`, that two runs of consecutive numbers
make one, does the rest.

*Connecting.*  A step changes the `PGconn` in one of eight ways (`Changes`): not at
all, or it ends the attempt, moves it on, retries, skips an address, connects, asks for
SSL, or begins another.  Each action has a lemma that says which, and four lemmas show
that each way keeps the parts of the invariant: `Clean` (a socket is open just if
`sock` says so, and nothing is left where a retry starts), `Asking` (who knows that SSL
was asked for), `ModeInv` (for each `sslmode`, what the two flags say about what has
happened) and `Counted`, which is why retries end: sockets opened so far, addresses left
and fallbacks left together never exceed `NumAddrs + 3`.
Two properties speak of what happened before and need more.  `Walked`: as long as no
server was spoken to, the addresses tried are those up to the one of the socket, or
before the one at which the next begins.  `Hears`: a ReadyForQuery that is unread, or on
its way, was said by the server of this socket (`Listening`), so that one left over from
a connection before can open none; from SETENV on, it was read (`Welcomed`); and where
SSL is required, what is read without it is a refusal (`Secured`, `Refusal`): after its
request for SSL is answered by an error the client goes on to AWAITING_RESPONSE in the
clear, which keeps the promise only because that error is still the next message,
through portions, a server that closes and everything it sends behind it.
`AskedKept` and `AnswersSay` give what servers say.

*A connection at work.*  `InStep` is about results, and says nothing of the messages
they come in.  `IInv` follows these on their way.  `Turn` says who has the word: the
string is on its way to the server and nothing comes back, or the server works it off and
has not said ReadyForQuery, or ReadyForQuery is the last message under way or was read.
`OwnAnswers` and `OwnQuery` give every message the number of the string sent last, since
`PQexecStart` sends nothing before it has discarded what was left; `ClientCopies`,
`ServerCopies`, `CopyUnread` and `LateData` match the COPY states of the two sides,
which differ only while a message of the change is under way, or while the server
throws away data that came behind an error.  `Calling` and `LookingUp` say what a call
may count on at each of its places.  `EndedCopy` carries the fate of a COPY from
the server's decision to the result that reports it; `BadIsDead`, `DeadIsDone` deal
with the backend that dies.  Each of these is disturbed by several actions, and each
action has one lemma.
An attempt on `ReportIsTrue` showed a mistake of the model.  The server's note of what
became of a COPY was one variable, reset where the next began; with a string of two
`COPY FROM`s it was reset before the first result was read, and the property false for
such strings, which the run did not contain.  The note now travels with the result it is
about, and the run has that string.

*Protocols.*  `RightAnswers` speaks of results that were handed out, and is kept only
because the one that is being built is right.  `IInv` ties everything to `place`.
`StreamInv`: what is in the buffer and still to come is the answer from behind `place`
on, in order and, while the server lives, with nothing left out but its waits for the end
of a COPY IN; messages sent unasked stand anywhere, in protocol 2 not among lines.
`ConnInv`: a connection that is not idle works on the query sent last and has its class and
mode; a row of single-row mode waits in `result` with the rest in `next_result`; idle
means that the answer was read to its end, so the next query begins with a quiet server.
`RowsInv`: the result being built has exactly the rows of its statement up to `place`, or in
single-row mode they were handed out before (`FillInv`); where a row is the next
message there is a result to take it (`NextRowInv`), which is why no row is ever added to
the result of another statement; an error has a cause in its statement (`ErrorInv`).
`CopyInv`: in COPY OUT everything behind the start of the copy is its data, all of it was
handed over up to `place`, of the message at the head of the buffer as much as
`copy_already_done` says, and nothing of those behind (`CopyingInv`, `PieceInv`,
`PendingInv`).
A parser does one of four things with a message, whatever its version: it ignores it, puts it
into the result, refuses it with an error, or ends something by it (`Kind`).  The lemmas about
`pqParseInput3`, `pqParseInput2` and the copy calls say which, and `TreatingKeeps` shows
each part of the invariant kept by each kind; `HandingKeeps` and `CopyEndsKeeps` do so
for copy data, `ClosedKeeps` for a connection that is lost.  `IInv` has a weak place on
purpose: `OutOfStep`, protocol 2 after an allocation failed, when the buffer
was thrown away and the next lines are read as messages.  The rows of a result are right
even then.  An attempt to prove the errors right there as well failed for a reason
(section 6).

*Each statement once.*  `OnceInv` is inductive relative to `IInv` and says where the answer
to a statement is.  A statement is `Done` when its last message was treated.  `DoneInv`:
then a result of it was handed out (`Told`), or waits to be (`Waiting`); `OrderInv`: what
was handed out is of statements that are done, in their order, and what waits comes after
it.  To make one result of a statement and not two, the parser must begin with none for it
and keep the one it fills: `OpenInv`, what is being filled is of the statement
under way, which is not done, and `CopyResultInv`, a copy that goes on was begun by
it and its start is told once.  `Proper` says of each message what its `Kind` does not:
one that completes its statement makes the result ready, and only such a one or a row
does; a description that a describe cannot take is the exception.  All of this holds
while the connection lives and protocol 2 keeps its place (`Steady`).  At the NULL the answer was read to its end
(`UserInv`), where every statement is done (`AllDone`) and nothing waits.
Two premises were missing from the model and were found by the proof: that statements of
later queries are later statements, and what completes a statement.  The run had only
such answers but for one; it has two more now, of a describe and of two statements that end
badly.

*Results.*  `Placed` is what `pqResultAlloc` keeps: the pieces lie in their blocks and
apart, and `Free`: either no space is left, or the active block is a regular one in which
nothing lies from `curOffset` on.  The separate block that becomes active when it is the
first is the reason for the first alternative; the requirements that fe-exec.c states for
its constants (`ThresholdAssumption`) are the reason why a padded object below the
threshold fits, and why `spaceLeft` does not fall below zero.  A loop is treated without
an induction rule: if the set of outcomes after some turn left what is claimed of it,
there would be a first such turn (`LeastElement`), and the one before it contradicts that
(`Stepwise`).  `EachKeeps`, `RowCopied` and `TuplesCopied` name what is claimed after k
names, cells and rows; the last is `CopiesAgree`.  For the events, a step puts one result
or NULL into one variable and tells each procedure what it learns or forgets by it
(`Replaced`); there are only ever finitely many results, although their names may not be.

Left to TLC: the liveness properties (`Drains`, `CallsReturn`, `ConnectReturns`,
`SendReturns`, `QueriesEnd`), which are out of reach of the prover; and the safety
properties of `Codecs`, which compares what recursive
operators and folds make of the characters of a text, for which there is no rule of
induction here (`ExpBuffer` also declares a recursive operator).  `CopyText` shows that
loops of this kind can be proved about where they are recursive functions.

## 6. Disagreements between the code and what is said of it

One is a run that TLC ends with a counterexample, and an entry of `findings`:
`dbi_true_means_done`.  `dbBegin`, `dbCommit` and `dbRemoveTable` return TRUE for a
statement that failed, because `postgresqlQuickSQL` has caught the error.

The models show further places where the R documentation and the code part.
`dbDriver(force.reload = TRUE)` announces that connections are closed; it frees the
structures and leaves the sessions open on the server.  A connection refused because the
table is full leaves its session open.  `dbSendQuery` with parameters over an open result
set runs the statement, then fails.  `dbWriteTable(overwrite = TRUE)` appends to a table
that could not be dropped.  A frame the server refuses is an R error, not FALSE, and the
session stays in UTF8.

`RS_PostgreSQL_CopyInDataframe` has room "for '\t' or '\n' plus '\0'" and says of a
separator "need no size count check here" (`RS-pgsql-copy.c:269`, `:292`).  Two kinds of
frame overrun its buffers all the same.  The threshold is looked at with a cell only, so a
frame without columns, which `postgresqlCopyInDataframe` accepts, writes its newlines
past `strBuf` from 16002 rows on (`:334`).  A raw column is escaped as a whole for each of
its cells and copied unchecked (`:149`) into a buffer of 20000 bytes, unless a
string made it larger before.

Seen while modelling and represented in the models, but contradicting no line of the
repository:

* Driver.  A failed allocation on a reload leaves `dbManager` dangling
  (`RS-DBI.c:80`).  The result set of `postgresqlgetResult()` has a NULL statement,
  which `RS_PostgreSQL_resultSetInfo` dereferences (`RS-PostgreSQL.c:1033`).
  `RS_PostgreSQL_CopyIn` ignores what `PQputCopyEnd` returns (`RS-pgsql-copy.c:64`).  A
  table that another session creates between the two looks of `dbWriteTable` is
  appended to.  A clone of a connection whose database name contains `=` takes the name for
  a connection string; it also loses what only the connection string of the original said.
* Protocols.  `getNotify` and `getCopyStart` without memory, and for a message whose
  contents are too short `getParamDescriptions` (`fe-protocol3.c:703`), the messages
  that complete a statement and `pqFunctionCall3`, ask for more input although the message
  is whole: the call waits, possibly for ever.  If bytes of another message follow, the fields
  run on into them, and the message is then refused.  In protocol 2 running out of memory throws the whole
  buffer away, so that a statement may be answered twice or the call wait for ever.  If
  the start of a COPY OUT was in that buffer, its lines are taken for messages, and the error
  this makes is reported for a statement nothing was wrong with.
  A row description of a describe that is bad or finds no memory leaves its error in
  `conn->result` while the call is busy; ReadyForQuery makes it idle, and
  `PQdescribePrepared` returns NULL instead of the error.
  `pqFunctionCall3` gives up on a message it does not know without reading
  ReadyForQuery, which then ends the next query.  A zero-length data message makes
  `pqGetline3` wait although more is there.
* Connecting.  After the SSL handshake of an asynchronous attempt failed the status stays
  SSL_STARTUP.  A failed name lookup clears `options_valid`, and `PQreset` refuses ever after.
* SSL with OpenSSL before 1.1.  A connection whose `initialize_SSL` fails is counted
  and never counted off, so the callbacks stay.  A connection opened while libcrypto was
  left to the application is not counted, so `pgtls_init_library` lets the flags be changed
  under it, although its comment (`fe-secure-openssl.c:112`) disallows that while
  connections are open.  If libcrypto is given back to libpq, closing that connection counts off
  another one: open A, give libcrypto back, open B, close A, and B is left without the callbacks.
  `CallbacksKept` therefore holds them there only while the users of the callbacks outnumber
  such closes.
* Results.  `PQcopyResult` of a result without columns loses its rows; `PQsetvalue`
  leaves an added row of NULLs when the value finds no memory.
* Settings.  `.pgpass` is read by `fgets` into 320 bytes (`fe-connect.c:5738`): of a longer
  line the rest is taken for an entry of its own, and a password at its end is cut; in the
  style of DOS a line of 319 characters keeps its `\r`.  A
  parameter of a URI that is not known fails as "invalid URI query parameter", where the
  comment (`fe-connect.c:5047`) says it is ignored; the properties ask for neither.  An `@` in the parameters of a URI without a path is taken for the end of
  credentials; a trailing backslash of an unquoted value is dropped.
* Text.  The verifier of MULE_INTERNAL takes any high byte for a private character set,
  and such characters change on their way through `pg_wchar`.  The line number of
  `reportErrorPosition` goes up at the `\n` of `\r\n`.  `pqBuildStartupPacket2` copies
  the tty by the length of the database name (`fe-protocol2.c:1626`).

## 7. Abstractions to know about

* `DbiManager`, `FetchLoop` and `PgConnection` have no strings, no types and values of
  rows and no parameters of connections.
* `DbiSession` takes `SHOW client_encoding` and the `SET` that follows as one step;
  neither can fail once the statement before them succeeded, short of a lost
  connection, and a lost connection is `PgConnection`'s subject.  The catalogue
  query of `dbExistsTable` is one statement, with or without a schema.
* After an overrun `CopyFrame` goes on as if nothing was hit, or ends; what else the
  overwritten memory may do is not followed.
* Factors and the digits of numbers are left out of both COPY modules, raw columns of
  `CopyText`; a raw column whose escaping finds no memory is left out.
* `PgConnection` sees `PQputCopyData` as delivering a block or failing; `Wire` has the
  partial writes.
* `Connect`: "require" stands for `verify-ca` and `verify-full` too, whose checks are in
  `SSLSetup`; authentication is by password or none, and its digests are left out;
  a name lookup succeeds or fails.  A Unix-domain socket is one address of its own kind.
* `Wire`: SSL below the socket, and the wait for a socket to be writable that a caller of
  the non-blocking mode makes himself, are left out.
* `Protocol`: row descriptions, parameter descriptions, rows, results of functions and what
  completes a statement may have contents too long (`bad`) or too short (`short`) for their
  length word; notices, notifications, parameters, key data and the starts of copies are
  always as they should be.  Protocol 2
  messages carry no length, so a message there is whole or has not arrived.
* `Codecs`: single-byte encodings are LATIN1, and BIG5 stands for GBK and UHC, whose
  tables are the same; `isspace` is a blank or a line end; LDAP services and the permissions of the
  password file are left out.  The callbacks of libcrypto exist with OpenSSL before 1.1.
* Users who send `INSERT`s by `dbGetQuery` beside `dbWriteTable` are not in
  `DbiSession`: the methods it checks have no say in them.

## 8. Not modelled

* `RS_PostgreSQL_dbApply`: it cannot run.  `RS_DBI_allocOutput(cur_rec, flds, 1, 1)`
  takes its branch for growing on a list whose elements are NULL and stay NULL, so
  writing the first row is an R error.  Its hazards (callbacks that clear the result
  set in use) become real once that line is repaired.
* GSSAPI, SSPI, Kerberos, SCM credentials and MD5: builds or exchanges the package
  does not configure, or digests.  Passphrases and ciphers of SSL, and reading and
  writing through it.
* `PQcancel`, `fe-lobj.c`, `fe-print.c`, LDAP services: the package calls none of them;
  a large object call is a `PQfn`, which `Protocol` has.
* `snprintf.c`, `getaddrinfo.c`, `ip.c`, `noblock.c`, `pgstrcasecmp.c` and the like:
  stand-ins for the C library.
* A forked R process, which shares the sockets of its parent.
* Type names, field descriptions, NA helpers, package loading, build files.

## 9. How it was built, and what could follow

First the object database and its registry, fetching and its cursor, the connection with
libpq and server, the COPY buffers and text, the methods of several statements; then libpq
from the bytes up: `Wire`, `Protocol`, `PgResult`, `Connect`, and the conversions.

What could follow: a refinement from `Protocol` to the part of `PgConnection` that is
libpq; two connections with `DbiManager` above them; and proofs about the conversions of
`Codecs`.

---------------------------- MODULE PgConnection ----------------------------
(***************************************************************************)
(* One connection at work: the driver's calls (RS_PostgreSQL_exec,         *)
(* _pqexec, _pqexecparams, _getResult, _CopyIn and _CopyInDataframe), the  *)
(* state machine of libpq they run on (PQexec, PQgetResult, PQputCopyData, *)
(* PQputCopyEnd), and the server at the other end of two message streams.  *)
(*                                                                         *)
(* The driver has one thread, but its calls wait for a server that works,  *)
(* fails and dies on its own, and they can leave the PGconn in the middle  *)
(* of a COPY.  A result carries the number of the statement string it      *)
(* answers, and the one that ends a COPY FROM what became of it, which no  *)
(* real message does: that they are always the right ones is what the      *)
(* waiting and draining of libpq is for.                                   *)
(***************************************************************************)
EXTENDS Integers, Sequences

CONSTANTS
  NULL,
  Queries,      \* statement strings: sequences of statement kinds
  MaxQueries,   \* bound: strings sent to the server
  MaxChunks     \* bound: PQputCopyData calls of one CopyIn

Kinds == {"select", "command", "copyin", "copyout"}

ASSUME QueriesAssumption == Queries \subseteq Seq(Kinds) \ {<<>>}
ASSUME BoundsAssumption == MaxQueries \in Nat /\ MaxChunks \in Nat

VARIABLES
  \* the PGconn
  asyncStatus,  \* "IDLE", "BUSY", "COPY_IN" or "COPY_OUT"
  bad,          \* status = CONNECTION_BAD
  toServer,     \* messages under way to the server
  toClient,     \* messages under way to libpq
  \* the server
  alive,        \* the backend has not gone away
  serving,      \* the string being executed, 0 if none
  rest,         \* its statements still to run
  copying,      \* the backend is receiving COPY data
  \* the driver
  pc,           \* where the running call is
  op,           \* the entry point, "lookup" in createDataMappings
  query,        \* its statement string
  last,         \* lastResult of PQexecFinish
  chunks,       \* blocks CopyIn has still to send
  lookups,      \* catalogue lookups createDataMappings has still to make
  rs,           \* the one result set of the connection, or NULL
  \* history
  sent,         \* strings sent to the server
  call,         \* of the call R made last: did it send a statement or data?, outcome
  ended,        \* a COPY was ended by CopyIn and its result not yet read
  reported      \* what getResult made of it, and what the server had

libpqVars == <<asyncStatus, bad>>
channelVars == <<toServer, toClient>>
serverVars == <<alive, serving, rest, copying>>
driverVars == <<pc, op, query, last, chunks, lookups, rs>>
historyVars == <<sent, call, ended, reported>>
vars == <<libpqVars, channelVars, serverVars, driverVars, historyVars>>

Statuses == {"TUPLES_OK", "COMMAND_OK", "FATAL_ERROR", "COPY_IN", "COPY_OUT"}
Fates == {"none", "stored", "rejected"}
Results == [status : Statuses, query : 0..MaxQueries, fate : Fates]
Replies == [status : Statuses \cup {"READY"}, query : 1..MaxQueries, fate : Fates]
ResultSets == [completed : {0, 1}, statement : BOOLEAN, fields : BOOLEAN]

ASSUME NullAssumption == NULL \notin Results \cup Replies \cup ResultSets

NoReport == [says |-> "none", fate |-> "none"]

Init ==
  /\ asyncStatus = "IDLE" /\ bad = FALSE
  /\ toServer = <<>> /\ toClient = <<>>
  /\ alive = TRUE /\ serving = 0 /\ rest = <<>> /\ copying = FALSE
  /\ pc = "idle" /\ op = "none" /\ query = <<>> /\ last = NULL
  /\ chunks = 0 /\ lookups = 0 /\ rs = NULL
  /\ sent = 0 /\ call = [ran |-> FALSE, outcome |-> "none"]
  /\ ended = FALSE /\ reported = NoReport

-----------------------------------------------------------------------------
(* libpq.  PQgetResult waits only while a command is busy. *)

\* A message leaves for the server, into the void if it is gone.
Send(msg) == toServer' = IF alive THEN Append(toServer, msg) ELSE toServer

\* PQgetResult can return: it is not busy, has a message, or sees the end of
\* the stream.
GetResultReady == asyncStatus # "BUSY" \/ toClient # <<>> \/ ~alive

\* The PGresult it returns, NULL when the command is finished.
PQgetResult ==
  LET Made(status) == [status |-> status, query |-> sent, fate |-> "none"]
  IN  CASE asyncStatus = "IDLE" -> NULL
        [] asyncStatus \in {"COPY_IN", "COPY_OUT"} ->
             Made(IF bad THEN "FATAL_ERROR" ELSE asyncStatus)
        [] asyncStatus = "BUSY" ->
             IF toClient = <<>> THEN Made("FATAL_ERROR")
             ELSE IF Head(toClient).status = "READY" THEN NULL ELSE Head(toClient)

\* The state it leaves the PGconn in.
StatusAfter ==
  LET result == PQgetResult
  IN  IF result = NULL \/ bad \/ (asyncStatus = "BUSY" /\ toClient = <<>>) THEN "IDLE"
      ELSE IF result.status \in {"COPY_IN", "COPY_OUT"} THEN result.status
      ELSE "BUSY"

\* What it reads: one message if busy, or the end of the stream.
Receive ==
  /\ GetResultReady
  /\ toClient' = IF asyncStatus = "BUSY" /\ toClient # <<>> THEN Tail(toClient)
                 ELSE toClient
  /\ bad' = (bad \/ (asyncStatus = "BUSY" /\ toClient = <<>>))

-----------------------------------------------------------------------------
(* The server. *)

\* The server answers the string it is executing; fate is that of the COPY
\* FROM the answer ends.
Reply(status, fate) == [status |-> status, query |-> serving, fate |-> fate]
Answer(status) == toClient' = Append(toClient, Reply(status, "none"))
EndsCopy(status, fate) == toClient' = Append(toClient, Reply(status, fate))

ServerUnchanged == UNCHANGED <<libpqVars, driverVars, sent, call, ended, reported>>

\* An idle backend takes the next message; COPY messages that come too late,
\* after the COPY has failed, are skipped.
ServerTakes ==
  /\ alive /\ serving = 0 /\ toServer # <<>>
  /\ toServer' = Tail(toServer)
  /\ IF Head(toServer).type # "Query"
       THEN UNCHANGED <<serving, rest>>
       ELSE serving' = Head(toServer).id /\ rest' = Head(toServer).statements
  /\ UNCHANGED <<alive, copying, toClient>>
  /\ ServerUnchanged

\* The next statement of the string succeeds, or starts a COPY.
ServerRuns ==
  /\ alive /\ serving > 0 /\ ~copying /\ rest # <<>>
  /\ rest' = Tail(rest)
  /\ CASE Head(rest) = "select" -> Answer("TUPLES_OK") /\ UNCHANGED copying
       [] Head(rest) = "command" -> Answer("COMMAND_OK") /\ UNCHANGED copying
       [] Head(rest) = "copyin" -> Answer("COPY_IN") /\ copying' = TRUE
       [] Head(rest) = "copyout" ->
            /\ toClient' = toClient \o
                 <<Reply("COPY_OUT", "none"), Reply("COMMAND_OK", "none")>>
            /\ UNCHANGED copying
  /\ UNCHANGED <<alive, serving, toServer>>
  /\ ServerUnchanged

\* An error, in a statement or anywhere in a COPY, ends the whole string.
ServerFails ==
  /\ alive /\ serving > 0 /\ (rest # <<>> \/ copying)
  /\ EndsCopy("FATAL_ERROR", IF copying THEN "rejected" ELSE "none")
  /\ rest' = <<>> /\ copying' = FALSE
  /\ UNCHANGED <<alive, serving, toServer>>
  /\ ServerUnchanged

ServerReceivesData ==
  /\ alive /\ copying /\ toServer # <<>> /\ Head(toServer).type = "CopyData"
  /\ toServer' = Tail(toServer)
  /\ UNCHANGED <<alive, serving, rest, copying, toClient>>
  /\ ServerUnchanged

ServerStores ==
  /\ alive /\ copying /\ toServer # <<>> /\ Head(toServer).type = "CopyDone"
  /\ toServer' = Tail(toServer)
  /\ EndsCopy("COMMAND_OK", "stored")
  /\ copying' = FALSE
  /\ UNCHANGED <<alive, serving, rest>>
  /\ ServerUnchanged

ServerAborts ==
  /\ alive /\ copying /\ toServer # <<>> /\ Head(toServer).type = "CopyFail"
  /\ toServer' = Tail(toServer)
  /\ EndsCopy("FATAL_ERROR", "rejected")
  /\ rest' = <<>> /\ copying' = FALSE
  /\ UNCHANGED <<alive, serving>>
  /\ ServerUnchanged

ServerReady ==
  /\ alive /\ serving > 0 /\ ~copying /\ rest = <<>>
  /\ toClient' = Append(toClient, Reply("READY", "none"))
  /\ serving' = 0
  /\ UNCHANGED <<alive, rest, copying, toServer>>
  /\ ServerUnchanged

\* The backend goes away, and with it the last messages of what it has sent.
ServerDies ==
  /\ alive
  /\ alive' = FALSE /\ toServer' = <<>>
  /\ serving' = 0 /\ rest' = <<>> /\ copying' = FALSE
  /\ \E n \in 0..Len(toClient) : toClient' = SubSeq(toClient, 1, n)
  /\ ServerUnchanged

ServerStep ==
  \/ ServerTakes \/ ServerRuns \/ ServerFails \/ ServerReady
  \/ ServerReceivesData \/ ServerStores \/ ServerAborts

-----------------------------------------------------------------------------
(* Calls that run a statement string. *)

ResultSet(completed, statement) ==
  [completed |-> completed, statement |-> statement, fields |-> FALSE]

Pending == rs # NULL /\ rs.completed = 0

Finish(outcome) == pc' = "idle" /\ call' = [call EXCEPT !.outcome = outcome]

\* Entering PQexec for R: entry point e, string q.
Enter(e, q) ==
  /\ pc = "idle"
  /\ sent < MaxQueries
  /\ pc' = "start" /\ op' = e /\ query' = q
  /\ call' = [ran |-> FALSE, outcome |-> "none"]
  /\ reported' = NoReport
  /\ UNCHANGED <<libpqVars, channelVars, serverVars, last, chunks, lookups, sent, ended>>

\* Mutant: the first result set is closed without a look at completed.
Exec_PendingClosed(q) == Enter("exec", q) /\ rs' = NULL

\* dbSendQuery(): a result set that is completed is closed first.
Exec(q) == ~Pending /\ Enter("exec", q) /\ rs' = NULL

\* "connection with pending rows, close resultSet before continuing"
ExecRefused ==
  /\ pc = "idle" /\ Pending
  /\ call' = [ran |-> FALSE, outcome |-> "refused"]
  /\ UNCHANGED <<libpqVars, channelVars, serverVars, driverVars,
                 sent, ended, reported>>

\* dbSendQuery(.., params), of one statement: open result sets are not looked at.
ExecParams(q) == Len(q) = 1 /\ Enter("params", q) /\ UNCHANGED rs

\* postgresqlpqExec(): no result set is involved.
PqExec(q) == Enter("pqexec", q) /\ UNCHANGED rs

\* The loop of PQexecStart discards whatever an earlier command left to read.
Discards(result) == pc = "start" /\ PQgetResult # NULL /\ result = PQgetResult /\ Receive

\* Mutant: a COPY that was left open is ended as if it were complete.
DrainCopyIn_Done ==
  /\ \E result \in Results : Discards(result) /\ result.status = "COPY_IN"
  /\ asyncStatus' = "BUSY"
  /\ Send([type |-> "CopyDone"])
  /\ UNCHANGED <<serverVars, driverVars, historyVars>>

\* ... a COPY FROM is made to fail ("COPY terminated by new PQexec") ...
DrainCopyIn ==
  /\ \E result \in Results : Discards(result) /\ result.status = "COPY_IN"
  /\ asyncStatus' = "BUSY"
  /\ Send([type |-> "CopyFail"])
  /\ UNCHANGED <<serverVars, driverVars, historyVars>>

\* ... but PQputCopyEnd may find that it cannot send, before or after it has
\* left the COPY: PQexec returns NULL.
DrainCopyInFails ==
  /\ \E result \in Results : Discards(result) /\ result.status = "COPY_IN"
  /\ ~alive
  /\ asyncStatus' \in {"COPY_IN", "BUSY"}
  /\ IF op = "lookup" THEN pc' = "map" /\ UNCHANGED call ELSE Finish("error")
  /\ UNCHANGED <<serverVars, toServer, op, query, last, chunks, lookups, rs,
                 sent, ended, reported>>

\* Mutant: the PGconn is not put back to work.
DrainCopyOut_Stays ==
  /\ \E result \in Results : Discards(result) /\ result.status = "COPY_OUT"
  /\ asyncStatus' = "COPY_OUT"
  /\ UNCHANGED <<serverVars, driverVars, toServer, historyVars>>

\* ... the data of a COPY TO is dropped on the floor ...
DrainCopyOut ==
  /\ \E result \in Results : Discards(result) /\ result.status = "COPY_OUT"
  /\ asyncStatus' = "BUSY"
  /\ UNCHANGED <<serverVars, driverVars, toServer, historyVars>>

\* ... and any other result cleared unread, that of an ended COPY included.
DrainResult ==
  /\ \E result \in Results :
       Discards(result) /\ result.status \notin {"COPY_IN", "COPY_OUT"}
  /\ asyncStatus' = StatusAfter
  /\ IF bad'
       THEN IF op = "lookup" THEN pc' = "map" /\ UNCHANGED call ELSE Finish("error")
       ELSE UNCHANGED <<pc, call>>
  /\ ended' = FALSE
  /\ UNCHANGED <<serverVars, toServer, op, query, last, chunks, lookups, rs,
                 sent, reported>>

\* Mutant: the string is sent without draining the PGconn first.
SendQuery_Undrained ==
  /\ pc = "start" /\ ~bad
  /\ Send([type |-> "Query", id |-> sent + 1, statements |-> query])
  /\ sent' = sent + 1 /\ asyncStatus' = "BUSY" /\ pc' = "finish" /\ last' = NULL
  /\ call' = [call EXCEPT !.ran = TRUE]
  /\ UNCHANGED <<bad, toClient, serverVars, op, query, chunks, lookups, rs, ended, reported>>

\* PQsendQuery: nothing is left to read and the string goes out.
SendQuery ==
  /\ pc = "start" /\ Receive /\ PQgetResult = NULL /\ ~bad
  /\ Send([type |-> "Query", id |-> sent + 1, statements |-> query])
  /\ sent' = sent + 1 /\ asyncStatus' = "BUSY" /\ pc' = "finish" /\ last' = NULL
  /\ call' = [call EXCEPT !.ran = TRUE]
  /\ UNCHANGED <<serverVars, op, query, chunks, lookups, rs, ended, reported>>

\* "no connection to the server", or the write fails: PQexec returns NULL.
SendQueryFails ==
  /\ pc = "start" /\ Receive /\ PQgetResult = NULL /\ ~alive
  /\ asyncStatus' = "IDLE"
  /\ IF op = "lookup" THEN pc' = "map" /\ UNCHANGED call ELSE Finish("error")
  /\ UNCHANGED <<serverVars, toServer, op, query, last, chunks, lookups, rs,
                 sent, ended, reported>>

\* PQexecFinish keeps the last result, and stops at a COPY, at the end of the
\* string or with the connection.
FinishQuery ==
  /\ pc = "finish" /\ Receive
  /\ asyncStatus' = StatusAfter
  /\ IF PQgetResult = NULL
       THEN pc' = "return" /\ UNCHANGED last
       ELSE /\ last' = PQgetResult
            /\ pc' = IF PQgetResult.status \in {"COPY_IN", "COPY_OUT"} \/ bad'
                       THEN "return" ELSE "finish"
  /\ UNCHANGED <<toServer, serverVars, op, query, chunks, lookups, rs, historyVars>>

\* Back in the driver with the result of the string.
Returning == pc = "return" /\ UNCHANGED <<libpqVars, channelVars, serverVars, query, chunks,
                                         sent, ended, reported>>

\* PQresultErrorMessage is not empty: an R error.
ReturnError ==
  /\ Returning /\ op # "lookup" /\ last.status = "FATAL_ERROR"
  /\ Finish("error")
  /\ UNCHANGED <<op, last, lookups, rs>>

\* pqexec clears the result.
ReturnCleared ==
  /\ Returning /\ op = "pqexec" /\ last.status # "FATAL_ERROR"
  /\ Finish("ok")
  /\ UNCHANGED <<op, last, lookups, rs>>

\* A nullable or type lookup is used, whatever it is, and cleared.
ReturnLookup ==
  /\ Returning /\ op = "lookup"
  /\ pc' = "map"
  /\ UNCHANGED <<op, last, lookups, rs, call>>

\* RS_DBI_allocResultSet wraps it.  A SELECT goes on to createDataMappings, which
\* looks nothing up for a column with no table and a known type.
Wrap(completedOfCommand) ==
  /\ Returning /\ op \in {"exec", "params"} /\ last.status # "FATAL_ERROR" /\ rs = NULL
  /\ IF last.status = "TUPLES_OK"
       THEN /\ rs' = ResultSet(0, TRUE)
            /\ pc' = "map" /\ lookups' \in 0..(MaxQueries - sent)
            /\ UNCHANGED call
       ELSE rs' = ResultSet(completedOfCommand, TRUE) /\ Finish("ok") /\ UNCHANGED lookups
  /\ UNCHANGED <<op, last>>

\* A statement that returns no rows is completed.
ReturnWrapped == Wrap(1)

\* RS_DBI_allocResultSet has no cell: the statement was run, the call fails.
ReturnRefused ==
  /\ Returning /\ op = "params" /\ last.status # "FATAL_ERROR" /\ rs # NULL
  /\ Finish("refused")
  /\ UNCHANGED <<op, last, lookups, rs>>

Mapping == pc = "map" /\ UNCHANGED <<libpqVars, channelVars, serverVars, last, chunks, sent,
                                    ended, reported>>

\* createDataMappings asks the catalogue about a column.
MapLooksUp ==
  /\ Mapping /\ lookups > 0
  /\ lookups' = lookups - 1
  /\ pc' = "start" /\ op' = "lookup" /\ query' = <<"select">>
  /\ UNCHANGED <<rs, call>>

MapDone ==
  /\ Mapping /\ lookups = 0
  /\ rs' = [rs EXCEPT !.fields = TRUE]
  /\ Finish("ok")
  /\ UNCHANGED <<op, query, lookups>>

\* The warning that follows the lookup of an unknown type is an error under
\* options(warn = 2), and the result set stays behind without its fields.
MapAborts ==
  /\ Mapping /\ op = "lookup"
  /\ Finish("error")
  /\ UNCHANGED <<op, query, lookups, rs>>

-----------------------------------------------------------------------------
(* Calls on the result set. *)

OnlyResultSet ==
  /\ pc = "idle"
  /\ UNCHANGED <<libpqVars, channelVars, serverVars, op, query, last, chunks, lookups, historyVars>>

\* fetch() up to the last row.
Fetch == OnlyResultSet /\ Pending /\ rs.fields /\ rs' = [rs EXCEPT !.completed = 1] /\ UNCHANGED pc

\* dbClearResult()
ClearResult == OnlyResultSet /\ rs # NULL /\ rs' = NULL /\ UNCHANGED pc

\* dbHasCompleted() and all that asks RS_PostgreSQL_resultSetInfo, dbDisconnect()
\* included: mkChar(result->statement) of a result set that has none.
InfoOfNullStatement ==
  OnlyResultSet /\ rs # NULL /\ ~rs.statement /\ pc' = "crashed" /\ UNCHANGED rs

-----------------------------------------------------------------------------
(* COPY FROM STDIN. *)

\* CopyIn with n blocks to send; CopyInDataframe always sends at least one.
CopyIn(n) ==
  /\ pc = "idle"
  /\ pc' = "copy" /\ chunks' = n
  /\ call' = [ran |-> FALSE, outcome |-> "none"]
  /\ UNCHANGED <<libpqVars, channelVars, serverVars, op, query, last, lookups, rs,
                 sent, ended, reported>>

Copying == pc = "copy" /\ UNCHANGED <<toClient, serverVars, op, query, last, lookups, rs,
                                     sent, reported>>

PutCopyData ==
  /\ Copying /\ chunks > 0 /\ asyncStatus = "COPY_IN"
  /\ Send([type |-> "CopyData"])
  /\ chunks' = chunks - 1
  /\ call' = [call EXCEPT !.ran = TRUE]
  /\ UNCHANGED <<libpqVars, pc, ended>>

\* "no COPY in progress", an R error between two blocks, or a write that fails,
\* after which libpq may have seen the end of the stream.
PutCopyDataFails ==
  /\ Copying /\ chunks > 0
  /\ bad' \in {bad, bad \/ ~alive}
  /\ Finish("error")
  /\ UNCHANGED <<asyncStatus, toServer, chunks, ended>>

\* PQputCopyEnd.  Its return value is ignored: CopyIn succeeds without a COPY in
\* progress, and when the message fills up the buffer the data is in and its write
\* fails, which leaves the COPY open.
PutCopyEnd ==
  /\ Copying /\ chunks = 0
  /\ IF asyncStatus = "COPY_IN"
       THEN /\ Send([type |-> "CopyDone"])
            /\ asyncStatus' = "BUSY" \/ (~alive /\ call.ran /\ asyncStatus' = "COPY_IN")
            /\ ended' = TRUE
       ELSE UNCHANGED <<toServer, asyncStatus, ended>>
  /\ Finish("ok")
  /\ UNCHANGED <<bad, chunks>>

\* postgresqlgetResult(): as in exec, a completed result set is closed first.
GetResult ==
  /\ pc = "idle" /\ ~Pending
  /\ pc' = "getResult" /\ rs' = NULL
  /\ call' = [ran |-> FALSE, outcome |-> "none"]
  /\ UNCHANGED <<libpqVars, channelVars, serverVars, op, query, last, chunks, lookups,
                 sent, ended, reported>>

\* Its result: an R error if it has an error message or there was none to get;
\* otherwise it is cleared, and wrapped as a result set with neither statement
\* nor rows.
GotResult ==
  /\ pc = "getResult" /\ Receive
  /\ asyncStatus' = StatusAfter
  /\ LET ok == PQgetResult # NULL /\ PQgetResult.status # "FATAL_ERROR"
     IN  /\ rs' = IF ok THEN ResultSet(1, FALSE) ELSE NULL
         /\ reported' = IF ~ended THEN reported
                        ELSE [says |-> IF ok THEN "ok" ELSE "failed",
                              fate |-> IF PQgetResult = NULL THEN "none" ELSE PQgetResult.fate]
         /\ Finish(IF ok THEN "ok" ELSE "error")
  /\ ended' = FALSE
  /\ UNCHANGED <<toServer, serverVars, op, query, last, chunks, lookups, sent>>

-----------------------------------------------------------------------------
\* What the driver does on its own once it was called.
DriverStep ==
  \/ DrainCopyIn \/ DrainCopyInFails \/ DrainCopyOut \/ DrainResult
  \/ SendQuery \/ SendQueryFails \/ FinishQuery
  \/ ReturnError \/ ReturnCleared \/ ReturnLookup \/ ReturnWrapped \/ ReturnRefused
  \/ MapLooksUp \/ MapDone \/ MapAborts
  \/ PutCopyData \/ PutCopyDataFails \/ PutCopyEnd
  \/ GotResult

Call ==
  \/ \E q \in Queries : Exec(q) \/ ExecParams(q) \/ PqExec(q)
  \/ ExecRefused
  \/ Fetch \/ ClearResult \/ InfoOfNullStatement
  \/ \E n \in 0..MaxChunks : CopyIn(n)
  \/ GetResult

Next == DriverStep \/ Call \/ ServerStep \/ ServerDies

Spec == Init /\ [][Next]_vars

\* A call runs on to its end and a living server works off its messages.
FairSpec == Spec /\ WF_vars(DriverStep) /\ WF_vars(ServerStep)

-----------------------------------------------------------------------------
(* Properties. *)

Messages ==
  [type : {"CopyData", "CopyDone", "CopyFail"}] \cup
  [type : {"Query"}, id : 1..MaxQueries, statements : Seq(Kinds)]

\* The shape of every variable.
TypeOK ==
  /\ asyncStatus \in {"IDLE", "BUSY", "COPY_IN", "COPY_OUT"} /\ bad \in BOOLEAN
  /\ toServer \in Seq(Messages) /\ toClient \in Seq(Replies)
  /\ alive \in BOOLEAN /\ copying \in BOOLEAN
  /\ serving \in 0..MaxQueries /\ rest \in Seq(Kinds)
  /\ pc \in {"idle", "start", "finish", "return", "map", "copy", "getResult", "crashed"}
  /\ op \in {"none", "exec", "params", "pqexec", "lookup"}
  /\ query \in Seq(Kinds) /\ last \in Results \cup {NULL}
  /\ chunks \in 0..MaxChunks /\ lookups \in 0..MaxQueries /\ rs \in ResultSets \cup {NULL}
  /\ sent \in 0..MaxQueries
  /\ call \in [ran : BOOLEAN, outcome : {"none", "ok", "error", "refused"}]
  /\ ended \in BOOLEAN /\ reported \in [says : {"none", "ok", "failed"}, fate : Fates]

\* PQexec never hands the driver the result of an earlier string: not one an
\* earlier call left unread, not the late answer of an abandoned COPY, not that
\* of a catalogue lookup.
ResultAnswersItsQuery == pc = "return" => last # NULL /\ last.query = sent

\* When libpq takes the connection for idle, the server has finished all it was
\* sent and no answer is under way: only COPY data that came too late can be.
IdleMeansQuiet ==
  asyncStatus = "IDLE" /\ ~bad /\ alive =>
    /\ toClient = <<>> /\ serving = 0
    /\ \A m \in 1..Len(toServer) : toServer[m].type # "Query"

\* The catalogue lookups of createDataMappings run on a connection with nothing
\* left to read, so they discard no COPY and no result of the user's.
LookupDisturbsNothing == pc = "map" => asyncStatus = "IDLE" \/ ~alive

\* What getResult says of a COPY ended by CopyIn is what became of it, for as
\* long as the server lives.
ReportIsTrue ==
  alive => /\ reported.says = "ok" => reported.fate = "stored"
           /\ reported.says = "failed" => reported.fate = "rejected"

\* Client and server stay in step: every result the driver gets, keeps or reports
\* is the one of the statement it belongs to, and nothing of an earlier one is
\* left on the wire when libpq takes the connection for idle.
InStep ==
  /\ TypeOK
  /\ ResultAnswersItsQuery /\ IdleMeansQuiet /\ LookupDisturbsNothing
  /\ ReportIsTrue

\* Rows that are pending are given up by no statement, only by dbClearResult().
PendingRowsSurvive ==
  [][Pending /\ rs' = NULL => ClearResult]_vars

\* The server stores only COPYs that CopyIn ended: one left open by an error
\* and cut off by the next statement leaves nothing behind.
StoredOnlyIfEnded ==
  [][ServerStores => ended]_vars

\* Every call comes back (or takes the process with it): no state of the PGconn
\* makes the client and a living server wait for each other.
CallsReturn == [](pc \notin {"idle", "crashed"} => <>(pc \in {"idle", "crashed"}))
=============================================================================

----------------------------- MODULE DbiSession -----------------------------
(***************************************************************************)
(* The DBI methods of R that take several statements, on one connection:   *)
(* transactions, dbRemoveTable, and dbWriteTable for a data frame and for  *)
(* a file.  A step is one statement as its R function sends it, so a user  *)
(* interrupt, or another session, can come between any two.                *)
(*                                                                         *)
(* Of the database the module keeps one table, as the set of the frames in *)
(* it: each call of dbWriteTable writes a frame of its own, and 0 is what  *)
(* another session put there.  How a statement and a COPY travel between   *)
(* libpq and the server is the subject of PgConnection.                    *)
(***************************************************************************)
EXTENDS Naturals

CONSTANTS
  MaxWrites,    \* bound: calls of dbWriteTable
  MaxForeign    \* bound: steps of another session

ASSUME BoundsAssumption == MaxWrites \in Nat /\ MaxForeign \in Nat

VARIABLES
  table,        \* whether the table exists and the frames in it, as this session sees it
  tx,           \* the transaction: "idle", "active" or "failed"
  mine,         \* the transaction has changed the table
  saved,        \* the table as it was before
  enc, txEnc,   \* client_encoding, and what it was when the transaction began
  copying,      \* the server waits for COPY data
  result,       \* the result set of the connection: "none", "pending" or "completed"
  call,         \* the call that is, or was last, made
  pc,           \* what the call does next; "user" between calls
  value,        \* what the last call returned
  frame,        \* the frame of the last dbWriteTable
  done,         \* history: the server did what the call is for
  foreign       \* steps of another session so far

serverVars == <<table, tx, mine, saved, enc, txEnc, copying>>
callVars == <<call, pc, value, frame, done>>
vars == <<serverVars, result, callVars, foreign>>

Absent == [exists |-> FALSE, rows |-> {}]
Holding(rows) == [exists |-> TRUE, rows |-> rows]

\* Nothing has been called yet.
NoCall == [op |-> "none", overwrite |-> FALSE, append |-> FALSE, enc |-> "none"]

Init ==
  /\ table \in {Absent, Holding({0})}
  /\ tx = "idle" /\ mine = FALSE /\ saved = Absent
  /\ enc \in {"UTF8", "LATIN1"} /\ txEnc = enc
  /\ copying = FALSE /\ result = "none"
  /\ call = NoCall /\ pc = "user" /\ value = "none"
  /\ frame = 0 /\ done = FALSE /\ foreign = 0

-----------------------------------------------------------------------------
(* The server.  A statement sent over an open COPY aborts the COPY first
   (PQexecStart), and so the transaction it is in. *)

Runs == tx # "failed" /\ ~(copying /\ tx = "active")

Rejected ==
  /\ tx' = IF tx = "active" THEN "failed" ELSE tx
  /\ copying' = FALSE
  /\ UNCHANGED <<table, mine, saved, enc, txEnc>>

\* A query that changes nothing.
Answered ==
  /\ Runs
  /\ copying' = FALSE
  /\ UNCHANGED <<table, tx, mine, saved, enc, txEnc>>

Changed(new) ==
  /\ Runs
  /\ table' = new /\ copying' = FALSE
  /\ mine' = (tx = "active")
  /\ saved' = IF mine THEN saved ELSE table
  /\ UNCHANGED <<tx, enc, txEnc>>

EncodingSet(new) ==
  /\ Runs
  /\ enc' = new /\ copying' = FALSE
  /\ UNCHANGED <<table, tx, mine, saved, txEnc>>

CopyStarted ==
  /\ Runs /\ table.exists
  /\ copying' = TRUE
  /\ UNCHANGED <<table, tx, mine, saved, enc, txEnc>>

\* BEGIN within a transaction is only warned about.
Begun ==
  /\ Runs
  /\ tx' = "active" /\ copying' = FALSE
  /\ txEnc' = IF tx = "idle" THEN enc ELSE txEnc
  /\ UNCHANGED <<table, mine, saved, enc>>

Ended ==
  /\ tx' = "idle" /\ mine' = FALSE /\ copying' = FALSE
  /\ UNCHANGED <<saved, txEnc>>

Committed == Runs /\ Ended /\ UNCHANGED <<table, enc>>

RolledBack ==
  /\ Ended
  /\ table' = IF mine THEN saved ELSE table
  /\ enc' = IF tx = "idle" THEN enc ELSE txEnc

-----------------------------------------------------------------------------
(* Statements and returns of the R functions. *)

\* Mutant: a result set is not cleared, and one with pending rows refuses.
QuickSQL_NotCleared(Sent) ==
  IF result = "pending" THEN UNCHANGED <<result, serverVars>>
                        ELSE result' = "none" /\ Sent

\* postgresqlQuickSQL: the result set that is open goes, rows pending or not;
\* an error of the statement becomes a warning and NULL; all rows are fetched.
QuickSQL(Sent) == result' = "none" /\ Sent

\* dbExistsTable.  Its query answered by NULL, the caller's if() is an error.
Existing == QuickSQL(Answered) /\ table.exists
NotExisting == QuickSQL(Answered) /\ ~table.exists
NotKnown == QuickSQL(~Runs /\ Rejected)

Goto(step) == pc' = step /\ UNCHANGED <<call, value, frame, done, foreign>>

Return(v) == pc' = "user" /\ value' = v /\ UNCHANGED <<call, frame, done, foreign>>

\* The call of a method that is a single step.
Single(op, v, did) ==
  /\ pc = "user"
  /\ call' = [NoCall EXCEPT !.op = op]
  /\ value' = v /\ done' = did
  /\ UNCHANGED <<pc, frame, foreign>>

\* A call of several steps begins.
Enter(op, overwrite, append, step) ==
  /\ pc = "user"
  /\ call' = [op |-> op, overwrite |-> overwrite, append |-> append, enc |-> enc]
  /\ pc' = step /\ value' = "none" /\ done' = FALSE
  /\ UNCHANGED <<serverVars, result, foreign>>

-----------------------------------------------------------------------------
(* Queries and transactions. *)

\* dbGetQuery.  Where fetch() cannot convert a column, the rows stay pending.
GetQuery ==
  \/ Single("getQuery", "rows", TRUE) /\ QuickSQL(Answered)
  \/ Single("getQuery", "NULL", FALSE) /\ QuickSQL(Rejected)
  \/ Single("getQuery", "error", FALSE) /\ Answered /\ result' = "pending"

SendQuery ==
  \/ /\ result = "pending" /\ Single("sendQuery", "error", FALSE)
     /\ UNCHANGED <<serverVars, result>>
  \/ /\ result # "pending" /\ Single("sendQuery", "result", TRUE)
     /\ Answered /\ result' = "pending"
  \/ /\ result # "pending" /\ Single("sendQuery", "error", FALSE)
     /\ Rejected /\ result' = "none"

Fetch ==
  /\ result = "pending" /\ Single("fetch", "rows", TRUE)
  /\ result' = "completed" /\ UNCHANGED serverVars

ClearResult ==
  /\ result # "none" /\ Single("clearResult", "TRUE", TRUE)
  /\ result' = "none" /\ UNCHANGED serverVars

\* dbBegin
BeginTransaction ==
  \/ Single("begin", "TRUE", TRUE) /\ QuickSQL(Begun)
  \/ Single("begin", "TRUE", FALSE) /\ QuickSQL(~Runs /\ Rejected)

\* Over a failed transaction COMMIT is a ROLLBACK; it may be refused (a deferred
\* constraint), and the transaction is over all the same.
SendCommit ==
  \/ Single("commit", "TRUE", TRUE) /\ QuickSQL(Committed)
  \/ Single("commit", "TRUE", FALSE) /\ QuickSQL(tx = "active" /\ RolledBack)
  \/ Single("commit", "TRUE", TRUE) /\ QuickSQL(tx = "failed" /\ RolledBack)

\* Mutant: the method as PostgreSQL.R first defines it, by dbGetQuery.
Commit_Direct == SendCommit

\* dbCommit: postgresqlTransactionStatement, which wants no pending rows.
Commit ==
  \/ result # "pending" /\ SendCommit
  \/ /\ result = "pending" /\ Single("commit", "error", FALSE)
     /\ UNCHANGED <<serverVars, result>>

\* dbRollback clears the result set itself.
Rollback == Single("rollback", "TRUE", TRUE) /\ QuickSQL(RolledBack)

-----------------------------------------------------------------------------
(* dbRemoveTable and dbWriteTable. *)

RemoveTable == Enter("remove", FALSE, FALSE, "remove") /\ UNCHANGED frame

\* "overwrite and append cannot both be TRUE"
WriteTable(overwrite, append) ==
  /\ frame < MaxWrites /\ ~(overwrite /\ append)
  /\ Enter("write", overwrite, append, "exists") /\ frame' = frame + 1

ImportFile(overwrite, append) ==
  /\ frame < MaxWrites /\ ~(overwrite /\ append)
  /\ Enter("import", overwrite, append, "exists") /\ frame' = frame + 1

\* Mutant: what is not to be appended to is dropped.
LookUp_DropUnlessAppend ==
  /\ pc = "exists"
  /\ \/ Existing /\ ~call.append /\ Goto("remove")
     \/ Existing /\ call.append /\ Goto("again")
     \/ NotExisting /\ Goto("again")
     \/ NotKnown /\ Return("error")

\* if(dbExistsTable(con, name))
LookUp ==
  /\ pc = "exists"
  /\ \/ Existing /\ call.overwrite /\ Goto("remove")
     \/ Existing /\ ~call.overwrite /\ call.append /\ Goto("again")
     \/ Existing /\ ~call.overwrite /\ ~call.append /\ Return("FALSE")
     \/ NotExisting /\ Goto("again")
     \/ NotKnown /\ Return("error")

\* dbRemoveTable, called for itself or to overwrite, looks once more.
LookUpToRemove ==
  /\ pc = "remove"
  /\ \/ Existing /\ Goto("drop")
     \/ NotExisting /\ Return("FALSE")
     \/ NotKnown /\ Return("error")

\* DROP TABLE by dbGetQuery: TRUE whatever becomes of it.  It may be refused, as
\* when another object depends on the table.
Drop ==
  /\ pc = "drop"
  /\ \/ QuickSQL(table.exists /\ Changed(Absent)) /\ done' = (call.op = "remove")
     \/ QuickSQL(Rejected) /\ UNCHANGED done
  /\ \/ call.op = "remove" /\ pc' = "user" /\ value' = "TRUE"
     \/ call.op # "remove" /\ pc' = "again" /\ UNCHANGED value
  /\ UNCHANGED <<call, frame, foreign>>

\* "need to re-test table for existance": with a table it goes on to load it.
LookAgain ==
  /\ pc = "again"
  /\ \/ Existing /\ Goto(IF call.op = "write" THEN "encoding" ELSE "load")
     \/ NotExisting /\ Goto("create")
     \/ NotKnown /\ Return("error")

\* CREATE TABLE by dbSendQuery, and dbClearResult.
Create ==
  /\ pc = "create"
  /\ \/ /\ ~table.exists /\ Changed(Holding({})) /\ result' = "none"
        /\ Goto(IF call.op = "write" THEN "encoding" ELSE "load")
     \/ Rejected /\ result' = "none" /\ Return("FALSE")

\* COPY FROM a file of the server, by dbSendQuery.
Load ==
  /\ pc = "load"
  /\ \/ /\ table.exists /\ Changed(Holding(table.rows \cup {frame})) /\ result' = "none"
        /\ pc' = "user" /\ value' = "TRUE" /\ done' = TRUE
        /\ UNCHANGED <<call, frame, foreign>>
     \/ Rejected /\ result' = "none" /\ Return("FALSE")

\* SHOW client_encoding, kept in call.enc, and SET CLIENT_ENCODING TO 'UTF8'.
SwitchEncoding ==
  /\ pc = "encoding"
  /\ QuickSQL(EncodingSet("UTF8")) /\ Goto("copy")

\* COPY FROM STDIN by postgresqlpqExec, which raises an error: the table may be
\* gone by now, or have other columns.
StartCopy ==
  /\ pc = "copy" /\ UNCHANGED result
  /\ \/ CopyStarted /\ Goto("data")
     \/ Rejected /\ Return("error")

\* postgresqlCopyInDataframe: the server takes the frame or will answer with an
\* error, unless an error in R leaves the COPY open.
CopyInDataframe ==
  /\ pc = "data" /\ UNCHANGED result
  /\ \/ /\ table' = Holding(table.rows \cup {frame}) /\ copying' = FALSE
        /\ mine' = (tx = "active") /\ saved' = (IF mine THEN saved ELSE table)
        /\ UNCHANGED <<tx, enc, txEnc>>
        /\ pc' = "stored" /\ done' = TRUE /\ UNCHANGED <<call, value, frame, foreign>>
     \/ Rejected /\ Goto("refused")
     \/ UNCHANGED serverVars /\ Return("error")

\* Mutant: the error is caught, and its class not looked at.
GetResult_Swallowed ==
  /\ pc \in {"stored", "refused"}
  /\ Goto("restore") /\ UNCHANGED <<serverVars, result>>

\* postgresqlgetResult, not in a try(), and dbClearResult.
GetResult ==
  /\ UNCHANGED <<serverVars, result>>
  /\ \/ pc = "stored" /\ Goto("restore")
     \/ pc = "refused" /\ Return("error")

\* SET CLIENT_ENCODING to what SHOW answered.
RestoreEncoding ==
  /\ pc = "restore"
  /\ QuickSQL(EncodingSet(call.enc)) /\ Return("TRUE")

-----------------------------------------------------------------------------
(* Between two statements. *)

\* The user interrupts R, or an error of R's own, as with a file that is not there.
Interrupt == pc # "user" /\ Return("interrupt") /\ UNCHANGED <<serverVars, result>>

\* Another session creates the table, with rows, or drops it; not while this one
\* has changed it or copies into it, which locks it.
Foreign ==
  /\ foreign < MaxForeign /\ foreign' = foreign + 1
  /\ ~mine /\ ~copying
  /\ table' = IF table.exists THEN Absent ELSE Holding({0})
  /\ UNCHANGED <<tx, mine, saved, enc, txEnc, copying, result, callVars>>

Next ==
  \/ GetQuery \/ SendQuery \/ Fetch \/ ClearResult
  \/ BeginTransaction \/ Commit \/ Rollback
  \/ RemoveTable
  \/ \E overwrite, append \in BOOLEAN :
       WriteTable(overwrite, append) \/ ImportFile(overwrite, append)
  \/ LookUp \/ LookUpToRemove \/ Drop \/ LookAgain \/ Create \/ Load
  \/ SwitchEncoding \/ StartCopy \/ CopyInDataframe \/ GetResult \/ RestoreEncoding
  \/ Interrupt \/ Foreign

Spec == Init /\ [][Next]_vars

-----------------------------------------------------------------------------
(* Properties. *)

Tables == [exists : BOOLEAN, rows : SUBSET (0..MaxWrites)]

Steps == {"user", "exists", "remove", "drop", "again", "create", "load", "encoding",
          "copy", "data", "stored", "refused", "restore"}

\* The shape of every variable.  Once a call has sent its first statement, no result
\* set is open that the next one would have to make way for.
TypeOK ==
  /\ table \in Tables /\ saved \in Tables
  /\ ~table.exists => table.rows = {}
  /\ tx \in {"idle", "active", "failed"}
  /\ mine \in BOOLEAN /\ (mine => tx # "idle")
  /\ {enc, txEnc} \subseteq {"UTF8", "LATIN1"}
  /\ copying \in BOOLEAN
  /\ result \in {"none", "pending", "completed"}
  /\ pc \in Steps
  /\ pc \in Steps \ {"user", "exists", "remove"} => result = "none"
  /\ frame \in 0..MaxWrites /\ done \in BOOLEAN
  /\ foreign \in 0..MaxForeign

Returned(op, v) == pc = "user" /\ call.op = op /\ value = v

WriteReturned(v) == Returned("write", v) \/ Returned("import", v)

\* dbWriteTable is TRUE exactly when the server has stored the frame, whatever was
\* refused, dropped or left open on the way.
WriteReportIsTrue ==
  /\ WriteReturned("TRUE") => done
  /\ WriteReturned("FALSE") => ~done

\* After dbBegin the session is in a transaction, after dbCommit and dbRollback it is
\* not, whatever result set or COPY was open.
TransactionsBeginAndEnd ==
  /\ Returned("begin", "TRUE") => tx # "idle"
  /\ Returned("commit", "TRUE") \/ Returned("rollback", "TRUE") => tx = "idle"

\* dbWriteTable works in UTF8 and, when it returns a value, leaves the session the
\* encoding it found.
EncodingKept == WriteReturned("TRUE") \/ WriteReturned("FALSE") => enc = call.enc

\* A frame that is to be neither appended nor to overwrite ends up in a table that
\* holds nothing else; the two looks at the table guard this against everything but
\* a session that creates it in between.
CreatesItsTable ==
  WriteReturned("TRUE") /\ ~call.append /\ ~call.overwrite /\ foreign = 0
    => table.rows = {frame}

\* Rows go only by a call that overwrites or removes, or with a transaction.
RowsSurvive ==
  [][\/ table.rows \subseteq table'.rows
     \/ call'.overwrite \/ call'.op \in {"remove", "commit", "rollback"}
     \/ foreign' # foreign]_vars

\* The methods that send their first statement by postgresqlQuickSQL.
DiscardingOps == {"getQuery", "begin", "rollback", "remove", "write", "import"}

\* Rows that wait to be fetched go when they are fetched or cleared, and without a
\* word in a method whose first statement makes way for itself.  dbSendQuery and
\* dbCommit are the two that refuse instead: after such a call the rows still wait.
PendingRowsGo ==
  [][result = "pending" /\ result' # "pending"
       => call'.op \in {"fetch", "clearResult"} \cup DiscardingOps]_vars

\* Rows are lost only where the code lets them: those of the table by a call that
\* overwrites or removes, by the end of a transaction or by another session, those
\* not yet fetched by the methods that clear what is open.
OnlyTheseLoseRows == RowsSurvive /\ PendingRowsGo

\* "Returns a logical indicating whether the operation succeeded or not."
TrueMeansDone ==
  \A op \in {"remove", "begin", "commit", "rollback"} : Returned(op, "TRUE") => done
=============================================================================

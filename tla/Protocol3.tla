------------------------------ MODULE Protocol3 ------------------------------
(***************************************************************************)
(* The handlers of fe-protocol3.c: what pqParseInput3, getCopyDataMessage  *)
(* and pqFunctionCall3 do with one message that is there as a whole.       *)
(*                                                                         *)
(* m.form tells whether the contents agree with the length word: "ok",     *)
(* "bad" (bytes are left over, or the fields run on behind the end),       *)
(* "short" (they end before the fields do), or "huge" (a length nobody     *)
(* believes).  A short message is taken for a bad one if the fields find   *)
(* bytes of the next to run on into.  Every allocation may fail.           *)
(***************************************************************************)
EXTENDS AsyncResult

\* The input and the connection are given up.
handleSyncLoss(c, m) ==
  Outcome([Ready(pqSaveErrorResult(c, m.stmt)) EXCEPT !.ok = FALSE], "lost")

\* Contents that end before the fields: the handler returns EOF, as if the message
\* was not there as a whole, and it is left.
Starved(c, m) == IF m.form = "short" THEN {Stays(c)} ELSE {}

\* strdup() of the name fails: the message is left for another time; malloc
\* of the notification fails: it is dropped.
getNotify(c) ==
  {Took([c EXCEPT !.notifies = @ + 1]), Failed(c, "stay"), Failed(c, "next")}

\* The row description is bad, or there is no memory: an error takes the
\* place of the result and the rows will be skipped.
RowsRefused(c, m) == pqSaveErrorResult(pqClearAsyncResult(c), m.stmt)

getRowDescriptions(c, m) ==
  LET describe == c.class = "DESCRIBE"
      result == IF describe /\ c.result # NULL THEN c.result
                ELSE NewResult(IF describe THEN "COMMAND_OK" ELSE "TUPLES_OK", m.stmt)
      got == [c EXCEPT !.result = result]
  IN  IF m.form # "ok" THEN {Took(RowsRefused(c, m))}
      ELSE {Took(IF describe THEN Ready(got) ELSE got), Failed(RowsRefused(c, m), "next")}

\* "not_enough_data", or "extraneous data".
getParamDescriptions(c, m) ==
  IF m.form # "ok" THEN {Took(RowsRefused(c, m))} \union Starved(c, m)
  ELSE {Took([c EXCEPT !.result = NewResult("COMMAND_OK", m.stmt)]),
        Failed(RowsRefused(c, m), "next")}

getAnotherTuple(c, m) ==
  IF m.form # "ok" THEN {Took(RowsRefused(c, m))}
  ELSE {Took(pqRowProcessor(c, m.n)), Failed(RowsRefused(c, m), "next")}

\* Without memory the message is left, and looked at again later.
getCopyStart(c, m, status) ==
  {Took([c EXCEPT !.result = NewResult(status, m.stmt), !.async = status,
                  !.copy_already_done = IF status = "COPY_IN" THEN @ ELSE 0]),
   Failed(c, "stay")}

\* Messages while no query runs.
Idle3(c, m) == {Took(c)}

Busy3(c, m) ==
  CASE m.id = "C" -> Completes(c, m, "COMMAND_OK")
    [] m.id = "E" -> {Took(Ready(ErrorReceived(c, m)))}
    [] m.id = "Z" -> {Took([c EXCEPT !.async = "IDLE"])}
    [] m.id = "I" -> Completes(c, m, "EMPTY_QUERY")
    [] m.id = "1" -> IF c.class = "PREPARE" THEN Completes(c, m, "COMMAND_OK") ELSE {Took(c)}
    [] m.id \in {"2", "3", "S", "K", "d", "c"} -> {Took(c)}
    [] m.id = "T" /\ IsError(c.result) -> {Took(c)}
    [] m.id = "T" /\ (c.result = NULL \/ (c.class = "DESCRIBE" /\ ~IsError(c.result))) ->
         getRowDescriptions(c, m)
    [] m.id = "T" /\ c.result # NULL /\ ~IsError(c.result) /\ c.class # "DESCRIBE" ->
         {Stays(Ready(c))}
    [] m.id = "n" -> IF c.class = "DESCRIBE" THEN Completes(c, m, "COMMAND_OK") ELSE {Took(c)}
    [] m.id = "t" -> getParamDescriptions(c, m)
    [] m.id = "D" /\ c.result # NULL /\ c.result.status = "TUPLES_OK" -> getAnotherTuple(c, m)
    [] m.id = "D" /\ IsError(c.result) -> {Took(c)}
    [] m.id = "D" /\ (c.result = NULL \/ c.result.status \notin {"TUPLES_OK", "FATAL_ERROR"}) ->
         {Took(pqSaveErrorResult(c, m.stmt))}
    [] m.id = "G" -> getCopyStart(c, m, "COPY_IN")
    [] m.id = "H" -> getCopyStart(c, m, "COPY_OUT")
    [] m.id = "W" -> getCopyStart(c, m, "COPY_BOTH")
    [] OTHER -> {Took(Ready(pqSaveErrorResult(c, m.stmt)))}

\* The contents do not agree with the length: whatever the handler did, the
\* message ends where its length says, and an error is reported; or the handler
\* returned for want of contents.
Disagrees(c, m) == Ready(pqSaveErrorResult(c, m.stmt))
Checked(c, m, outcomes) ==
  IF m.form # "ok" /\ m.id \notin {"T", "t", "D"}
    THEN {[o EXCEPT !.c = Disagrees(o.c, m)] : o \in outcomes} \union Starved(c, m)
    ELSE outcomes

pqParseInput3(c, m) ==
  CASE m.form = "huge" -> {handleSyncLoss(c, m)}
    [] m.form # "huge" /\ m.id = "A" -> getNotify(c)
    [] m.form # "huge" /\ m.id = "N" -> {Took(c)}
    [] m.form # "huge" /\ m.id \notin {"A", "N"} /\ c.async = "IDLE" -> Idle3(c, m)
    [] m.form # "huge" /\ m.id \notin {"A", "N"} /\ c.async = "BUSY" -> Checked(c, m, Busy3(c, m))
    [] m.form # "huge" /\ m.id \notin {"A", "N"} /\ c.async \notin {"IDLE", "BUSY"} -> {Stays(c)}

\* Mutant: only CopyDone ends a copy.
CopyMessage3_ErrorAwaited(c, m) ==
  CASE m.form = "huge" -> {handleSyncLoss(c, m)}
    [] m.form # "huge" /\ m.id = "A" -> getNotify(c)
    [] m.form # "huge" /\ m.id \in {"N", "S"} -> {Took(c)}
    [] m.form # "huge" /\ m.id = "c" ->
         {Stays([c EXCEPT !.async = IF @ = "COPY_BOTH" THEN "COPY_IN" ELSE "BUSY"])}
    [] OTHER -> {Stays(c)}

\* getCopyDataMessage on a message that is not data: the end of the copy
\* leaves the message for PQgetResult.
CopyMessage3(c, m) ==
  CASE m.form = "huge" -> {handleSyncLoss(c, m)}
    [] m.form # "huge" /\ m.id = "A" -> getNotify(c)
    [] m.form # "huge" /\ m.id \in {"N", "S"} -> {Took(c)}
    [] m.form # "huge" /\ m.id = "c" ->
         {Stays([c EXCEPT !.async = IF @ = "COPY_BOTH" THEN "COPY_IN" ELSE "BUSY"])}
    [] OTHER -> {Stays([c EXCEPT !.async = "BUSY"])}

\* pqFunctionCall3 until ReadyForQuery; the status of the call is kept in the
\* result.  Lengths are trusted, and nothing is said of contents that disagree.  A
\* message that has no place here ends the call.
FunctionMessage3(c, m) ==
  CASE m.form = "huge" -> {handleSyncLoss(c, m)}
    [] m.form # "huge" /\ m.id = "V" ->
         {Took([c EXCEPT !.result = NewResult("COMMAND_OK", m.stmt)])} \union Starved(c, m)
    [] m.form # "huge" /\ m.id = "E" -> {Took(ErrorReceived(c, m))} \union Starved(c, m)
    [] m.form # "huge" /\ m.id = "A" -> getNotify(c)
    [] m.form # "huge" /\ m.id \in {"N", "S"} -> {Took(c)}
    [] m.form # "huge" /\ m.id = "Z" -> {Outcome(c, "end")}
    [] OTHER -> {Outcome(pqSaveErrorResult(c, m.stmt), "end")}
=============================================================================

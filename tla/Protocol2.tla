------------------------------ MODULE Protocol2 ------------------------------
(***************************************************************************)
(* The handlers of fe-protocol2.c.  Messages have no length: the parser    *)
(* learns that one is incomplete by running into the end of the buffer,    *)
(* and begins it again when more has come.  Where it loses its place it    *)
(* throws the whole buffer away.                                           *)
(***************************************************************************)
EXTENDS AsyncResult

getNotify(c) == {Took([c EXCEPT !.notifies = @ + 1]), Failed(c, "next")}

\* Without memory: an error result, and everything in the buffer goes.
RowsLost(c, m) ==
  Failed(Ready([pqClearAsyncResult(c) EXCEPT !.result = NewResult("FATAL_ERROR", m.stmt)]), "drop")

getRowDescriptions(c, m) ==
  {Took([c EXCEPT !.result = NewResult("TUPLES_OK", m.stmt)]), RowsLost(c, m)}

getAnotherTuple(c, m) == {Took(pqRowProcessor(c, m.n)), RowsLost(c, m)}

Busy2(c, m) ==
  CASE m.id = "C" -> Completes(c, m, "COMMAND_OK")
    [] m.id = "E" -> {Took(Ready(ErrorReceived(c, m)))}
    [] m.id = "Z" -> {Took([c EXCEPT !.async = "IDLE"])}
    [] m.id = "I" -> Completes(c, m, "EMPTY_QUERY")
    [] m.id \in {"K", "P"} -> {Took(c)}
    [] m.id = "T" /\ c.result = NULL -> getRowDescriptions(c, m)
    [] m.id = "T" /\ c.result # NULL -> {Stays(Ready(c))}
    [] m.id \in {"D", "B"} /\ c.result # NULL -> getAnotherTuple(c, m)
    [] m.id \in {"D", "B"} /\ c.result = NULL -> {Outcome(c, "drop")}
    [] m.id = "G" -> {Took([c EXCEPT !.async = "COPY_IN"])}
    [] m.id = "H" -> {Took([c EXCEPT !.async = "COPY_OUT"])}
    [] OTHER -> {Outcome(Ready(pqSaveErrorResult(c, m.stmt)), "drop")}

pqParseInput2(c, m) ==
  CASE c.async = "COPY_OUT" -> {Stays(c)}
    [] c.async # "COPY_OUT" /\ m.id = "A" -> getNotify(c)
    [] c.async # "COPY_OUT" /\ m.id = "N" -> {Took(c)}
    [] m.id \notin {"A", "N"} /\ c.async = "IDLE" ->
         {IF m.id = "E" THEN Took(c) ELSE Outcome(c, "drop")}
    [] m.id \notin {"A", "N"} /\ c.async = "BUSY" -> Busy2(c, m)
    [] m.id \notin {"A", "N"} /\ c.async \in {"READY", "COPY_IN"} -> {Stays(c)}

\* pqGetCopyData2 and its like on the line that ends the copy.
CopyEnds2(c) == Took([c EXCEPT !.async = "BUSY"])

\* pqFunctionCall2 until ReadyForQuery.
FunctionMessage2(c, m) ==
  CASE m.id = "V" -> {Took([c EXCEPT !.result = NewResult("COMMAND_OK", m.stmt)])}
    [] m.id = "E" -> {Took(ErrorReceived(c, m))}
    [] m.id = "A" -> getNotify(c)
    [] m.id = "N" -> {Took(c)}
    [] m.id = "Z" -> {Outcome(c, "end")}
    [] OTHER -> {Outcome(pqSaveErrorResult(c, m.stmt), "end")}
=============================================================================

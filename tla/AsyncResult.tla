----------------------------- MODULE AsyncResult -----------------------------
(***************************************************************************)
(* The result a PGconn is building (fe-exec.c), which the parsers of both  *)
(* protocols fill and PQgetResult hands out.  A result remembers the       *)
(* statement whose message made it; a row is its number.                   *)
(***************************************************************************)
EXTENDS Integers, Sequences

CONSTANT NULL

Statuses ==
  {"COMMAND_OK", "EMPTY_QUERY", "TUPLES_OK", "SINGLE_TUPLE", "COPY_IN", "COPY_OUT", "COPY_BOTH",
   "FATAL_ERROR"}
Results == [status : Statuses, rows : Seq(Nat), stmt : Nat]
ASSUME NullAssumption == NULL \notin Results \union Statuses

NewResult(status, stmt) == [status |-> status, rows |-> <<>>, stmt |-> stmt]

IsError(r) == r # NULL /\ r.status = "FATAL_ERROR"

NewConnection(pversion) ==
  [pversion |-> pversion, async |-> "IDLE", class |-> "SIMPLE", single |-> FALSE, result |-> NULL,
   next_result |-> NULL, ok |-> TRUE, copy_already_done |-> 0, notifies |-> 0]

pqClearAsyncResult(c) == [c EXCEPT !.result = NULL, !.next_result = NULL]

\* An error goes to the result; one that is there gets its text appended.
pqSaveErrorResult(c, stmt) ==
  IF IsError(c.result) THEN c
  ELSE [pqClearAsyncResult(c) EXCEPT !.result = NewResult("FATAL_ERROR", stmt)]

\* The result handed out, and the connection after it.
Prepared(c) == IF c.result = NULL THEN NewResult("FATAL_ERROR", 0) ELSE c.result
pqPrepareAsyncResult(c) == [c EXCEPT !.result = c.next_result, !.next_result = NULL]

\* Mutant: in single-row mode, the rows before stay in the result.
pqRowProcessor_RowsKept(c, row) ==
  IF c.single
    THEN [c EXCEPT !.result = [@ EXCEPT !.status = "SINGLE_TUPLE", !.rows = <<row>>],
                   !.next_result = [c.result EXCEPT !.rows = Append(@, row)],
                   !.async = "READY"]
    ELSE [c EXCEPT !.result.rows = Append(@, row)]

pqRowProcessor(c, row) ==
  IF c.single
    THEN [c EXCEPT !.result = [@ EXCEPT !.status = "SINGLE_TUPLE", !.rows = <<row>>],
                   !.next_result = c.result,
                   !.async = "READY"]
    ELSE [c EXCEPT !.result.rows = Append(@, row)]

-----------------------------------------------------------------------------
(* What a parser does with a message: "next", it was consumed and the loop *)
(* goes on; "stay", the parser returns and the message stays; "lost", the  *)
(* connection is dropped; "drop", the whole buffer is thrown away.         *)

Outcome(c, act) == [c |-> c, act |-> act, failed |-> FALSE]
Took(c) == Outcome(c, "next")
Stays(c) == Outcome(c, "stay")
Failed(c, act) == [c |-> c, act |-> act, failed |-> TRUE]

Ready(c) == [c EXCEPT !.async = "READY"]

\* A message that answers a statement: the result is made if none is there,
\* an error when there is no memory for it.
Completes(c, m, status) ==
  IF c.result # NULL THEN {Took(Ready(c))}
  ELSE {Took(Ready([c EXCEPT !.result = NewResult(status, m.stmt)])),
        Failed(Ready(pqSaveErrorResult(c, m.stmt)), "next")}

\* An ErrorResponse replaces whatever result there was.
ErrorReceived(c, m) ==
  [pqClearAsyncResult(c) EXCEPT !.result = NewResult("FATAL_ERROR", m.stmt)]
=============================================================================

------------------------------- MODULE Protocol -------------------------------
(***************************************************************************)
(* Queries over the frontend/backend protocol: PQgetResult and the parsers *)
(* of fe-protocol3.c and fe-protocol2.c against a server that sends the    *)
(* messages of its statements in any portions, mixes in notices and        *)
(* notifications, stumbles and dies.                                       *)
(*                                                                         *)
(* Queries, answers and messages are those of Answers.                     *)
(***************************************************************************)
EXTENDS AsyncResult, Answers, SequencesExt

CONSTANTS
  Programs,     \* by major version, 2 or 3, the sequences of queries a caller may run
  LineBuf,      \* size of the buffer a caller gives to PQgetline
  MaxFailures,  \* bound: allocations that fail
  MaxAsync      \* bound: messages the server sends unasked

ASSUME ProtocolAssumption ==
  DOMAIN Programs = {2, 3} /\ LineBuf \in Nat \ {0} /\ MaxFailures \in Nat /\ MaxAsync \in Nat

ASSUME AnswersAssumption == \A v \in {2, 3} : \A p \in Programs[v] : Answered(v, p)

V3 == INSTANCE Protocol3
V2 == INSTANCE Protocol2

VARIABLES
  program,    \* the queries, constant
  sent,       \* queries sent
  c,          \* the PGconn
  in, half,   \* messages in inBuffer, and whether part of the next is there
  pc,         \* "user", or where PQgetResult, PQfn or a copy call is
  seen,       \* status of the result PQgetResult returned last, or NULL
  script,     \* messages of the server that were not read yet
  alive,
  failures, asyncs,
  \* history
  place,      \* place in its answer of the message that was treated last
  delivered,  \* results handed to the caller
  got,        \* of each message of each answer, the copy data handed to the caller
  copied,     \* statements whose copy the caller was told is at its end
  hurt        \* statements an allocation failed for

connVars == <<c, in, half, place>>
serverVars == <<script, alive, asyncs>>
history == <<delivered, got, copied, hurt>>
vars == <<program, sent, connVars, pc, seen, serverVars, failures, history>>

Init ==
  /\ \E v \in {2, 3} : c = NewConnection(v) /\ program \in Programs[v]
  /\ sent = 0 /\ in = <<>> /\ half = FALSE
  /\ pc = "user" /\ seen = NULL
  /\ script = <<>> /\ alive = TRUE
  /\ failures = 0 /\ asyncs = 0
  /\ place = 0 /\ delivered = <<>>
  /\ got = [i \in DOMAIN program |-> [k \in DOMAIN program[i].messages |-> 0]]
  /\ copied = {} /\ hurt = {}

-----------------------------------------------------------------------------
(* The parser. *)

\* A handler that wants more contents than there are has to leave the message when
\* nothing follows it in the buffer.
Possible(m, outcomes) ==
  IF m.form = "short" /\ in = <<m>> /\ ~half /\ Stays(c) \in outcomes THEN {Stays(c)}
  ELSE outcomes

parseInput(m) ==
  IF c.pversion = 3 THEN Possible(m, V3!pqParseInput3(c, m)) ELSE V2!pqParseInput2(c, m)

\* The place in the answer when these messages are gone.
Passed(ms) == Max({place} \union {ms[k].at : k \in DOMAIN ms})

\* The input after a message was treated.
TakeMessage == in' = Tail(in) /\ place' = Passed(<<Head(in)>>)
InputAfter(act) ==
  CASE act \in {"next", "end"} -> TakeMessage /\ UNCHANGED half
    [] act = "stay" -> UNCHANGED <<in, half, place>>
    [] act \in {"lost", "drop"} -> in' = <<>> /\ half' = FALSE /\ place' = Passed(in)

\* A message is treated with outcome o; an allocation may have failed.
Treated(o, m) ==
  /\ o.failed => failures < MaxFailures
  /\ failures' = IF o.failed THEN failures + 1 ELSE failures
  /\ hurt' = IF o.failed THEN hurt \union {m.stmt} ELSE hurt
  /\ c' = o.c /\ InputAfter(o.act)

Deliver(r) == delivered' = Append(delivered, r) /\ seen' = r.status

\* One turn of the loop of parseInput, on a message that is there.
ParseMessage ==
  /\ pc \in {"parse", "poll"} /\ in # <<>>
  /\ \E o \in parseInput(Head(in)) :
       /\ Treated(o, Head(in))
       /\ pc' = IF o.act = "next" THEN pc ELSE IF pc = "poll" THEN "user" ELSE "parsed"
  /\ UNCHANGED <<program, sent, seen, serverVars, delivered, got, copied>>

\* The next message is not there as a whole.  The type of a row description
\* is enough for protocol 2.0 to see that the result is complete.
ParseEnds ==
  /\ pc \in {"parse", "poll"} /\ in = <<>>
  /\ pc' = IF pc = "poll" THEN "user" ELSE "parsed"
  /\ c' = IF c.pversion = 2 /\ half /\ Head(script).id = "T" /\ c.async = "BUSY" /\ c.result # NULL
          THEN Ready(c) ELSE c
  /\ UNCHANGED <<program, sent, in, half, place, seen, serverVars, failures, history>>

\* What the server sends without waiting: at the marker "end" it waits for
\* the end of a COPY IN.
EndAt == SelectInSeq(script, LAMBDA m : m.id = "end")
Coming == IF EndAt = 0 THEN script ELSE SubSeq(script, 1, EndAt - 1)

\* pqReadData: some messages, or a part of one, or the connection is lost.
pqReadData ==
  /\ c.ok
  /\ \E k \in 0..Len(Coming), part \in BOOLEAN :
       /\ k > 0 \/ (part /\ ~half)
       /\ part => k < Len(Coming)
       /\ in' = in \o SubSeq(script, 1, k) /\ script' = SubSeq(script, k + 1, Len(script))
       /\ half' = part
NoMoreData == ~c.ok \/ (~alive /\ script = <<>>)

-----------------------------------------------------------------------------
(* The calls. *)

\* The server gets the whole query, and answers it behind what it sent before.
ServerAsked(q) == script' = IF alive THEN script \o q.messages ELSE script

\* PQsendQuery and its like.
PQsendQuery ==
  /\ pc = "user" /\ sent < Len(program) /\ c.async = "IDLE" /\ c.ok
  /\ seen = NULL
  /\ sent' = sent + 1
  /\ LET q == program[sent + 1]
     IN  /\ q.class # "FUNCTION"
         /\ c' = [pqClearAsyncResult(c) EXCEPT !.async = "BUSY", !.class = q.class,
                                               !.single = q.single]
         /\ ServerAsked(q)
  /\ pc' = "parse" /\ place' = 0
  /\ UNCHANGED <<program, in, half, seen, alive, asyncs, failures, history>>

\* The caller has looked at a result and asks for the next; it reads or ends
\* a copy first.
PQgetResult ==
  /\ pc = "user" /\ seen # NULL
  /\ seen = "COPY_OUT" => c.async # "COPY_OUT"
  /\ seen = "COPY_BOTH" => c.async \notin {"COPY_BOTH", "COPY_IN"}
  /\ seen = "COPY_IN" => c.async # "COPY_IN"
  /\ pc' = "parse"
  /\ UNCHANGED <<program, sent, connVars, seen, serverVars, failures, history>>

GetResultWaits ==
  /\ pc = "parsed" /\ c.async = "BUSY"
  /\ pc' = "wait"
  /\ UNCHANGED <<program, sent, connVars, seen, serverVars, failures, history>>

GetResultReads ==
  /\ pc = "wait" /\ pqReadData
  /\ pc' = "parse"
  /\ UNCHANGED <<program, sent, c, place, seen, alive, asyncs, failures, history>>

\* The connection is lost: an error takes the place of what there was.
GetResultLost ==
  /\ pc = "wait" /\ NoMoreData
  /\ LET e == [pqSaveErrorResult(c, 0) EXCEPT !.async = "IDLE", !.ok = FALSE]
     IN  Deliver(Prepared(e)) /\ c' = pqPrepareAsyncResult(e)
  /\ half' = FALSE
  /\ pc' = "user"
  /\ UNCHANGED <<program, sent, in, place, serverVars, failures, got, copied, hurt>>

\* Mutant: the result is handed out before the command is complete.
GetResultIdle_Busy ==
  /\ pc = "parsed" /\ c.async \in {"IDLE", "BUSY"}
  /\ seen' = NULL /\ pc' = "user" /\ c' = [c EXCEPT !.async = "IDLE"]
  /\ UNCHANGED <<program, sent, in, half, place, serverVars, failures, history>>

GetResultIdle ==
  /\ pc = "parsed" /\ c.async = "IDLE"
  /\ seen' = NULL /\ pc' = "user"
  /\ UNCHANGED <<program, sent, connVars, serverVars, failures, history>>

GetResultReady ==
  /\ pc = "parsed" /\ c.async = "READY"
  /\ Deliver(Prepared(c))
  /\ c' = [pqPrepareAsyncResult(c) EXCEPT !.async = "BUSY"]
  /\ pc' = "user"
  /\ UNCHANGED <<program, sent, in, half, place, serverVars, failures, got, copied, hurt>>

\* getCopyResult: the state of the copy does not change.
CopyStates == {"COPY_IN", "COPY_OUT", "COPY_BOTH"}
GetCopyResult ==
  /\ pc = "parsed" /\ c.async \in CopyStates
  /\ LET e == IF c.ok THEN c ELSE [pqSaveErrorResult(c, 0) EXCEPT !.async = "IDLE"]
         there == ~c.ok \/ (c.result # NULL /\ c.result.status = c.async)
     IN  /\ Deliver(IF there THEN Prepared(e) ELSE NewResult(c.async, 0))
         /\ c' = IF there THEN pqPrepareAsyncResult(e) ELSE e
  /\ pc' = "user"
  /\ UNCHANGED <<program, sent, in, half, place, serverVars, failures, got, copied, hurt>>

\* PQconsumeInput with PQisBusy or PQnotifies, at any time.
Poll ==
  /\ pc = "user" /\ pqReadData
  /\ pc' = "poll"
  /\ UNCHANGED <<program, sent, c, place, seen, alive, asyncs, failures, history>>

-----------------------------------------------------------------------------
(* COPY. *)

DataThere == in # <<>> /\ IsData(Head(in)) /\ Head(in).form # "huge"
CopyMessage(m) ==
  IF c.pversion = 3 THEN V3!CopyMessage3(c, m)
  ELSE {V2!CopyEnds2(c)}

\* So much more of the message at the head of the input goes to the caller.
HandOver(n) == got' = [got EXCEPT ![sent][Head(in).at] = @ + n]

ReadsCopy == seen \in {"COPY_OUT", "COPY_BOTH"} /\ c.async \in {"COPY_OUT", "COPY_BOTH"}

\* PQgetCopyData in its loop: a piece of data is handed over whole.
PQgetCopyData ==
  /\ pc = "user" /\ ReadsCopy /\ c.copy_already_done = 0 /\ DataThere
  /\ TakeMessage /\ HandOver(Head(in).n)
  /\ UNCHANGED <<program, sent, c, half, pc, seen, serverVars, failures, delivered, copied, hurt>>

\* Mutant: the position in the line is kept when its rest is handed over.
PQgetlineAsync_DoneKept ==
  /\ pc = "user" /\ ReadsCopy /\ DataThere /\ Head(in).n > 0
  /\ LET avail == Head(in).n - c.copy_already_done
         piece == IF avail <= LineBuf THEN avail ELSE LineBuf
     IN  /\ HandOver(piece)
         /\ IF avail <= LineBuf THEN TakeMessage ELSE UNCHANGED <<in, place>>
         /\ c' = [c EXCEPT !.copy_already_done = @ + piece]
  /\ UNCHANGED <<program, sent, half, pc, seen, serverVars, failures, delivered, copied, hurt>>

\* PQgetlineAsync: as much of a line as the buffer of the caller takes.
PQgetlineAsync ==
  /\ pc = "user" /\ ReadsCopy /\ DataThere /\ Head(in).n > 0
  /\ LET avail == Head(in).n - c.copy_already_done
         piece == IF avail <= LineBuf THEN avail ELSE LineBuf
     IN  /\ HandOver(piece)
         /\ IF avail <= LineBuf THEN TakeMessage ELSE UNCHANGED <<in, place>>
         /\ c' = [c EXCEPT !.copy_already_done = IF avail <= LineBuf THEN 0 ELSE @ + piece]
  /\ UNCHANGED <<program, sent, half, pc, seen, serverVars, failures, delivered, copied, hurt>>

\* Either call on another message: asynchronous ones are treated on the way.
CopyOther ==
  /\ pc = "user" /\ ReadsCopy
  /\ in # <<>> /\ ~DataThere
  /\ \E o \in CopyMessage(Head(in)) :
       /\ Treated(o, Head(in))
       /\ copied' = IF o.act # "lost" /\ o.c.async # c.async
                    THEN copied \union {program[sent].messages[place].stmt} ELSE copied
  /\ UNCHANGED <<program, sent, pc, seen, serverVars, delivered, got>>

\* They wait for data, or return -2 when the connection is lost.
CopyReads ==
  /\ pc = "user" /\ ReadsCopy /\ in = <<>> /\ pqReadData
  /\ UNCHANGED <<program, sent, c, place, pc, seen, alive, asyncs, failures, history>>
CopyLost ==
  /\ pc = "user" /\ ReadsCopy /\ in = <<>> /\ NoMoreData
  /\ c' = [c EXCEPT !.ok = FALSE] /\ half' = FALSE
  /\ seen' = "FATAL_ERROR"
  /\ UNCHANGED <<program, sent, in, place, pc, serverVars, failures, history>>

\* The server gets the end of the COPY it waits for.
CopyDone == script' = IF EndAt = 0 THEN script ELSE RemoveAt(script, EndAt)

\* PQputCopyEnd, of COPY BOTH only in its direction; then the caller asks
\* for the result.
PQputCopyEnd ==
  /\ pc = "user" /\ seen \in CopyStates /\ c.async \in {"COPY_IN", "COPY_BOTH"}
  /\ IF c.async = "COPY_BOTH"
       THEN c' = [c EXCEPT !.async = "COPY_OUT"] /\ UNCHANGED <<pc, seen>>
       ELSE c' = [c EXCEPT !.async = "BUSY"] /\ pc' = "parse" /\ seen' = "COMMAND_OK"
  /\ CopyDone
  /\ UNCHANGED <<program, sent, in, half, place, alive, asyncs, failures, history>>

\* PQendcopy, which may come before all was read: the parser skips the rest.
\* Protocol 2.0 reads to the end first.
PQendcopy ==
  /\ pc = "user" /\ seen \in CopyStates /\ c.async \in CopyStates
  /\ c.async = "COPY_OUT" => c.pversion = 3
  /\ c' = [c EXCEPT !.async = "BUSY"]
  /\ IF c.async = "COPY_OUT" THEN UNCHANGED script ELSE CopyDone
  /\ pc' = "parse" /\ seen' = "COMMAND_OK"
  /\ UNCHANGED <<program, sent, in, half, place, alive, asyncs, failures, history>>

-----------------------------------------------------------------------------
(* PQfn. *)

FunctionMessage(m) ==
  IF c.pversion = 3 THEN Possible(m, V3!FunctionMessage3(c, m)) ELSE V2!FunctionMessage2(c, m)

PQfn ==
  /\ pc = "user" /\ sent < Len(program) /\ c.async = "IDLE" /\ c.ok /\ c.result = NULL
  /\ seen = NULL /\ program[sent + 1].class = "FUNCTION"
  /\ sent' = sent + 1 /\ ServerAsked(program[sent + 1])
  /\ pc' = "function" /\ place' = 0
  /\ UNCHANGED <<program, c, in, half, seen, alive, asyncs, failures, history>>

\* The call returns a result; there is no other to ask for.
FunctionReturns(conn, r) ==
  /\ delivered' = Append(delivered, r) /\ seen' = NULL /\ pc' = "user"
  /\ c' = pqPrepareAsyncResult(conn)

FunctionTreats ==
  /\ pc = "function" /\ in # <<>>
  /\ \E o \in FunctionMessage(Head(in)) :
       IF o.act \in {"end", "lost"}
         THEN /\ FunctionReturns(o.c, Prepared(o.c)) /\ InputAfter(o.act)
              /\ UNCHANGED <<failures, hurt>>
         ELSE /\ Treated(o, Head(in))
              /\ pc' = IF o.act = "stay" THEN "functionWait" ELSE pc
              /\ UNCHANGED <<delivered, seen>>
  /\ UNCHANGED <<program, sent, serverVars, got, copied>>

FunctionReads ==
  /\ pc = "functionWait" \/ (pc = "function" /\ in = <<>>)
  /\ pqReadData
  /\ pc' = "function"
  /\ UNCHANGED <<program, sent, c, place, seen, alive, asyncs, failures, history>>

FunctionLost ==
  /\ pc = "functionWait" \/ (pc = "function" /\ in = <<>>)
  /\ NoMoreData
  /\ LET e == [pqSaveErrorResult(c, 0) EXCEPT !.ok = FALSE] IN FunctionReturns(e, Prepared(e))
  /\ half' = FALSE
  /\ UNCHANGED <<program, sent, in, place, serverVars, failures, got, copied, hurt>>

-----------------------------------------------------------------------------
(* The server. *)

\* A notification, a notice or a parameter change, at any time but in the
\* middle of the lines of protocol 2.0.
ServerInterjects ==
  /\ alive /\ asyncs < MaxAsync /\ ~half
  /\ script # <<>> => Head(script).id \notin {"line", "."}
  /\ \E m \in UnaskedMessages(c.pversion) : script' = <<m>> \o script
  /\ asyncs' = asyncs + 1
  /\ UNCHANGED <<program, sent, connVars, pc, seen, alive, failures, history>>

\* It dies before the end of its answer, of which some is still to come.
ServerDies ==
  /\ alive /\ script # <<>>
  /\ alive' = FALSE
  /\ \E k \in 0..Len(Coming) : script' = SubSeq(script, 1, k) /\ half' = (half /\ k > 0)
  /\ UNCHANGED <<program, sent, c, in, place, pc, seen, asyncs, failures, history>>

-----------------------------------------------------------------------------
InCall == ParseMessage \/ ParseEnds \/ GetResultWaits \/ GetResultReads \/ GetResultLost
          \/ GetResultIdle \/ GetResultReady \/ GetCopyResult
          \/ FunctionTreats \/ FunctionReads \/ FunctionLost
Calls == PQsendQuery \/ PQgetResult \/ PQfn \/ PQputCopyEnd
CopyCalls == PQgetCopyData \/ PQgetlineAsync \/ CopyOther \/ CopyReads \/ CopyLost

Next == InCall \/ Calls \/ CopyCalls \/ PQendcopy \/ Poll \/ ServerInterjects \/ ServerDies

Spec == Init /\ [][Next]_vars

\* Calls run on, the caller asks until it gets NULL and reads a copy to its
\* end, and what the server sends arrives.
FairSpec == Spec /\ WF_vars(InCall) /\ WF_vars(Calls) /\ WF_vars(CopyCalls)
-----------------------------------------------------------------------------
(* The properties. *)

Statements == UNION {{m.stmt : m \in ToSet(program[i].messages)} : i \in DOMAIN program}
QueryOf(s) ==
  CHOOSE i \in DOMAIN program : \E k \in DOMAIN program[i].messages : program[i].messages[k].stmt = s
Answer(s) == program[QueryOf(s)].messages
RowsOf(s) == {Answer(s)[k].n : k \in RowPlaces(Answer(s), s)}

\* Protocol 2.0 loses its place in the input when memory runs out.
OutOfStep == c.pversion = 2 /\ hurt # {}

\* Whether something was wrong with a statement that excuses an error.
Troubled(s) ==
  \/ s = 0 \/ s \in hurt
  \/ \E k \in DOMAIN Answer(s) :
       Answer(s)[k].stmt = s /\ (Answer(s)[k].id \in {"E", "?"} \/ Answer(s)[k].form # "ok")

\* The rows of a statement that came one by one before the i-th result.
SingleRows(i, s) ==
  {delivered[j].rows[1] :
     j \in {h \in 1..i - 1 : delivered[h].stmt = s /\ delivered[h].status = "SINGLE_TUPLE"}}

\* A result that is no error answers its own statement: all its rows in the
\* order they were sent, one by one in single-row mode; an error has a cause
\* in the same statement, or protocol 2.0 is out of step.  The hazards are a
\* row that could not be stored, a bad message in mid-result, and an answer
\* left over from the query before.
RightAnswers ==
  \A i \in DOMAIN delivered :
    LET r == delivered[i]
        rows == RowsOf(r.stmt)
    IN  CASE r.status = "FATAL_ERROR" -> Troubled(r.stmt) \/ OutOfStep
          [] r.status = "SINGLE_TUPLE" ->
               \E k \in rows : r.rows = <<k>> /\ SingleRows(i, r.stmt) = 1..k - 1
          [] r.status = "TUPLES_OK" ->
               IF program[QueryOf(r.stmt)].single
                 THEN r.rows = <<>> /\ SingleRows(i, r.stmt) = rows
                 ELSE r.rows = [k \in rows |-> k]
          [] OTHER -> r.rows = <<>>

\* While the connection lives, the statements of the queries are answered in
\* their order, and each exactly once when the caller has got its NULL: no
\* answer is lost with a message that was skipped, and none is made twice.
\* (A description that is bad or found no memory is the exception: the rest
\* is skipped for the error, which ReadyForQuery then swallows.)
Closes(r) == r.status \notin CopyStates \union {"SINGLE_TUPLE"} /\ r.stmt # 0
Swallowed(s) ==
  /\ program[QueryOf(s)].class = "DESCRIBE"
  /\ s \in hurt \/ \E k \in DOMAIN Answer(s) : Answer(s)[k].stmt = s /\ Answer(s)[k].form # "ok"
EachAnsweredOnce == c.ok /\ ~OutOfStep =>
  /\ \A i, j \in DOMAIN delivered :
       i < j /\ Closes(delivered[i]) /\ Closes(delivered[j]) => delivered[i].stmt < delivered[j].stmt
  /\ pc = "user" /\ seen = NULL =>
       \A s \in Statements \ {0} : QueryOf(s) <= sent /\ ~Swallowed(s) =>
         \E i \in DOMAIN delivered : Closes(delivered[i]) /\ delivered[i].stmt = s

\* What the copy calls hand over is what the server sent, in order and with
\* nothing twice or missing, whole when the caller is told of the end: by
\* PQgetCopyData a message at a time, by PQgetlineAsync in pieces of LineBuf
\* whose place is kept between calls.
CopyDataWhole ==
  \A i \in DOMAIN program :
    LET ms == program[i].messages
        Data(s) == {k \in DOMAIN ms : IsData(ms[k]) /\ ms[k].stmt = s}
    IN  \A k \in DOMAIN ms :
          /\ got[i][k] # 0 =>
               /\ k \in Data(ms[k].stmt) /\ got[i][k] <= ms[k].n
               /\ \A j \in Data(ms[k].stmt) : j < k => got[i][j] = ms[j].n
          /\ ms[k].stmt \in copied \ {0} =>
               \A j \in Data(ms[k].stmt) : got[i][j] = ms[j].n

\* A whole message is in the buffer and the call waits for more: there was no memory
\* for it, or its contents are too short.
LeftWaiting ==
  /\ pc \in {"wait", "functionWait"} /\ in # <<>>
  /\ Head(in).stmt \in hurt \/ Head(in).form = "short"

\* The caller that takes its results gets to the end of its queries, unless
\* the connection is lost.  A call that waits behind a message which was left is
\* the exception: it ends if more input comes, and for ever waits if none does.
QueriesEnd ==
  \/ <>(OutOfStep \/ (pc = "user" /\ seen = NULL /\ (sent = Len(program) \/ ~c.ok)))
  \/ <>[]LeftWaiting
=============================================================================

----------------------------- MODULE FetchLoop ------------------------------
(***************************************************************************)
(* fetch() on one result set of a SELECT, row by row: the loop of          *)
(* RS_PostgreSQL_fetch, which copies rows k, k+1, ... of the PGresult into *)
(* cells 0, 1, ... of the output, and the work postgresqlFetch does on     *)
(* what the loop returned.  The fields of a row are copied together; a row *)
(* is its number in the PGresult.                                          *)
(*                                                                         *)
(* A call is made of many steps because it can fail in its middle: R       *)
(* leaves the C function by a long jump when a vector cannot be grown, and *)
(* leaves postgresqlFetch when a date cannot be converted, the first       *)
(* before rowCount moved and the second after.                             *)
(***************************************************************************)
EXTENDS Integers

CONSTANTS
  MaxRows,      \* bound: the most rows a result has
  Requests,     \* the n that callers pass to fetch()
  DefaultRec,   \* mgr->fetch_default_rec
  MaxLength,    \* longest vector to be had: memory, at most the largest int
  NA            \* what a cell holds before a row is copied to it

ASSUME RowsAssumption == MaxRows \in Nat
ASSUME RequestsAssumption == Requests \subseteq Int
\* postgresqlInitDriver stops on a default that is not positive.
ASSUME DefaultAssumption == DefaultRec \in Nat \ {0}
\* What the caller asks for, and the default, can be allocated.
ASSUME LengthAssumption ==
  MaxLength \in Nat /\ DefaultRec <= MaxLength /\ \A n \in Requests : n <= MaxLength
ASSUME NAAssumption == NA \notin Nat

VARIABLES
  num_rows,     \* PQntuples(my_result)
  rowCount,     \* result->rowCount
  completed,    \* result->completed
  phase,           \* "idle", "loop" (in the C loop), "fetched" (back in R)
  max_rec,      \* the n of the call
  i,            \* next cell of the output
  k,            \* next row of the PGresult
  num_rec,      \* cells of the output
  output,       \* the output, a vector per field
  delivered,    \* history: <<row.name, row>> of the data frames returned
  lost          \* history: rows consumed by calls that returned nothing

resultVars == <<num_rows, rowCount, completed>>
loopVars == <<phase, max_rec, i, k, num_rec, output>>
historyVars == <<delivered, lost>>
fetchVars == <<resultVars, loopVars, historyVars>>

\* A vector of len cells.
Vector(len) == [x \in 0..len-1 |-> NA]

\* SET_LENGTH: the cells both lengths have are kept.
SetLength(vector, len) ==
  [x \in 0..len-1 |-> IF x \in DOMAIN vector THEN vector[x] ELSE NA]

RowsOf(vector) == {vector[x] : x \in DOMAIN vector}

Expand == max_rec < 0

FetchInit ==
  /\ num_rows \in 0..MaxRows /\ rowCount = 0 /\ completed = 0
  /\ phase = "idle" /\ max_rec = 0 /\ i = 0 /\ k = 0
  /\ num_rec = 0 /\ output = Vector(0)
  /\ delivered = {} /\ lost = {}

\* Mutant: a request for 0 rows is not replaced by the default.
Start_ZeroKept(n) ==
  /\ phase = "idle"
  /\ phase' = "loop" /\ max_rec' = n
  /\ num_rec' = IF n < 0 THEN DefaultRec ELSE n
  /\ output' = Vector(num_rec')
  /\ i' = 0 /\ k' = rowCount
  /\ UNCHANGED <<resultVars, historyVars>>

\* Mutant: every call starts at the first row.
Start_FirstRow(n) ==
  /\ phase = "idle"
  /\ phase' = "loop" /\ max_rec' = n
  /\ num_rec' = IF n <= 0 THEN DefaultRec ELSE n
  /\ output' = Vector(num_rec')
  /\ i' = 0 /\ k' = 0
  /\ UNCHANGED <<resultVars, historyVars>>

\* The call enters the loop with an output of num_rec cells.
Start(n) ==
  /\ phase = "idle"
  /\ phase' = "loop" /\ max_rec' = n
  /\ num_rec' = IF n <= 0 THEN DefaultRec ELSE n
  /\ output' = Vector(num_rec')
  /\ i' = 0 /\ k' = rowCount
  /\ UNCHANGED <<resultVars, historyVars>>

\* The loop is left: the output is cut to the rows copied (i <= num_rec).
LeaveLoop(done) ==
  /\ num_rec' = i
  /\ output' = SetLength(output, i)
  /\ rowCount' = rowCount + num_rec'
  /\ completed' = done
  /\ phase' = "fetched"
  /\ UNCHANGED <<num_rows, max_rec, i, k, historyVars>>

\* for (;;) { if (k >= num_rows) ...
Exhausted == phase = "loop" /\ k >= num_rows /\ LeaveLoop(1)

Full == phase = "loop" /\ k < num_rows /\ i = num_rec /\ ~Expand /\ LeaveLoop(0)

\* Mutant: the vectors keep their length.
Grow_OutputKept ==
  /\ phase = "loop" /\ k < num_rows /\ i = num_rec /\ Expand
  /\ 2 * num_rec <= MaxLength
  /\ num_rec' = 2 * num_rec
  /\ UNCHANGED <<output, resultVars, historyVars, phase, max_rec, i, k>>

\* The output is full and all rows were asked for: it doubles.
Grow ==
  /\ phase = "loop" /\ k < num_rows /\ i = num_rec /\ Expand
  /\ 2 * num_rec <= MaxLength
  /\ num_rec' = 2 * num_rec
  /\ output' = SetLength(output, num_rec')
  /\ UNCHANGED <<resultVars, historyVars, phase, max_rec, i, k>>

\* Too long a vector, or a length that overflowed to a negative one, is an R
\* error: the output is garbage and the result set as it was.
GrowFails ==
  /\ phase = "loop" /\ k < num_rows /\ i = num_rec /\ Expand
  /\ 2 * num_rec > MaxLength
  /\ phase' = "idle"
  /\ UNCHANGED <<resultVars, historyVars, max_rec, i, k, num_rec, output>>

\* Row k goes to cell i.  The test of i == num_rows before it, which would end
\* the call, is what NeverAbandons is about.
CopyRow ==
  /\ phase = "loop" /\ k < num_rows /\ i # num_rec /\ i # num_rows
  /\ output' = [output EXCEPT ![i] = k]
  /\ i' = i + 1 /\ k' = k + 1
  /\ UNCHANGED <<resultVars, historyVars, phase, max_rec, num_rec>>

\* postgresqlFetch numbers the rows from the row count it reads back.
Deliver ==
  /\ phase = "fetched"
  /\ phase' = "idle"
  /\ delivered' = delivered \cup
       {<<rowCount - num_rec + 1 + x, output[x]>> : x \in 0..num_rec-1}
  /\ UNCHANGED <<resultVars, lost, max_rec, i, k, num_rec, output>>

\* as.Date() or as.POSIXct() stops: the caller gets an error and no rows, and
\* rowCount has moved past them.
ConversionFails ==
  /\ phase = "fetched" /\ num_rec > 0
  /\ phase' = "idle"
  /\ lost' = lost \cup RowsOf(output)
  /\ UNCHANGED <<resultVars, delivered, max_rec, i, k, num_rec, output>>

CallStep == Exhausted \/ Full \/ Grow \/ GrowFails \/ CopyRow \/ Deliver

FetchNext == (\E n \in Requests : Start(n)) \/ CallStep \/ ConversionFails

FetchSpec == FetchInit /\ [][FetchNext]_fetchVars

\* The C code and postgresqlFetch run to their end once called.
FairSpec == FetchSpec /\ WF_fetchVars(CallStep)

-----------------------------------------------------------------------------
(* Properties. *)

\* The shape of every variable.
FetchTypeOK ==
  /\ num_rows \in 0..MaxRows /\ rowCount \in Nat /\ completed \in {0, 1}
  /\ phase \in {"idle", "loop", "fetched"}
  /\ max_rec \in Requests \cup {0}
  /\ i \in Nat /\ k \in Nat /\ num_rec \in Nat
  /\ output \in [0..num_rec-1 -> Nat \cup {NA}]
  /\ delivered \subseteq Nat \X Nat /\ lost \subseteq Nat

\* The loop never writes behind the end of the vectors, however often they
\* were doubled: the cell index is a cell whenever a row is about to be copied.
WritesInBounds ==
  phase = "loop" => i <= num_rec /\ DOMAIN output = 0..num_rec-1

\* The test "if (i == num_rows)" of RS_PostgreSQL_fetch never succeeds while
\* rows remain, so completed is never -1 and no call gives up in the middle.
NeverAbandons == phase = "loop" /\ k < num_rows => i # num_rows

\* Between calls the rows up to rowCount, and no others, have been handed to
\* the caller or lost with a failed conversion, and none both.
RowsAccountedFor ==
  LET given == {p[2] : p \in delivered}
  IN  /\ phase = "idle" => given \cup lost = 0..rowCount-1
      /\ given \cap lost = {}

\* The row names count the rows of the result from 1 through all its fetches,
\* with a gap where a call lost its rows.
RowNamesNumberTheResult == \A p \in delivered : p[1] = p[2] + 1

\* dbHasCompleted() is TRUE only when no row is left, and is TRUE at once when
\* the last row was fetched, even by a call that asked for exactly that many.
CompletedMeansExhausted ==
  /\ completed = 1 => rowCount = num_rows
  /\ rowCount = num_rows /\ num_rows > 0 => completed = 1

\* No row is ever handed over twice, whatever calls failed in between.
DeliveredOnce ==
  [][\A p \in delivered' \ delivered :
       p[2] \notin lost /\ \A q \in delivered : q[2] # p[2]]_fetchVars

Cursor ==
  INSTANCE RowCursor WITH
    total <- num_rows,
    pos   <- rowCount,
    done  <- completed = 1,
    batch <- IF phase = "fetched" THEN RowsOf(output) ELSE {},
    given <- {p[2] : p \in delivered}

\* The loop, with its doubling and its three ways out, gives each call exactly
\* the share of rows it asked for.
ImplementsCursor == Cursor!Spec

\* The client man/PostgreSQL.Rd shows, which fetches until dbHasCompleted(), with
\* whatever counts, gets there: the calls end, and those that do not run out of
\* memory make progress, also where their rows cannot be converted.
Drains ==
  []<><<\E n \in Requests : Start(n)>>_fetchVars /\ ~[]<><<GrowFails>>_fetchVars
    => <>(completed = 1)
=============================================================================

------------------------------- MODULE PgResult -------------------------------
(***************************************************************************)
(* The memory of a PGresult and the events that are told of it (fe-exec.c, *)
(* libpq-events.c): blocks cut into pieces by pqResultAlloc, rows in an    *)
(* array that doubles, deep copies, and event procedures that hear of a    *)
(* result when it is made or copied and when it is cleared.  Every malloc  *)
(* may fail.                                                               *)
(*                                                                         *)
(* A value is NULL or its length; a cell holds the value and the place of  *)
(* its bytes is a piece [block, from, size].                               *)
(***************************************************************************)
EXTENDS Integers, Sequences, FiniteSets, FiniteSetsExt

CONSTANTS
  NULL,
  BlockSize,    \* PGRESULT_DATA_BLOCKSIZE
  Align,        \* PGRESULT_ALIGN_BOUNDARY
  Pointer,      \* size of a PGresult_data, and of a PGresAttValue
  FirstArray,   \* rows of the first array of rows
  MaxInt,       \* the largest int
  Results,      \* names of PGresult variables
  Procs,        \* bound: event procedures of the connection
  Columns,      \* bound: numbers of columns
  Lengths,      \* bound: lengths of values and names
  MaxRows,      \* bound: rows
  MaxPieces     \* bound: pieces of all results before a call adds more

ASSUME ResultAssumption ==
  /\ Align \in Nat \ {0} /\ Pointer \in Nat \ {0}
  /\ BlockSize \in Nat /\ BlockSize % Align = 0
  /\ MaxInt \in Nat /\ FirstArray \in 1..MaxInt
  /\ Procs \in Nat /\ Columns \subseteq Nat /\ Lengths \subseteq Nat

Overhead == IF Pointer > Align THEN Pointer ELSE Align
Threshold == BlockSize \div 2

\* The requirements fe-exec.c states for its tuning constants: an object smaller
\* than the threshold fits in a new block, and what follows the overhead of a
\* block is aligned.
ASSUME ThresholdAssumption == Threshold + Overhead <= BlockSize /\ Overhead % Align = 0

Cells == Nat \union {NULL}
Pieces == [block : Nat, from : Nat, size : Nat, binary : BOOLEAN]
PGresults ==
  [status : {"TUPLES_OK", "FATAL_ERROR"}, attrs : Seq(Nat), rows : Seq(Seq(Cells)),
   tupArrSize : Nat, blocks : Seq(Nat), cur : Nat, curOffset : Nat, spaceLeft : Nat,
   pieces : SUBSET Pieces, events : Seq(BOOLEAN)]

ASSUME NullAssumption == NULL \notin PGresults

VARIABLES
  results,    \* what the variables hold, a PGresult or NULL
  told        \* history: creations less destructions each procedure was told of

resultVars == <<results, told>>

-----------------------------------------------------------------------------
(* Memory.  An operator that allocates gives the set of its outcomes, each *)
(* the result after it and whether it succeeded.                           *)

Did(r) == [r |-> r, ok |-> TRUE]
Fails(r) == [r |-> r, ok |-> FALSE]
Then(outcomes, Step(_)) == UNION {IF o.ok THEN Step(o.r) ELSE {o} : o \in outcomes}

\* Mutant: the padding is not taken off the space that is left.
Padded_SpaceKept(r, isBinary) ==
  LET offset == r.curOffset % Align
  IN  IF isBinary /\ offset # 0 THEN [r EXCEPT !.curOffset = @ + (Align - offset)] ELSE r

Padded(r, isBinary) ==
  LET offset == r.curOffset % Align
  IN  IF isBinary /\ offset # 0
        THEN [r EXCEPT !.curOffset = @ + (Align - offset), !.spaceLeft = @ - (Align - offset)]
        ELSE r

\* (size_t) of an int: no negative number is small.
Fits(n, spaceLeft) == spaceLeft < 0 \/ n <= spaceLeft

Piece(block, from, n, isBinary) == [block |-> block, from |-> from, size |-> n, binary |-> isBinary]

\* A piece of the active block.
Cut(r, n, isBinary) ==
  Did([r EXCEPT !.pieces = @ \union {Piece(r.cur, r.curOffset, n, isBinary)},
                !.curOffset = @ + n, !.spaceLeft = @ - n])

\* A block of its own, below the active one; the first block is active, full.
SeparateBlock(r, n, isBinary) ==
  LET b == Len(r.blocks) + 1
  IN  Did([r EXCEPT !.blocks = Append(@, n + Overhead),
                    !.pieces = @ \union {Piece(b, Overhead, n, isBinary)},
                    !.cur = IF @ = 0 THEN b ELSE @,
                    !.spaceLeft = IF r.cur = 0 THEN 0 ELSE @])

NewBlock(r, n, isBinary) ==
  LET start == IF isBinary THEN Overhead ELSE Pointer
  IN  Cut([r EXCEPT !.blocks = Append(@, BlockSize), !.cur = Len(r.blocks) + 1,
                    !.curOffset = start, !.spaceLeft = BlockSize - start], n, isBinary)

pqResultAlloc(r, n, isBinary) ==
  LET p == Padded(r, isBinary)
  IN  IF n = 0 THEN {Did(r)}
      ELSE IF Fits(n, p.spaceLeft) THEN {Cut(p, n, isBinary)}
      ELSE {Fails(p), IF n >= Threshold THEN SeparateBlock(p, n, isBinary) ELSE NewBlock(p, n, isBinary)}

-----------------------------------------------------------------------------
(* Making, filling and copying results. *)

Empty(status) ==
  [status |-> status, attrs |-> <<>>, rows |-> <<>>, tupArrSize |-> 0,
   blocks |-> <<>>, cur |-> 0, curOffset |-> 0, spaceLeft |-> 0, pieces |-> {}, events |-> <<>>]

\* dupEvents: the procedures of a connection or a result, told of nothing yet.
dupEvents(events) == [i \in DOMAIN events |-> FALSE]

PQmakeEmptyPGresult(status, events) ==
  {Did([Empty(status) EXCEPT !.events = dupEvents(events)]), Fails(NULL)}

\* A string of each of sizes, one by one until there is no memory for one.
AllocEach(outcomes, sizes) ==
  LET after[k \in 0..Len(sizes)] ==
        IF k = 0 THEN outcomes
        ELSE Then(after[k - 1], LAMBDA s : pqResultAlloc(s, sizes[k], FALSE))
  IN  after[Len(sizes)]

\* The columns and then their names.
PQsetResultAttrs(r, attrs) ==
  IF r.attrs # <<>> THEN {Fails(r)}
  ELSE IF attrs = <<>> THEN {Did(r)}
  ELSE AllocEach(Then(pqResultAlloc(r, Len(attrs) * Pointer, TRUE),
                      LAMBDA s : {Did([s EXCEPT !.attrs = attrs])}),
                 [i \in 1..Len(attrs) |-> attrs[i] + 1])

\* The size an int gives the doubled array; malloc refuses a negative one.
Doubled(n) ==
  LET size == IF n > 0 THEN n * 2 ELSE FirstArray IN IF size > MaxInt THEN size - 2 * (MaxInt + 1) ELSE size

pqAddTuple(r, row) ==
  LET added == [r EXCEPT !.rows = Append(@, row)]
      size == Doubled(r.tupArrSize)
  IN  IF Len(r.rows) < r.tupArrSize THEN {Did(added)}
      ELSE {Fails(r)} \union (IF size < 0 THEN {} ELSE {Did([added EXCEPT !.tupArrSize = size])})

\* Mutant: that there was no memory for the value is not reported.
StoreValue_Unreported(r, t, f, v) ==
  IF v = NULL \/ v = 0 THEN {Did([r EXCEPT !.rows[t][f] = v])}
  ELSE {[o EXCEPT !.ok = TRUE] : o \in pqResultAlloc(r, v + 1, TRUE)}

\* NULL and empty values take no memory.
StoreValue(r, t, f, v) ==
  Then(IF v = NULL \/ v = 0 THEN {Did(r)} ELSE pqResultAlloc(r, v + 1, TRUE),
       LAMBDA s : {Did([s EXCEPT !.rows[t][f] = v])})

\* Row t, a new one of NULLs when it is the one after the last.
NewRow(r, t) ==
  IF t <= Len(r.rows) THEN {Did(r)}
  ELSE Then(pqResultAlloc(r, Len(r.attrs) * Pointer, TRUE),
            LAMBDA s : pqAddTuple(s, [i \in 1..Len(r.attrs) |-> NULL]))

\* Rows and columns count from 1 here.  A row that was added stays when there is
\* no memory for the value.
PQsetvalue(r, t, f, v) ==
  IF f \notin 1..Len(r.attrs) \/ t \notin 1..Len(r.rows) + 1 THEN {Fails(r)}
  ELSE Then(NewRow(r, t), LAMBDA s : StoreValue(s, t, f, v))

\* pqRowProcessor on a row from the wire: values of text columns are not
\* aligned, NULL takes no memory, and a row that does not fit into memory is not
\* added.
pqRowProcessor(r, row) ==
  AllocEach(pqResultAlloc(r, Len(row) * Pointer, TRUE),
            [i \in 1..Len(row) |-> IF row[i] = NULL THEN 0 ELSE row[i] + 1])
AddRow(r, row) == Then(pqRowProcessor(r, row), LAMBDA s : pqAddTuple(s, row))

\* The cells of row t of src in order, and all rows; a result without columns
\* gives none.
CopyRow(r, src, t) ==
  LET after[f \in 0..Len(src.attrs)] ==
        IF f = 0 THEN {Did(r)}
        ELSE Then(after[f - 1], LAMBDA s : PQsetvalue(s, t, f, src.rows[t][f]))
  IN  after[Len(src.attrs)]
CopyTuples(r, src) ==
  LET after[t \in 0..Len(src.rows)] ==
        IF t = 0 THEN {Did(r)}
        ELSE Then(after[t - 1], LAMBDA s : CopyRow(s, src, t))
  IN  after[Len(src.rows)]

\* PQcopyResult before the events are told; a copy that fails is cleared.
Flags == SUBSET {"ATTRS", "TUPLES", "EVENTS"}
Copies(src, flags) ==
  LET WithAttrs(r) == IF flags \intersect {"ATTRS", "TUPLES"} = {} THEN {Did(r)}
                      ELSE PQsetResultAttrs(r, src.attrs)
      WithTuples(r) == IF "TUPLES" \in flags THEN CopyTuples(r, src) ELSE {Did(r)}
      WithEvents(r) == IF "EVENTS" \in flags /\ src.events # <<>>
                         THEN {Fails(r), Did([r EXCEPT !.events = dupEvents(src.events)])}
                         ELSE {Did(r)}
  IN  Then(Then(Then(PQmakeEmptyPGresult("TUPLES_OK", <<>>), WithAttrs), WithTuples), WithEvents)

-----------------------------------------------------------------------------
(* Events.  Procedures are told in their order until one refuses.          *)

\* Those of asked that agree when refuses says no, 0 for nobody.
Agreed(r, asked, refuses) ==
  {p \in asked : p \in DOMAIN r.events /\ (refuses = 0 \/ p < refuses)}
Initialized(r, agreed) == [r EXCEPT !.events = [p \in DOMAIN @ |-> @[p] \/ p \in agreed]]

Believers(r) == {p \in DOMAIN r.events : r.events[p]}
Tells(agreed, by) == told' = [p \in DOMAIN told |-> told[p] + (IF p \in agreed THEN by ELSE 0)]

ResultInit == results = [x \in Results |-> NULL] /\ told = [p \in 1..Procs |-> 0]

Becomes(x, outcomes) == \E o \in outcomes : results' = [results EXCEPT ![x] = o.r] /\ UNCHANGED told

MakeEmpty(x) ==
  /\ results[x] = NULL
  /\ Becomes(x, PQmakeEmptyPGresult("TUPLES_OK", [p \in 1..Procs |-> FALSE]))

\* PQfireResultCreateEvents, and PQgetResult on a new result: a refusal makes
\* an error of it.
FireCreate(x) ==
  /\ results[x] # NULL
  /\ LET r == results[x]
         asked == DOMAIN r.events \ Believers(r)
     IN  \E refuses \in {0} \union asked :
           /\ results' = [results EXCEPT ![x] =
                [Initialized(r, Agreed(r, asked, refuses)) EXCEPT
                   !.status = IF refuses = 0 THEN @ ELSE "FATAL_ERROR"]]
           /\ Tells(Agreed(r, asked, refuses), 1)

Live == {x \in Results : results[x] # NULL}
RoomForMore == MapThenSumSet(LAMBDA x : Cardinality(results[x].pieces), Live) < MaxPieces

\* Of a result without rows: PQsetResultAttrs does not look for rows of no
\* columns, which would be read past their end.
SetAttrs(x) ==
  /\ results[x] # NULL /\ RoomForMore /\ results[x].rows = <<>>
  /\ \E width \in Columns : \E attrs \in [1..width -> Lengths] :
       Becomes(x, PQsetResultAttrs(results[x], attrs))

SetValue(x) ==
  /\ results[x] # NULL /\ RoomForMore
  /\ \E t \in 1..MaxRows, f \in 1..Len(results[x].attrs) + 1, v \in Lengths \union {NULL} :
       Becomes(x, PQsetvalue(results[x], t, f, v))

ReceiveRow(x) ==
  /\ results[x] # NULL /\ RoomForMore /\ Len(results[x].rows) < MaxRows
  /\ \E row \in [DOMAIN results[x].attrs -> Lengths \union {NULL}] :
       Becomes(x, AddRow(results[x], row))

\* PQcopyResult: the procedures that know src are told of dest.  When one
\* refuses, dest is cleared and those that agreed are told so.
CopyTo(src, y, flags) ==
  /\ results[src] # NULL /\ results[y] = NULL
  /\ \E o \in Copies(results[src], flags) :
       IF ~o.ok THEN UNCHANGED <<results, told>>
       ELSE LET asked == DOMAIN o.r.events \intersect Believers(results[src])
            IN  \E refuses \in {0} \union asked :
                  IF refuses # 0 THEN UNCHANGED <<results, told>>
                  ELSE /\ results' = [results EXCEPT ![y] = Initialized(o.r, asked)]
                       /\ Tells(asked, 1)
Copy == \E src, y \in Results, flags \in Flags : CopyTo(src, y, flags)

\* Mutant: a procedure that refused hears of the end all the same.
Clear_AllTold(x) ==
  /\ results[x] # NULL
  /\ Tells(DOMAIN results[x].events, -1)
  /\ results' = [results EXCEPT ![x] = NULL]

\* PQclear
Clear(x) ==
  /\ results[x] # NULL
  /\ Tells(Believers(results[x]), -1)
  /\ results' = [results EXCEPT ![x] = NULL]

ResultNext ==
  \/ \E x \in Results : MakeEmpty(x) \/ FireCreate(x) \/ SetAttrs(x) \/ SetValue(x)
                          \/ ReceiveRow(x) \/ Clear(x)
  \/ Copy

ResultSpec == ResultInit /\ [][ResultNext]_resultVars

-----------------------------------------------------------------------------
Within(r, p) ==
  /\ p.block \in DOMAIN r.blocks /\ p.from >= Pointer
  /\ p.from + p.size <= r.blocks[p.block]
  /\ p.binary => p.from % Align = 0
Apart(p, q) == p.block # q.block \/ p.from + p.size <= q.from \/ q.from + q.size <= p.from

\* Every piece pqResultAlloc hands out lies in its block behind the link to
\* the next, aligned where it must be, and overlaps no other; the rows are in
\* their array.  The hazards are the padding, which is taken off a signed
\* count that is then compared as unsigned, the separate block that becomes
\* the active one when it is first, and an array that cannot be doubled.
MemoryInBounds ==
  \A x \in Live :
    LET r == results[x]
    IN  /\ \A p \in r.pieces : Within(r, p) /\ \A q \in r.pieces \ {p} : Apart(p, q)
        /\ Len(r.rows) <= r.tupArrSize

\* A procedure has been told of exactly the results it agreed to know, and of
\* the end of each once: also when a copy is given up half way.
EventsPaired ==
  \A p \in 1..Procs : told[p] = Cardinality({x \in Live : p \in Believers(results[x])})

\* A copy with tuples has the rows and columns of its source, unless that has
\* no columns: a copy in which some allocation failed is never returned.
CopiesAgree ==
  [][\A src, y \in Results, flags \in Flags :
       /\ results[y] = NULL /\ results'[y] # NULL /\ "TUPLES" \in flags
       /\ results[src] # NULL /\ results[src].attrs # <<>>
       /\ CopyTo(src, y, flags)
       => /\ results'[y].rows = results[src].rows
          /\ results'[y].attrs = results[src].attrs]_resultVars
=============================================================================

----------------------------- MODULE CopyFrame ------------------------------
(***************************************************************************)
(* RS_PostgreSQL_CopyInDataframe: a data frame is written cell by cell     *)
(* into a buffer of fixed size, which is handed to PQputCopyData whenever  *)
(* it has filled up to a threshold; a cell longer than that is handed over *)
(* on its own.  Cells are encoded in a second buffer, which grows for      *)
(* strings, and which the text of a raw column may overrun.                *)
(*                                                                         *)
(* The text of the frame is a sequence of pieces, cells and separators,    *)
(* numbered in row-major order; a row of nc > 0 cells has 2 * nc pieces, a *)
(* row without cells is a newline.  What is in a cell shows only in how    *)
(* many bytes it takes.  An overrun of a buffer is recorded, and the call  *)
(* goes on as if it had hit nothing, or ends there.                        *)
(***************************************************************************)
EXTENDS Integers, Sequences

CONSTANTS
  MaxRows,      \* bound: rows of a frame
  MaxCols,      \* bound: columns of a frame
  FrameCells,   \* bound: cells of a frame
  Lengths,      \* bytes of a string cell, before escaping
  RawTexts,     \* bytes of a whole raw column, after escaping
  Threshold,    \* buff_threshold
  DefaultSize   \* rstrbuf.defaultSize

ASSUME FrameAssumption == MaxRows \in Nat /\ MaxCols \in Nat /\ FrameCells \in Nat
ASSUME LengthsAssumption == Lengths \subseteq Nat /\ RawTexts \subseteq Nat
ASSUME SizesAssumption == Threshold \in Nat \ {0} /\ DefaultSize \in Nat \ {0}

VARIABLES
  nr, nc,       \* rows and columns of the frame, given by the caller
  rawtext,      \* of each column, the bytes of its escaped text if it is raw, or 0
  pc,           \* "loop", "ended" (PQputCopyEnd was called) or "error"
  i, j,         \* the cell that is next, j = nc after the last of a row
  buffer,       \* the pieces in strBuf
  used,         \* strendp - strBuf
  bufsize,      \* rstrbuf.bufsize
  sent,         \* the pieces given to PQputCopyData
  encoded,      \* history: bytes the last string took in rstrbuf
  high          \* history: the bytes of strBuf ever written to

frameVars == <<nr, nc, rawtext>>
vars == <<frameVars, pc, i, j, buffer, used, bufsize, sent, encoded, high>>

\* "+ 2 for '\t' or '\n' plus '\0'"
StrBufSize == 2 * Threshold + 2

Larger(a, b) == IF a < b THEN b ELSE a

\* The numbers of a cell, of the tab before it and of the end of a row.
RowStart(row) == row * (IF nc = 0 THEN 1 ELSE 2 * nc)
Cell(row, col) == RowStart(row) + 2 * col
Tab(row, col) == Cell(row, col) - 1
Newline(row) == RowStart(row + 1) - 1

\* What PQescapeByteaConn can make of the nr bytes of a column: a byte becomes one
\* to five, or all of them two each behind a prefix of at most three.
RawLengths == RawTexts \cap nr..5*nr

\* R_AllocStringBuffer(blen, buf): a buffer too small for blen bytes and a NUL
\* becomes that size, rounded up to whole default sizes.
AllocStringBuffer(blen) ==
  LET whole == ((blen + 1) \div DefaultSize) * DefaultSize
  IN  IF blen < bufsize THEN bufsize
      ELSE IF whole < blen + 1 THEN whole + DefaultSize ELSE whole

Init ==
  /\ nr \in 0..MaxRows /\ nc \in 0..MaxCols /\ nr * nc <= FrameCells
  /\ rawtext \in [0..nc-1 -> {0} \cup RawLengths]
  /\ pc = "loop" /\ i = 0 /\ j = 0
  /\ buffer = <<>> /\ used = 0 /\ high = 1
  /\ bufsize = 2 * DefaultSize /\ encoded = 0
  /\ sent = <<>>

-----------------------------------------------------------------------------
(* The three ways of a cell of n bytes into the COPY.  A cell that is not the
   first of its row has put a tab in the buffer by then, whatever becomes of it. *)

Ahead == IF j > 0 THEN Append(buffer, Tab(i, j)) ELSE buffer

Len0 == IF j > 0 THEN used + 1 ELSE used

Fits(n) ==
  /\ Len0 + n < Threshold
  /\ buffer' = Append(Ahead, Cell(i, j)) /\ used' = Len0 + n
  /\ high' = Larger(high, Len0 + n)
  /\ UNCHANGED sent

\* Mutant: the cell is copied and flushed whatever its length.
FillsUp_AnyLength(n) ==
  /\ Len0 + n >= Threshold
  /\ sent' = sent \o Append(Ahead, Cell(i, j))
  /\ buffer' = <<>> /\ used' = 0
  /\ high' = Larger(high, Len0 + n)

\* "copy and flush"
FillsUp(n) ==
  /\ Len0 + n >= Threshold /\ n < Threshold
  /\ sent' = sent \o Append(Ahead, Cell(i, j))
  /\ buffer' = <<>> /\ used' = 0
  /\ high' = Larger(high, Len0 + n)

\* Mutant: the long cell overtakes what is in the buffer.
TooLong_Unflushed(n) ==
  /\ n >= Threshold
  /\ sent' = Append(sent, Cell(i, j))
  /\ buffer' = Ahead /\ used' = Len0
  /\ high' = Larger(high, Len0)

\* "flush and copy current": the cell does not pass through the buffer.
TooLong(n) ==
  /\ n >= Threshold
  /\ sent' = sent \o Append(Ahead, Cell(i, j))
  /\ buffer' = <<>> /\ used' = 0
  /\ high' = Larger(high, Len0)

InFrame == pc = "loop" /\ i < nr /\ j < nc /\ UNCHANGED frameVars

WriteCell(n) ==
  /\ Fits(n) \/ FillsUp(n) \/ TooLong(n)
  /\ j' = j + 1
  /\ UNCHANGED <<pc, i>>

\* A string of len bytes, of which so many are escaped by a backslash.
StringCell(len, escapes) ==
  /\ InFrame /\ rawtext[j] = 0
  /\ bufsize' = AllocStringBuffer(2 * len + 1) /\ encoded' = len + escapes + 1
  /\ WriteCell(len + escapes)

\* A cell of a raw column is the text of the whole column, copied together with its
\* NUL and ended by another one, however large the buffer is.
RawCell ==
  /\ InFrame /\ rawtext[j] > 0
  /\ encoded' = rawtext[j] + 2
  /\ WriteCell(rawtext[j])
  /\ UNCHANGED bufsize

\* NA, a logical or a number.
PlainCell(n) ==
  /\ InFrame /\ rawtext[j] = 0
  /\ WriteCell(n)
  /\ UNCHANGED <<bufsize, encoded>>

\* An R error in the encoding of a cell, or PQputCopyData fails: for what is in
\* the buffer or for the long cell that follows it.  The COPY is left open.
CellFails ==
  /\ InFrame
  /\ pc' = "error"
  /\ UNCHANGED sent \/ sent' = sent \o Ahead
  /\ UNCHANGED <<i, j, buffer, used, bufsize, encoded, high>>

\* The end of the row, and a NUL behind it.
EndRow ==
  /\ pc = "loop" /\ i < nr /\ j = nc
  /\ buffer' = Append(buffer, Newline(i)) /\ used' = used + 1
  /\ high' = Larger(high, used + 2)
  /\ i' = i + 1 /\ j' = 0
  /\ UNCHANGED <<frameVars, pc, bufsize, sent, encoded>>

\* Mutant: what is still in the buffer is forgotten.
Finish_Unflushed ==
  /\ pc = "loop" /\ i = nr
  /\ pc' = "ended"
  /\ UNCHANGED <<frameVars, i, j, buffer, used, bufsize, sent, encoded, high>>

\* The last PQputCopyData, and PQputCopyEnd.
Finish ==
  /\ pc = "loop" /\ i = nr
  /\ sent' = sent \o buffer /\ buffer' = <<>> /\ used' = 0
  /\ pc' = "ended"
  /\ UNCHANGED <<frameVars, i, j, bufsize, encoded, high>>

FinishFails ==
  /\ pc = "loop" /\ i = nr
  /\ pc' = "error"
  /\ UNCHANGED <<frameVars, i, j, buffer, used, bufsize, sent, encoded, high>>

Next ==
  \/ \E len \in Lengths : \E escapes \in 0..len : StringCell(len, escapes)
  \/ \E n \in Lengths : PlainCell(n)
  \/ RawCell \/ CellFails
  \/ EndRow \/ Finish \/ FinishFails

Spec == Init /\ [][Next]_vars

-----------------------------------------------------------------------------
(* Properties. *)

\* The shape of every variable.  Between two cells at most Threshold bytes wait;
\* between rows without cells, a newline for each.
TypeOK ==
  /\ nr \in 0..MaxRows /\ nc \in 0..MaxCols
  /\ rawtext \in [0..nc-1 -> {0} \cup RawLengths]
  /\ pc \in {"loop", "ended", "error"}
  /\ i \in 0..nr /\ j \in 0..nc
  /\ buffer \in Seq(Nat) /\ sent \in Seq(Nat)
  /\ used \in 0..(IF nc = 0 THEN nr ELSE Threshold)
  /\ bufsize \in Nat /\ encoded \in Nat /\ high \in Nat

\* No byte is written past the end of strBuf, whatever the cells, the separators
\* ("need no size count check here") and the NUL included: unless the frame has no
\* column and more rows than strBuf has room for, as the threshold is looked at with
\* a cell only.
BufferInBounds == (nc > 0 \/ nr < StrBufSize) => high <= StrBufSize

\* The encoding of a cell, escapes and NUL included, fits the buffer: a string's in
\* what R_AllocStringBuffer provided for it, always; a raw column's, which asks for
\* no room, if it fits the size that the buffer starts with.
EncodedInBounds ==
  encoded > bufsize => \E col \in 0..nc-1 :
                         /\ encoded = rawtext[col] + 2
                         /\ rawtext[col] + 2 > 2 * DefaultSize

\* Neither of the two buffers is written past its end, by cells of any length and
\* any number of escapes, but by the two kinds of frame that the code does not
\* check: many rows without a column, and long raw columns.
BuffersInBounds == BufferInBounds /\ EncodedInBounds

\* The server is sent the text of the frame from its beginning and in its order:
\* no cell overtakes another, none is dropped or repeated, also by a call that
\* ends in an error.
SentInOrder == \A p \in DOMAIN sent : sent[p] = p - 1

\* A COPY is ended only after the whole frame was sent.
EndedIsWhole == pc = "ended" => Len(sent) = RowStart(nr)

\* What the server gets of a frame is a prefix of its text at any time, and all of
\* it when the COPY is ended.
SentWholeInOrder == SentInOrder /\ EndedIsWhole
=============================================================================

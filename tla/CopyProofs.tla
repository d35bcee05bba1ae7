----------------------------- MODULE CopyProofs -----------------------------
(***************************************************************************)
(* Proofs about the two models of RS_PostgreSQL_CopyInDataframe.           *)
(* CopyFrame, for frames of any size, cells of any length and any          *)
(* threshold: the buffers overflow in two cases only, and what is sent is  *)
(* the text of the frame, in order, and all of it once the COPY is ended,  *)
(* provided that the call survives an overflow.  CopyText, for             *)
(* frames and strings of any size over any characters: the server reads    *)
(* back what was written.                                                  *)
(***************************************************************************)
EXTENDS CopyFrame, CopyText, SequenceTheorems, WellFoundedInduction, TLAPS

InOrder(s) == \A p \in 1..Len(s) : s[p] = p - 1

\* b carries on where s ends.
Continues(s, b) == \A p \in 1..Len(b) : b[p] = Len(s) + p - 1

\* The pieces written before cell (i, j).
Done == RowStart(i) + (IF j = 0 THEN 0 ELSE 2 * j - 1)

\* Behind a cell there is room for a tab or a newline, newlines without cells pile up
\* with a NUL behind them, the pieces sent and buffered are those before the next
\* cell, and behind the last row no cell is next.
LoopInv ==
  pc = "loop" => /\ j > 0 => used < Threshold
                 /\ nc = 0 => used = i /\ high = i + 1
                 /\ i = nr => j = 0
                 /\ Continues(sent, buffer)
                 /\ Len(sent) + Len(buffer) = Done

IInv ==
  /\ TypeOK
  /\ BufferInBounds
  /\ EncodedInBounds /\ bufsize >= 2 * DefaultSize
  /\ InOrder(sent)
  /\ LoopInv
  /\ EndedIsWhole

-----------------------------------------------------------------------------
(* Sequences of pieces. *)

\* A piece with the next number can be appended.
LEMMA AppendContinues ==
  ASSUME NEW s \in Seq(Nat), NEW b \in Seq(Nat), NEW x \in Nat,
         Continues(s, b), x = Len(s) + Len(b)
  PROVE  /\ Append(b, x) \in Seq(Nat)
         /\ Len(Append(b, x)) = Len(b) + 1
         /\ Continues(s, Append(b, x))
  <1>1. Append(b, x) \in Seq(Nat) /\ Len(Append(b, x)) = Len(b) + 1
    OBVIOUS
  <1>2. ASSUME NEW p \in 1..Len(b) + 1
        PROVE  Append(b, x)[p] = Len(s) + p - 1
    <2>1. CASE p \in 1..Len(b)
      BY <2>1 DEF Continues
    <2>2. CASE p = Len(b) + 1
      <3>1. Append(b, x)[p] = x /\ Len(b) \in Nat /\ Len(s) \in Nat
        BY <2>2
      <3> QED
        BY <2>2, <3>1
    <2> QED
      BY <2>1, <2>2
  <1> QED
    BY <1>1, <1>2 DEF Continues

\* The buffer can be sent.
LEMMA SendContinues ==
  ASSUME NEW s \in Seq(Nat), NEW b \in Seq(Nat), InOrder(s), Continues(s, b)
  PROVE  /\ s \o b \in Seq(Nat)
         /\ Len(s \o b) = Len(s) + Len(b)
         /\ InOrder(s \o b)
  BY DEF InOrder, Continues

\* An empty buffer continues anything.
LEMMA EmptyContinues ==
  ASSUME NEW s \in Seq(Nat)
  PROVE  <<>> \in Seq(Nat) /\ Len(<<>>) = 0 /\ Continues(s, <<>>)
  BY DEF Continues

\* A row has 2 * nc pieces, or a newline.
LEMMA RowStartStep ==
  ASSUME NEW row \in Nat, nc \in Nat
  PROVE  /\ RowStart(row) \in Nat
         /\ RowStart(row + 1) = RowStart(row) + (IF nc = 0 THEN 1 ELSE 2 * nc)
         /\ RowStart(0) = 0
  BY DEF RowStart

\* R_AllocStringBuffer provides blen bytes and the NUL, and never shrinks.
LEMMA AllocEnough ==
  ASSUME NEW blen \in Nat, bufsize \in Nat
  PROVE  /\ AllocStringBuffer(blen) \in Nat
         /\ AllocStringBuffer(blen) > blen
         /\ AllocStringBuffer(blen) >= bufsize
  <1>1. DefaultSize \in Nat \ {0}
    BY SizesAssumption
  <1>2. PICK q \in Nat, r \in 0..DefaultSize-1 :
          /\ blen + 1 = q * DefaultSize + r
          /\ (blen + 1) \div DefaultSize = q
    BY <1>1
  <1>3. q * DefaultSize \in Nat
    BY <1>1, <1>2
  <1> QED
    BY <1>1, <1>2, <1>3 DEF AllocStringBuffer

-----------------------------------------------------------------------------
(* The steps. *)

LEMMA InitEstablishes == Init => IInv
  <1>1. SUFFICES ASSUME Init PROVE IInv
    OBVIOUS
  <1>2. /\ nr \in 0..MaxRows /\ nc \in 0..MaxCols /\ pc = "loop" /\ i = 0 /\ j = 0
        /\ buffer = <<>> /\ sent = <<>> /\ used = 0 /\ high = 1
        /\ bufsize = 2 * DefaultSize /\ encoded = 0
        /\ rawtext \in [0..nc-1 -> {0} \cup RawLengths]
    BY <1>1 DEF Init
  <1>3. TypeOK /\ BufferInBounds /\ EncodedInBounds /\ bufsize >= 2 * DefaultSize
    BY <1>2, SizesAssumption, FrameAssumption
    DEF TypeOK, BufferInBounds, EncodedInBounds, StrBufSize
  <1>4. Len(sent) = 0 /\ Len(buffer) = 0 /\ sent \in Seq(Nat)
    BY <1>2
  <1>5. InOrder(sent) /\ Continues(sent, buffer)
    BY <1>4 DEF InOrder, Continues
  <1>6. Done = 0
    BY <1>2, FrameAssumption, RowStartStep DEF Done
  <1> QED
    BY <1>2, <1>3, <1>4, <1>5, <1>6 DEF IInv, LoopInv, EndedIsWhole

\* What the cases of a cell have in common: the tab has been put in the buffer.
LEMMA AheadContinues ==
  ASSUME IInv, InFrame
  PROVE  /\ Ahead \in Seq(Nat)
         /\ Continues(sent, Ahead)
         /\ Len(sent) + Len(Ahead) = Cell(i, j)
         /\ Cell(i, j) \in Nat
         /\ Len0 \in 0..Threshold
  <1>1. /\ pc = "loop" /\ i \in Nat /\ j \in Nat /\ nc \in Nat /\ nc > 0
        /\ buffer \in Seq(Nat) /\ sent \in Seq(Nat) /\ used \in 0..Threshold /\ Threshold \in Nat
        /\ j > 0 => used < Threshold
        /\ Continues(sent, buffer) /\ Len(sent) + Len(buffer) = Done
    BY SizesAssumption, FrameAssumption DEF IInv, InFrame, TypeOK, LoopInv
  <1>2. RowStart(i) \in Nat
    BY <1>1, RowStartStep
  <1>3. CASE j = 0
    BY <1>1, <1>2, <1>3 DEF Ahead, Len0, Cell, Done
  <1>4. CASE j > 0
    <2>1. Tab(i, j) \in Nat /\ Tab(i, j) = Done /\ Cell(i, j) = Done + 1
      BY <1>1, <1>2, <1>4 DEF Tab, Cell, Done
    <2>2. Ahead = Append(buffer, Tab(i, j)) /\ Len0 = used + 1
      BY <1>4 DEF Ahead, Len0
    <2>3. /\ Ahead \in Seq(Nat) /\ Len(Ahead) = Len(buffer) + 1
          /\ Continues(sent, Ahead)
      BY <1>1, <2>1, <2>2, AppendContinues
    <2>4. Len(sent) \in Nat /\ Len(buffer) \in Nat
      BY <1>1
    <2> QED
      BY <1>1, <1>4, <2>1, <2>2, <2>3, <2>4
  <1> QED
    BY <1>1, <1>3, <1>4

\* The cell is written, whichever way it takes.
LEMMA WriteCellStep ==
  ASSUME IInv, InFrame, NEW n \in Nat, WriteCell(n),
         bufsize' \in Nat, encoded' \in Nat, bufsize' >= bufsize, EncodedInBounds'
  PROVE  IInv'
  <1>1. /\ Ahead \in Seq(Nat) /\ Continues(sent, Ahead) /\ Cell(i, j) \in Nat
        /\ Len(sent) + Len(Ahead) = Cell(i, j) /\ Len0 \in 0..Threshold
    BY AheadContinues
  <1>2. /\ pc' = "loop" /\ i' = i /\ j' = j + 1 /\ nr' = nr /\ nc' = nc
        /\ pc = "loop" /\ i \in 0..nr /\ j \in 0..nc /\ j < nc
        /\ nr \in 0..MaxRows /\ nc \in 1..MaxCols /\ rawtext' = rawtext
        /\ rawtext \in [0..nc-1 -> {0} \cup RawLengths]
        /\ sent \in Seq(Nat) /\ InOrder(sent) /\ used \in 0..Threshold
        /\ high \in Nat /\ high <= 2 * Threshold + 2 /\ Threshold \in Nat
        /\ bufsize >= 2 * DefaultSize /\ bufsize \in Nat /\ DefaultSize \in Nat
    BY SizesAssumption, FrameAssumption
    DEF IInv, InFrame, WriteCell, TypeOK, frameVars, BufferInBounds, StrBufSize
  <1> DEFINE whole == Append(Ahead, Cell(i, j))
  <1>3. /\ whole \in Seq(Nat) /\ Len(whole) = Len(Ahead) + 1 /\ Continues(sent, whole)
    BY <1>1, <1>2, AppendContinues
  <1>4. Len(sent) + Len(whole) = Cell(i, j) + 1
    BY <1>1, <1>2, <1>3
  <1>5. Done' = Cell(i, j) + 1
    <2>1. RowStart(i)' = RowStart(i) /\ RowStart(i) \in Nat
      BY <1>2, FrameAssumption, RowStartStep DEF RowStart
    <2> QED
      BY <1>2, <2>1, FrameAssumption DEF Done, Cell
  <1> HIDE DEF whole
  <1>6. /\ used' \in 0..Threshold /\ used' < Threshold
        /\ high' \in Nat /\ high' <= 2 * Threshold + 2
    <2>1. CASE Fits(n)
      BY <1>1, <1>2, <2>1 DEF Fits, Larger
    <2>2. CASE FillsUp(n)
      BY <1>1, <1>2, <2>2, SizesAssumption DEF FillsUp, Larger
    <2>3. CASE TooLong(n)
      BY <1>1, <1>2, <2>3, SizesAssumption DEF TooLong, Larger
    <2> QED
      BY <2>1, <2>2, <2>3 DEF WriteCell
  <1>7. /\ sent' \in Seq(Nat) /\ buffer' \in Seq(Nat) /\ InOrder(sent')
        /\ Continues(sent', buffer') /\ Len(sent') + Len(buffer') = Cell(i, j) + 1
    <2>1. CASE Fits(n)
      <3>1. sent' = sent /\ buffer' = whole
        BY <2>1 DEF Fits, whole
      <3> QED
        BY <1>2, <1>3, <1>4, <3>1
    <2>2. CASE FillsUp(n) \/ TooLong(n)
      <3>1. sent' = sent \o whole /\ buffer' = <<>>
        BY <2>2 DEF FillsUp, TooLong, whole
      <3>2. /\ sent' \in Seq(Nat) /\ InOrder(sent')
            /\ Len(sent') = Len(sent) + Len(whole)
        BY <1>2, <1>3, <3>1, SendContinues
      <3>3. buffer' \in Seq(Nat) /\ Len(buffer') = 0 /\ Continues(sent', buffer')
        BY <3>1, <3>2, EmptyContinues
      <3> QED
        BY <1>4, <3>2, <3>3, <1>1
    <2> QED
      BY <2>1, <2>2 DEF WriteCell
  <1>8. TypeOK' /\ BufferInBounds' /\ bufsize' >= 2 * DefaultSize
    <2>1. rawtext' \in [0..nc'-1 -> {0} \cup RawLengths']
      BY <1>2 DEF RawLengths
    <2>2. BufferInBounds' /\ bufsize' >= 2 * DefaultSize
      BY <1>2, <1>6 DEF BufferInBounds, StrBufSize
    <2>3. /\ nr' \in 0..MaxRows /\ nc' \in 0..MaxCols /\ pc' \in {"loop", "ended", "error"}
          /\ i' \in 0..nr' /\ j' \in 0..nc'
          /\ used' \in 0..(IF nc' = 0 THEN nr' ELSE Threshold)
      BY <1>2, <1>6
    <2> QED
      BY <1>6, <1>7, <2>1, <2>2, <2>3 DEF TypeOK
  <1>9. LoopInv'
    <2>1. i # nr
      BY DEF InFrame, IInv, TypeOK
    <2> QED
      BY <1>2, <1>5, <1>6, <1>7, <2>1 DEF LoopInv
  <1>10. EndedIsWhole'
    BY <1>2 DEF EndedIsWhole
  <1> QED
    BY <1>7, <1>8, <1>9, <1>10 DEF IInv

LEMMA StringCellStep ==
  ASSUME IInv, NEW len \in Nat, NEW escapes \in 0..len, StringCell(len, escapes)
  PROVE  IInv'
  <1>1. bufsize \in Nat
    BY DEF IInv, TypeOK
  <1>2. /\ AllocStringBuffer(2 * len + 1) \in Nat
        /\ AllocStringBuffer(2 * len + 1) > 2 * len + 1
        /\ AllocStringBuffer(2 * len + 1) >= bufsize
    BY <1>1, AllocEnough
  <1>3. /\ bufsize' = AllocStringBuffer(2 * len + 1)
        /\ encoded' = len + escapes + 1
        /\ InFrame /\ WriteCell(len + escapes)
    BY DEF StringCell
  <1>4. bufsize' \in Nat /\ encoded' \in Nat /\ encoded' <= bufsize' /\ bufsize' >= bufsize
    BY <1>2, <1>3
  <1>5. EncodedInBounds'
    BY <1>4 DEF EncodedInBounds
  <1> QED
    BY <1>3, <1>4, <1>5, WriteCellStep

\* The text of a raw column fits, or is longer than the buffer was at first.
LEMMA RawCellStep ==
  ASSUME IInv, RawCell
  PROVE  IInv'
  <1>1. /\ InFrame /\ WriteCell(rawtext[j]) /\ encoded' = rawtext[j] + 2
        /\ bufsize' = bufsize /\ nc' = nc /\ rawtext' = rawtext
    BY DEF RawCell, InFrame, frameVars
  <1>2. /\ j \in 0..nc-1 /\ nc \in Nat /\ bufsize \in Nat /\ bufsize >= 2 * DefaultSize
        /\ rawtext \in [0..nc-1 -> {0} \cup RawLengths] /\ DefaultSize \in Nat
    BY <1>1, FrameAssumption, SizesAssumption DEF InFrame, IInv, TypeOK
  <1>3. rawtext[j] \in Nat
    BY <1>2, LengthsAssumption DEF RawLengths
  <1>4. EncodedInBounds'
    BY <1>1, <1>2, <1>3 DEF EncodedInBounds
  <1>5. bufsize' \in Nat /\ encoded' \in Nat /\ bufsize' >= bufsize
    BY <1>1, <1>2, <1>3
  <1> QED
    BY <1>1, <1>3, <1>4, <1>5, WriteCellStep

LEMMA PlainCellStep ==
  ASSUME IInv, NEW n \in Nat, PlainCell(n)
  PROVE  IInv'
  <1>1. bufsize' \in Nat /\ encoded' \in Nat /\ bufsize' >= bufsize /\ EncodedInBounds'
    BY DEF IInv, TypeOK, EncodedInBounds, PlainCell, InFrame, frameVars
  <1> QED
    BY <1>1, WriteCellStep DEF PlainCell

\* An error leaves a prefix of the text with the server.
LEMMA CellFailsStep ==
  ASSUME IInv, CellFails
  PROVE  IInv'
  <1>1. /\ Ahead \in Seq(Nat) /\ Continues(sent, Ahead)
        /\ sent \in Seq(Nat) /\ InOrder(sent) /\ InFrame
    BY AheadContinues DEF CellFails, IInv, TypeOK
  <1>2. sent' \in Seq(Nat) /\ InOrder(sent')
    <2>1. CASE sent' = sent
      BY <1>1, <2>1
    <2>2. CASE sent' = sent \o Ahead
      BY <1>1, <2>2, SendContinues
    <2> QED
      BY <2>1, <2>2 DEF CellFails
  <1>3. pc' = "error" /\ UNCHANGED <<frameVars, i, j, buffer, used, bufsize, encoded, high>>
    BY DEF CellFails, InFrame
  <1> QED
    BY <1>2, <1>3
    DEF IInv, TypeOK, frameVars, RawLengths, BufferInBounds, StrBufSize, EncodedInBounds,
        LoopInv, EndedIsWhole

LEMMA EndRowStep ==
  ASSUME IInv, EndRow
  PROVE  IInv'
  <1>1. /\ pc = "loop" /\ i \in 0..nr /\ i < nr /\ j = nc /\ nr \in 0..MaxRows
        /\ nc \in 0..MaxCols /\ buffer \in Seq(Nat) /\ sent \in Seq(Nat) /\ InOrder(sent)
        /\ nc > 0 => used \in 0..Threshold /\ used < Threshold /\ high <= StrBufSize
        /\ nc = 0 => used = i /\ high = i + 1
        /\ Threshold \in Nat /\ StrBufSize = 2 * Threshold + 2
        /\ bufsize \in Nat /\ encoded \in Nat /\ high \in Nat
        /\ rawtext \in [0..nc-1 -> {0} \cup RawLengths]
        /\ Continues(sent, buffer) /\ Len(sent) + Len(buffer) = Done
    BY SizesAssumption, FrameAssumption
    DEF EndRow, IInv, TypeOK, BufferInBounds, EncodedInBounds, StrBufSize, LoopInv
  <1>2. /\ pc' = pc /\ i' = i + 1 /\ j' = 0 /\ nr' = nr /\ nc' = nc /\ rawtext' = rawtext
        /\ buffer' = Append(buffer, Newline(i)) /\ sent' = sent /\ used' = used + 1
        /\ bufsize' = bufsize /\ encoded' = encoded
        /\ high' = Larger(high, used + 2)
    BY DEF EndRow, frameVars
  <1>3. /\ RowStart(i) \in Nat
        /\ RowStart(i + 1) = RowStart(i) + (IF nc = 0 THEN 1 ELSE 2 * nc)
        /\ RowStart(i)' = RowStart(i + 1)
    BY <1>1, <1>2, FrameAssumption, RowStartStep DEF RowStart
  <1>4. Newline(i) \in Nat /\ Newline(i) = Done /\ Done' = Done + 1
    <2>1. Done' = RowStart(i + 1)
      <3>1. RowStart(i + 1) \in Nat
        BY <1>1, <1>3, FrameAssumption
      <3>2. Done' = RowStart(i)' + 0
        BY <1>2 DEF Done
      <3> QED
        BY <1>3, <3>1, <3>2
    <2>2. CASE nc = 0
      BY <1>1, <1>3, <2>1, <2>2 DEF Newline, Done
    <2>3. CASE nc > 0
      BY <1>1, <1>3, <2>1, <2>3, FrameAssumption DEF Newline, Done
    <2> QED
      BY <1>1, <2>2, <2>3, FrameAssumption
  <1>5. /\ buffer' \in Seq(Nat) /\ Len(buffer') = Len(buffer) + 1
        /\ Continues(sent, buffer')
    BY <1>1, <1>2, <1>4, AppendContinues
  <1>6. TypeOK' /\ BufferInBounds' /\ EncodedInBounds' /\ bufsize' >= 2 * DefaultSize
    <2>1. /\ used' \in 0..(IF nc' = 0 THEN nr' ELSE Threshold) /\ high' \in Nat
          /\ i' \in 0..nr' /\ j' \in 0..nc'
      <3>1. CASE nc = 0
        BY <1>1, <1>2, <3>1, FrameAssumption DEF Larger
      <3>2. CASE nc > 0
        <4>1. used' \in 0..Threshold /\ nc' > 0
          BY <1>1, <1>2, <3>2, FrameAssumption
        <4>2. i' \in 0..nr' /\ j' \in 0..nc'
          BY <1>1, <1>2, <3>2, FrameAssumption
        <4>3. high' \in Nat
          BY <1>1, <1>2, <3>2 DEF Larger
        <4> QED
          BY <4>1, <4>2, <4>3
      <3> QED
        BY <1>1, <3>1, <3>2, FrameAssumption
    <2>2. rawtext' \in [0..nc'-1 -> {0} \cup RawLengths']
      BY <1>1, <1>2 DEF RawLengths
    <2>3. TypeOK'
      BY <1>1, <1>2, <1>5, <2>1, <2>2 DEF TypeOK
    <2>4. BufferInBounds'
      <3>1. StrBufSize' = StrBufSize
        BY DEF StrBufSize
      <3>2. CASE nc > 0
        BY <1>1, <1>2, <3>1, <3>2 DEF BufferInBounds, Larger
      <3>3. CASE nc = 0
        <4>1. high' = i + 2 /\ i + 1 <= nr /\ nr \in Nat /\ i \in Nat
          BY <1>1, <1>2, <3>3, FrameAssumption DEF Larger
        <4>2. nr' < StrBufSize' => high' <= StrBufSize'
          BY <1>1, <1>2, <3>1, <4>1
        <4>3. nc' = 0
          BY <1>2, <3>3
        <4> QED
          BY <4>2, <4>3 DEF BufferInBounds
      <3> QED
        BY <1>1, <3>2, <3>3, FrameAssumption
    <2>5. EncodedInBounds' /\ bufsize' >= 2 * DefaultSize
      BY <1>2 DEF IInv, EncodedInBounds
    <2> QED
      BY <2>3, <2>4, <2>5
  <1>7. LoopInv'
    <2>1. Len(sent) \in Nat /\ Len(buffer) \in Nat
      BY <1>1
    <2>2. Len(sent') + Len(buffer') = Done'
      BY <1>1, <1>2, <1>4, <1>5, <2>1
    <2>3. nc' = 0 => used' = i' /\ high' = i' + 1
      BY <1>1, <1>2 DEF Larger
    <2> QED
      BY <1>2, <1>5, <2>2, <2>3 DEF LoopInv
  <1> QED
    BY <1>1, <1>2, <1>6, <1>7 DEF IInv, EndedIsWhole

LEMMA FinishStep ==
  ASSUME IInv, Finish
  PROVE  IInv'
  <1>1. /\ pc = "loop" /\ i = nr /\ nr \in 0..MaxRows /\ nc \in 0..MaxCols /\ j = 0
        /\ buffer \in Seq(Nat) /\ sent \in Seq(Nat) /\ InOrder(sent)
        /\ Continues(sent, buffer) /\ Len(sent) + Len(buffer) = Done
    BY DEF Finish, IInv, TypeOK, LoopInv
  <1>2. /\ pc' = "ended" /\ sent' = sent \o buffer /\ buffer' = <<>> /\ used' = 0
        /\ UNCHANGED <<nr, nc, rawtext, i, j, bufsize, encoded, high>>
    BY DEF Finish, frameVars
  <1>3. sent' \in Seq(Nat) /\ InOrder(sent') /\ Len(sent') = Len(sent) + Len(buffer)
    BY <1>1, <1>2, SendContinues
  <1>4. Done = RowStart(nr) /\ RowStart(nr)' = RowStart(nr)
    <2>1. nr \in Nat /\ nc \in Nat
      BY <1>1, FrameAssumption
    <2>2. RowStart(nr) \in Nat
      BY <2>1, RowStartStep
    <2> QED
      BY <1>1, <1>2, <2>2 DEF Done, RowStart
  <1>5. EndedIsWhole'
    BY <1>1, <1>2, <1>3, <1>4 DEF EndedIsWhole
  <1>6. buffer' \in Seq(Nat) /\ used' \in 0..(IF nc' = 0 THEN nr' ELSE Threshold)
    BY <1>1, <1>2, SizesAssumption, FrameAssumption
  <1> QED
    BY <1>2, <1>3, <1>5, <1>6
    DEF IInv, TypeOK, RawLengths, BufferInBounds, StrBufSize, EncodedInBounds, LoopInv

\* A failed last PQputCopyData changes nothing but the outcome.
LEMMA FinishFailsStep ==
  ASSUME IInv, FinishFails
  PROVE  IInv'
  <1>1. /\ pc' = "error"
        /\ UNCHANGED <<nr, nc, rawtext, i, j, buffer, used, bufsize, sent, encoded, high>>
    BY DEF FinishFails, frameVars
  <1> QED
    BY <1>1
    DEF IInv, TypeOK, RawLengths, BufferInBounds, StrBufSize, EncodedInBounds, LoopInv, EndedIsWhole

LEMMA StutterStep ==
  ASSUME IInv, UNCHANGED vars
  PROVE  IInv'
  <1>1. UNCHANGED <<nr, nc, rawtext, pc, i, j, buffer, used, bufsize, sent, encoded, high>>
    BY DEF vars, frameVars
  <1>2. Done' = Done /\ RowStart(nr)' = RowStart(nr)
    BY <1>1 DEF Done, RowStart
  <1> QED
    BY <1>1, <1>2
    DEF IInv, TypeOK, RawLengths, BufferInBounds, StrBufSize, EncodedInBounds, LoopInv, EndedIsWhole

LEMMA NextKeeps == IInv /\ [Next]_vars => IInv'
  <1>1. SUFFICES ASSUME IInv, [Next]_vars PROVE IInv'
    OBVIOUS
  <1>2. ASSUME NEW len \in Lengths, NEW escapes \in 0..len, StringCell(len, escapes)
        PROVE  IInv'
    BY <1>1, <1>2, LengthsAssumption, StringCellStep
  <1>3. ASSUME NEW n \in Lengths, PlainCell(n)
        PROVE  IInv'
    BY <1>1, <1>3, LengthsAssumption, PlainCellStep
  <1>4. CASE CellFails
    BY <1>1, <1>4, CellFailsStep
  <1>5. CASE EndRow
    BY <1>1, <1>5, EndRowStep
  <1>6. CASE Finish
    BY <1>1, <1>6, FinishStep
  <1>7. CASE FinishFails
    BY <1>1, <1>7, FinishFailsStep
  <1>8. CASE RawCell
    BY <1>1, <1>8, RawCellStep
  <1>9. CASE UNCHANGED vars
    BY <1>1, <1>9, StutterStep
  <1> QED
    BY <1>1, <1>2, <1>3, <1>4, <1>5, <1>6, <1>7, <1>8, <1>9 DEF Next

LEMMA IInvHolds == Spec => []IInv
  BY InitEstablishes, NextKeeps, PTL DEF Spec

-----------------------------------------------------------------------------
(* The theorems. *)

\* Every variable keeps its shape; between cells at most Threshold bytes wait.
THEOREM TypeCorrect == Spec => []TypeOK
  <1>1. IInv => TypeOK
    BY DEF IInv
  <1> QED
    BY <1>1, IInvHolds, PTL

\* CopyInDataframe never writes past the end of strBuf, whatever the cells: only the
\* newlines of a frame that has no cells, and StrBufSize rows, get there.
THEOREM BufferNeverOverflows == Spec => []BufferInBounds
  <1>1. IInv => BufferInBounds
    BY DEF IInv
  <1> QED
    BY <1>1, IInvHolds, PTL

\* The buffer EncodeElementSconn writes to is large enough for every string, and for
\* a raw column of as many bytes as it has at first.
THEOREM EncodingFits == Spec => []EncodedInBounds
  <1>1. IInv => EncodedInBounds
    BY DEF IInv
  <1> QED
    BY <1>1, IInvHolds, PTL

\* But for those two kinds of frame, nothing is written past the end of either buffer
\* of the copy.
THEOREM BuffersNeverOverflow == Spec => []BuffersInBounds
  <1>1. BufferInBounds /\ EncodedInBounds => BuffersInBounds
    BY DEF BuffersInBounds
  <1> QED
    BY <1>1, BufferNeverOverflows, EncodingFits, PTL

\* At every moment the server has been sent a prefix of the text of the frame.
THEOREM SentIsInOrder == Spec => []SentInOrder
  <1>1. IInv => InOrder(sent) /\ sent \in Seq(Nat)
    BY DEF IInv, TypeOK
  <1>2. IInv => SentInOrder
    BY <1>1 DEF InOrder, SentInOrder
  <1> QED
    BY <1>2, IInvHolds, PTL

\* PQputCopyEnd is called only once all of the frame has been sent.
THEOREM EndedSendsWholeFrame == Spec => []EndedIsWhole
  <1>1. IInv => EndedIsWhole
    BY DEF IInv
  <1> QED
    BY <1>1, IInvHolds, PTL

\* The server gets the text of the frame, in order, and all of it before the COPY
\* is ended.
THEOREM WholeFrameIsSent == Spec => []SentWholeInOrder
  <1>1. SentInOrder /\ EndedIsWhole => SentWholeInOrder
    BY DEF SentWholeInOrder
  <1> QED
    BY <1>1, SentIsInOrder, EndedSendsWholeFrame, PTL

-----------------------------------------------------------------------------
(* The text of a frame. *)

\* What occurs in strings, in the text or behind a backslash of it.
Alphabet ==
  Chars \union {"\\", "N", "\t", "\n", "\f", "\r", "BS", "VT", "b", "f", "n", "r", "t", "v"}

\* A non-empty set of natural numbers has a least element.
LEMMA LeastElement ==
  ASSUME NEW S \in SUBSET Nat, S # {}
  PROVE  \E m \in S : \A n \in S : m <= n
<1> DEFINE R == {ss \in Nat \X Nat : ss[1] < ss[2]}
<1>1. OpToRel(<, Nat) = R
  BY DEF OpToRel
<1>2. IsWellFoundedOn(R, Nat)
  BY <1>1, NatLessThanWellFounded
<1>3. \A m, n \in Nat : n < m => <<n, m>> \in R
  OBVIOUS
<1> HIDE DEF R
<1>4. PICK m \in S : \A n \in S : ~ (<<n, m>> \in R)
  BY <1>2, WFMin
<1>5. \A n \in S : m <= n
  <2> TAKE n \in S
  <2>1. m \in Nat /\ n \in Nat /\ ~(n < m)
    BY <1>3, <1>4
  <2> QED BY <2>1
<1> QED BY <1>5

-----------------------------------------------------------------------------
(* Loops over the characters of a sequence, which take states of S from    *)
(* one to the next by f.                                                   *)

Runs(f, first, cs, g) ==
  g[0] = first /\ \A k \in 1..Len(cs) : g[k] = f[g[k - 1]][cs[k]]

\* What a loop whose step is f on the states of S does.
Follows(S, f, first, cs, h) ==
  h[0] = first /\ \A k \in 1..Len(cs) : h[k - 1] \in S => h[k] = f[h[k - 1]][cs[k]]

LEMMA RunExists ==
  ASSUME NEW S, NEW A, NEW first \in S, NEW f \in [S -> [A -> S]], NEW cs \in Seq(A)
  PROVE  \E g \in [0..Len(cs) -> S] : Runs(f, first, cs, g)
<1> DEFINE n == Len(cs)
           Upto(m, g) == g[0] = first /\ \A k \in 1..m : g[k] = f[g[k - 1]][cs[k]]
           Bad == {m \in 0..n : ~ \E g \in [0..m -> S] : Upto(m, g)}
<1>1. n \in Nat /\ \A k \in 1..n : cs[k] \in A
  OBVIOUS
<1>2. Bad = {}
  <2> SUFFICES ASSUME Bad # {} PROVE FALSE
    OBVIOUS
  <2>1. PICK m \in Bad : \A j_1 \in Bad : m <= j_1
    <3>1. Bad \in SUBSET Nat
      BY <1>1
    <3> HIDE DEF Bad
    <3> QED BY <3>1, LeastElement
  <2>2. m \in 0..n /\ ~ \E g \in [0..m -> S] : Upto(m, g)
    OBVIOUS
  <2>3. CASE m = 0
    <3>1. [k \in 0..0 |-> first] \in [0..0 -> S] /\ Upto(0, [k \in 0..0 |-> first])
      OBVIOUS
    <3> QED BY <2>2, <2>3, <3>1
  <2>4. CASE m # 0
    <3>1. m \in Nat /\ m - 1 \in 0..n /\ m - 1 \notin Bad
      <4> HIDE DEF Bad
      <4> QED BY <1>1, <2>1, <2>2, <2>4
    <3>2. PICK g \in [0..m - 1 -> S] : Upto(m - 1, g)
      BY <3>1
    <3> DEFINE next == f[g[m - 1]][cs[m]]
               h == [k \in 0..m |-> IF k = m THEN next ELSE g[k]]
    <3>3. next \in S
      <4>1. g[m - 1] \in S /\ cs[m] \in A
        BY <1>1, <2>2, <2>4, <3>1
      <4> QED BY <4>1
    <3>4. h \in [0..m -> S]
      <4> HIDE DEF next
      <4> QED BY <3>1, <3>3
    <3>5. Upto(m, h)
      <4>1. h[m] = next /\ \A k \in 0..m - 1 : h[k] = g[k]
        BY <3>1
      <4>2. \A k \in 1..m : k - 1 \in 0..m - 1 /\ (k = m \/ (k \in 0..m - 1 /\ k \in 1..m - 1))
        BY <3>1
      <4>3. 0 \in 0..m - 1
        BY <2>4, <3>1
      <4> HIDE DEF h
      <4> QED BY <3>2, <4>1, <4>2, <4>3
    <3> QED BY <2>2, <3>4, <3>5
  <2> QED BY <2>3, <2>4
<1>3. \E g \in [0..n -> S] : Upto(n, g)
  <2>1. n \in 0..n /\ n \notin Bad
    <3> HIDE DEF Bad
    <3> QED BY <1>1, <1>2
  <2> QED BY <2>1
<1> QED BY <1>3 DEF Runs

\* All loops over cs, and those over sequences that begin with it, have the same
\* state after it.
LEMMA SameRun ==
  ASSUME NEW S, NEW f, NEW first, NEW cs, Len(cs) \in Nat,
         NEW g \in [0..Len(cs) -> S], Runs(f, first, cs, g),
         NEW h, Follows(S, f, first, cs, h)
  PROVE  h[Len(cs)] = g[Len(cs)]
<1> DEFINE n == Len(cs)
           Bad == {k \in 0..n : h[k] # g[k]}
<1>1. n \in Nat
  OBVIOUS
<1>2. Bad = {}
  <2> SUFFICES ASSUME Bad # {} PROVE FALSE
    OBVIOUS
  <2>1. PICK m \in Bad : \A j_1 \in Bad : m <= j_1
    <3>1. Bad \in SUBSET Nat
      BY <1>1
    <3> HIDE DEF Bad
    <3> QED BY <3>1, LeastElement
  <2>2. m \in 0..n /\ h[m] # g[m]
    OBVIOUS
  <2>3. m # 0
    BY <2>2 DEF Runs, Follows
  <2>4. m \in 1..n /\ m - 1 \in 0..n /\ m - 1 \notin Bad
    <3> HIDE DEF Bad
    <3> QED BY <1>1, <2>1, <2>2, <2>3
  <2>5. h[m - 1] = g[m - 1] /\ g[m - 1] \in S
    BY <2>4
  <2>6. h[m] = f[h[m - 1]][cs[m]]
    BY <2>4, <2>5 DEF Follows
  <2>7. g[m] = f[g[m - 1]][cs[m]]
    BY <2>4 DEF Runs
  <2> HIDE DEF Bad
  <2>8. h[m] = g[m]
    BY <2>5, <2>6, <2>7
  <2> QED BY <2>2, <2>8
<1>3. n \in 0..n /\ n \notin Bad
  <2> HIDE DEF Bad
  <2> QED BY <1>1, <1>2
<1> QED BY <1>3

\* So a loop is a function R of the sequence, which takes one step for each element.
IsStep(S, A, f, first) == first \in S /\ f \in [S -> [A -> S]]
IsLoop(S, A, f, first, R) ==
  /\ R \in [Seq(A) -> S] /\ R[<<>>] = first
  /\ \A cs \in Seq(A), c \in A : R[Append(cs, c)] = f[R[cs]][c]
  /\ \A cs \in Seq(A) : \A h : Follows(S, f, first, cs, h) => h[Len(cs)] = R[cs]

LEMMA LoopFunction ==
  ASSUME NEW S, NEW A, NEW f, NEW first, IsStep(S, A, f, first)
  PROVE  \E R : IsLoop(S, A, f, first, R)
<1>0. first \in S /\ f \in [S -> [A -> S]]
  BY DEF IsStep
<1> DEFINE Run(cs) == CHOOSE g \in [0..Len(cs) -> S] : Runs(f, first, cs, g)
           R == [cs \in Seq(A) |-> Run(cs)[Len(cs)]]
<1>1. ASSUME NEW cs \in Seq(A)
      PROVE  Run(cs) \in [0..Len(cs) -> S] /\ Runs(f, first, cs, Run(cs)) /\ Len(cs) \in Nat
  BY <1>0, RunExists
<1> HIDE DEF Run
<1>2. R \in [Seq(A) -> S]
  BY <1>1
<1>3. \A cs \in Seq(A) : R[cs] = Run(cs)[Len(cs)]
  OBVIOUS
<1>4. ASSUME NEW cs \in Seq(A), NEW h, Follows(S, f, first, cs, h)
      PROVE  h[Len(cs)] = R[cs]
  <2> DEFINE g == Run(cs)
  <2>1. g \in [0..Len(cs) -> S] /\ Runs(f, first, cs, g) /\ R[cs] = g[Len(cs)] /\ Len(cs) \in Nat
    BY <1>1, <1>3
  <2> HIDE DEF g, R
  <2>3. Follows(S, f, first, cs, h)
    BY <1>4
  <2>2. h[Len(cs)] = g[Len(cs)]
    BY <2>1, <2>3, SameRun
  <2> QED BY <2>1, <2>2
<1>5. R[<<>>] = first
  <2>1. <<>> \in Seq(A) /\ Len(<<>>) = 0
    OBVIOUS
  <2> QED BY <1>1, <1>3, <2>1 DEF Runs
<1>6. ASSUME NEW cs \in Seq(A), NEW c \in A PROVE R[Append(cs, c)] = f[R[cs]][c]
  <2> DEFINE ds == Append(cs, c)
             g == Run(ds)
             n == Len(cs)
  <2>1. /\ ds \in Seq(A) /\ Len(ds) = n + 1 /\ n \in Nat /\ ds[n + 1] = c
        /\ \A k \in 1..n : ds[k] = cs[k]
    OBVIOUS
  <2> HIDE DEF ds
  <2>2. Runs(f, first, ds, g)
    BY <1>1, <2>1
  <2> HIDE DEF g
  <2>3. Follows(S, f, first, cs, g)
    <3>1. \A k \in 1..n : k \in 1..Len(ds) /\ ds[k] = cs[k]
      BY <2>1
    <3> QED BY <2>2, <3>1 DEF Runs, Follows
  <2>4. g[n] = R[cs]
    BY <1>4, <2>3
  <2>5. g[n + 1] = f[g[n]][c]
    <3>1. n + 1 \in 1..Len(ds) /\ (n + 1) - 1 = n
      BY <2>1
    <3>2. g[n + 1] = f[g[(n + 1) - 1]][ds[n + 1]]
      BY <2>2, <3>1 DEF Runs
    <3> QED BY <2>1, <3>1, <3>2
  <2>6. R[ds] = g[n + 1]
    BY <1>3, <2>1 DEF g
  <2> QED BY <2>4, <2>5, <2>6 DEF ds
<1> HIDE DEF R
<1> QED BY <1>2, <1>4, <1>5, <1>6 DEF IsLoop

-----------------------------------------------------------------------------
(* Characters. *)

Special == {"BS", "\f", "\n", "\r", "\t", "VT"}

LEMMA Letters ==
  /\ DOMAIN Letter = Special
  /\ Letter["BS"] = "b" /\ Letter["\f"] = "f" /\ Letter["\n"] = "n"
  /\ Letter["\r"] = "r" /\ Letter["\t"] = "t" /\ Letter["VT"] = "v"
BY DEF Letter, Special

\* No two characters have the same letter.
LEMMA LettersDiffer ==
  \A c, d \in Special : Letter[c] = Letter[d] => c = d
BY Letters DEF Special

LEMMA UnletterLetter ==
  ASSUME NEW c \in Special
  PROVE  Unletter(Letter[c]) = c
<1>1. \A d \in DOMAIN Letter : Letter[d] = Letter[c] <=> d = c
  BY Letters, LettersDiffer
<1>2. c \in DOMAIN Letter
  BY Letters
<1> HIDE DEF Special
<1> QED BY <1>1, <1>2 DEF Unletter

\* A backslash and "N" stand for themselves behind a backslash.
LEMMA UnletterOther ==
  Unletter("\\") = "\\" /\ Unletter("N") = "N"
BY Letters DEF Unletter, Special

\* A character is written as it is, or as a backslash and what stands for it; a tab
\* and a newline are written as letters.
LEMMA EscapeForms ==
  ASSUME NEW c \in Chars
  PROVE  \/ Escape(c) = <<c>> /\ c \notin {"\\", "\t", "\n"}
         \/ \E l \in Alphabet : /\ Escape(c) = <<"\\", l>> /\ Unletter(l) = c
                                /\ l \notin {"\t", "\n"}
<1>1. CASE c \in Special
  <2> DEFINE l == Letter[c]
  <2>1. Escape(c) = <<"\\", l>>
    BY <1>1, Letters DEF Escape, Special
  <2>2. l \in {"b", "f", "n", "r", "t", "v"}
    BY <1>1, Letters DEF Special
  <2>3. Unletter(l) = c
    BY <1>1, UnletterLetter
  <2> HIDE DEF l
  <2>4. l \in Alphabet /\ l \notin {"\t", "\n"}
    BY <2>2 DEF Alphabet
  <2> QED BY <2>1, <2>3, <2>4
<1>2. CASE c = "\\"
  <2>1. Escape(c) = <<"\\", "\\">>
    BY <1>2, Letters DEF Escape, Special
  <2>2. "\\" \in Alphabet
    BY DEF Alphabet
  <2> QED BY <1>2, <2>1, <2>2, UnletterOther
<1>3. CASE c \notin Special /\ c # "\\"
  <2>1. Escape(c) = <<c>>
    BY <1>3, Letters DEF Escape
  <2>2. c \notin {"\\", "\t", "\n"}
    BY <1>3 DEF Special
  <2> QED BY <2>1, <2>2
<1> QED BY <1>1, <1>2, <1>3

LEMMA EscapeIsText ==
  \A c \in Chars : Escape(c) \in Seq(Alphabet)
<1> TAKE c \in Chars
<1>1. c \in Alphabet /\ "\\" \in Alphabet
  BY DEF Alphabet
<1>2. <<c>> \in Seq(Alphabet) /\ \A l \in Alphabet : <<"\\", l>> \in Seq(Alphabet)
  BY <1>1
<1> QED BY <1>2, EscapeForms

-----------------------------------------------------------------------------
(* The three loops. *)

\* What EncodeElementSconn writes for a longer string.
LEMMA EscapedSteps ==
  /\ Escaped(<<>>) = <<>>
  /\ \A s \in Seq(Chars), c \in Chars :
       Escaped(Append(s, c)) = Escaped(s) \o Escape(c)
  /\ \A s \in Seq(Chars) : Escaped(s) \in Seq(Alphabet)
<1> DEFINE S == Seq(Alphabet)
           f == [s \in S |-> [c \in Chars |-> s \o Escape(c)]]
<1>1. <<>> \in S /\ f \in [S -> [Chars -> S]]
  BY EscapeIsText
<1>2. \A s \in S, c \in Chars : f[s][c] = s \o Escape(c)
  OBVIOUS
<1> HIDE DEF S, f
<1>7. IsStep(S, Chars, f, <<>>)
  BY <1>1 DEF IsStep
<1>3. PICK R : IsLoop(S, Chars, f, <<>>, R)
  BY <1>7, LoopFunction
<1>4. ASSUME NEW cs \in Seq(Chars) PROVE Escaped(cs) = R[cs]
  <2> DEFINE n == Len(cs)
             Next1(s, k) == s \o Escape(cs[k])
             Loop(h) == h = [k \in 0..n |-> IF k = 0 THEN <<>> ELSE Next1(h[k - 1], k)]
             after == CHOOSE h : Loop(h)
  <2>1. n \in Nat /\ \A k \in 1..n : cs[k] \in Chars /\ k - 1 \in 0..n
    OBVIOUS
  <2>2. Escaped(cs) = after[n]
    BY DEF Escaped
  <2>3. PICK g \in [0..n -> S] : Runs(f, <<>>, cs, g)
    BY <1>1, RunExists
  <2>8. \A s \in S, k \in 1..n : f[s][cs[k]] = Next1(s, k)
    BY <1>2, <2>1
  <2> HIDE DEF n, Next1
  <2>4. g[0] = <<>> /\ \A k \in 1..n : g[k] = Next1(g[k - 1], k)
    BY <2>1, <2>3, <2>8 DEF Runs, n
  <2>5. Loop(g)
    BY <2>1, <2>3, <2>4
  <2>6. Loop(after)
    <3> HIDE DEF Loop
    <3> QED BY <2>5
  <2> HIDE DEF after
  <2>7. Follows(S, f, <<>>, cs, after)
    <3>1. after[0] = <<>> /\ \A k \in 1..n : after[k] = Next1(after[k - 1], k)
      BY <2>1, <2>6
    <3> QED BY <2>8, <3>1 DEF Follows, n
  <2> QED BY <1>3, <2>2, <2>7 DEF n, IsLoop
<1>5. \A cs \in Seq(Chars) : R[cs] \in S
  BY <1>3 DEF IsLoop
<1>6. <<>> \in Seq(Chars) /\ \A cs \in Seq(Chars), c \in Chars : Append(cs, c) \in Seq(Chars)
  OBVIOUS
<1>8. /\ R[<<>>] = <<>>
      /\ \A cs \in Seq(Chars), c \in Chars : R[Append(cs, c)] = R[cs] \o Escape(c)
  BY <1>2, <1>3, <1>5 DEF IsLoop
<1> QED BY <1>4, <1>5, <1>6, <1>8 DEF S

\* The states of a server that reads a field.
Reading == [out : Seq(Alphabet), esc : BOOLEAN]

LEMMA UnletterIsText ==
  \A c \in Alphabet : Unletter(c) \in Alphabet
<1> TAKE c \in Alphabet
<1>1. Special \subseteq Alphabet
  BY DEF Special, Alphabet
<1>2. Unletter(c) = c \/ Unletter(c) \in DOMAIN Letter
  BY DEF Unletter
<1> QED BY <1>1, <1>2, Letters

LEMMA UnescapeNextIsReading ==
  \A s \in Reading, c \in Alphabet : UnescapeNext(s, c) \in Reading
<1> TAKE s \in Reading, c \in Alphabet
<1>1. s.out \in Seq(Alphabet) /\ s.esc \in BOOLEAN /\ Unletter(c) \in Alphabet
  BY UnletterIsText DEF Reading
<1>2. \A x \in Alphabet : Append(s.out, x) \in Seq(Alphabet)
  BY <1>1
<1>3. CASE s.esc
  <2>1. UnescapeNext(s, c) = [out |-> Append(s.out, Unletter(c)), esc |-> FALSE]
    BY <1>3 DEF UnescapeNext
  <2> QED BY <1>1, <1>2, <2>1 DEF Reading
<1>4. CASE ~s.esc /\ c = "\\"
  <2>1. UnescapeNext(s, c) = [s EXCEPT !.esc = TRUE]
    BY <1>4 DEF UnescapeNext
  <2> QED BY <2>1 DEF Reading
<1>5. CASE ~s.esc /\ c # "\\"
  <2>1. UnescapeNext(s, c) = [s EXCEPT !.out = Append(@, c)]
    BY <1>5 DEF UnescapeNext
  <2> QED BY <1>2, <2>1 DEF Reading
<1> QED BY <1>3, <1>4, <1>5

LEMMA ReadingBegins == [out |-> <<>>, esc |-> FALSE] \in Reading
BY DEF Reading

\* What the server has of a field that is one character longer.
LEMMA UnescapedSteps ==
  /\ Unescaped(<<>>) = [out |-> <<>>, esc |-> FALSE]
  /\ \A s \in Seq(Alphabet), c \in Alphabet :
       Unescaped(Append(s, c)) = UnescapeNext(Unescaped(s), c)
  /\ \A s \in Seq(Alphabet) : Unescaped(s) \in Reading
<1> DEFINE first == [out |-> <<>>, esc |-> FALSE]
           f == [s \in Reading |-> [c \in Alphabet |-> UnescapeNext(s, c)]]
<1>1. first \in Reading /\ f \in [Reading -> [Alphabet -> Reading]]
  BY ReadingBegins, UnescapeNextIsReading
<1>2. \A s \in Reading, c \in Alphabet : f[s][c] = UnescapeNext(s, c)
  OBVIOUS
<1> HIDE DEF f
<1>3. IsStep(Reading, Alphabet, f, first)
  BY <1>1 DEF IsStep
<1>4. PICK R : IsLoop(Reading, Alphabet, f, first, R)
  BY <1>3, LoopFunction
<1>5. ASSUME NEW cs \in Seq(Alphabet) PROVE Unescaped(cs) = R[cs]
  <2> DEFINE n == Len(cs)
             Next1(s, k) == UnescapeNext(s, cs[k])
             Loop(h) == h = [k \in 0..n |-> IF k = 0 THEN first ELSE Next1(h[k - 1], k)]
             after == CHOOSE h : Loop(h)
  <2>1. n \in Nat /\ \A k \in 1..n : cs[k] \in Alphabet /\ k - 1 \in 0..n
    OBVIOUS
  <2>2. Unescaped(cs) = after[n]
    BY DEF Unescaped
  <2> HIDE DEF first
  <2>3. PICK g \in [0..n -> Reading] : Runs(f, first, cs, g)
    BY <1>1, RunExists
  <2>4. \A s \in Reading, k \in 1..n : f[s][cs[k]] = Next1(s, k)
    BY <1>2, <2>1
  <2> HIDE DEF n, Next1
  <2>5. g[0] = first /\ \A k \in 1..n : g[k] = Next1(g[k - 1], k)
    BY <2>1, <2>3, <2>4 DEF Runs, n
  <2>6. Loop(g)
    BY <2>1, <2>3, <2>5
  <2>7. Loop(after)
    <3> HIDE DEF Loop
    <3> QED BY <2>6
  <2> HIDE DEF after
  <2>8. after[0] = first /\ \A k \in 1..n : after[k] = Next1(after[k - 1], k)
    BY <2>1, <2>7
  <2>9. Follows(Reading, f, first, cs, after)
    BY <2>4, <2>8 DEF Follows, n
  <2> QED BY <1>4, <2>2, <2>9 DEF n, IsLoop
<1>6. \A cs \in Seq(Alphabet) : R[cs] \in Reading
  BY <1>4 DEF IsLoop
<1>7. <<>> \in Seq(Alphabet) /\ \A cs \in Seq(Alphabet), c \in Alphabet : Append(cs, c) \in Seq(Alphabet)
  OBVIOUS
<1>8. R[<<>>] = first /\ \A cs \in Seq(Alphabet), c \in Alphabet : R[Append(cs, c)] = UnescapeNext(R[cs], c)
  BY <1>2, <1>4, <1>6 DEF IsLoop
<1> QED BY <1>5, <1>6, <1>7, <1>8

\* Fields and the states of a server that reads the text of a COPY.
Fields == Seq(Alphabet) \union {NA}
Receiving == [rows : Seq(Seq(Fields)), row : Seq(Fields), raw : Seq(Alphabet)]

LEMMA FieldIsField ==
  \A raw \in Seq(Alphabet) : Field(raw) \in Fields
<1> TAKE raw \in Seq(Alphabet)
<1>1. Unescaped(raw) \in Reading
  BY UnescapedSteps
<1>2. Unescaped(raw).out \in Seq(Alphabet)
  BY <1>1 DEF Reading
<1> QED BY <1>2 DEF Field, Fields

LEMMA ReadNextIsReceiving ==
  \A s \in Receiving, c \in Alphabet : ReadNext(s, c) \in Receiving
<1> TAKE s \in Receiving, c \in Alphabet
<1>1. /\ s.rows \in Seq(Seq(Fields)) /\ s.row \in Seq(Fields) /\ s.raw \in Seq(Alphabet)
      /\ Field(s.raw) \in Fields /\ <<>> \in Seq(Fields) /\ <<>> \in Seq(Alphabet)
  BY FieldIsField DEF Receiving
<1> DEFINE row == Append(s.row, Field(s.raw))
           rows == Append(s.rows, row)
           raw == Append(s.raw, c)
<1>2. row \in Seq(Fields) /\ raw \in Seq(Alphabet)
  BY <1>1
<1> HIDE DEF row, raw
<1>3. rows \in Seq(Seq(Fields))
  BY <1>1, <1>2
<1> HIDE DEF rows
<1>4. CASE c = "\t"
  <2>1. ReadNext(s, c) = [s EXCEPT !.row = row, !.raw = <<>>]
    BY <1>4 DEF ReadNext, row
  <2> QED BY <1>1, <1>2, <2>1 DEF Receiving
<1>5. CASE c = "\n"
  <2>1. ReadNext(s, c) = [rows |-> rows, row |-> <<>>, raw |-> <<>>]
    BY <1>5 DEF ReadNext, row, rows
  <2> QED BY <1>1, <1>3, <2>1 DEF Receiving
<1>6. CASE c # "\t" /\ c # "\n"
  <2>1. ReadNext(s, c) = [s EXCEPT !.raw = raw]
    BY <1>6 DEF ReadNext, raw
  <2> QED BY <1>2, <2>1 DEF Receiving
<1> QED BY <1>4, <1>5, <1>6

LEMMA ReceivingBegins == [rows |-> <<>>, row |-> <<>>, raw |-> <<>>] \in Receiving
<1>1. <<>> \in Seq(Seq(Fields)) /\ <<>> \in Seq(Fields) /\ <<>> \in Seq(Alphabet)
  OBVIOUS
<1> QED BY <1>1 DEF Receiving

\* What the server has when one more character has come.
LEMMA ReadSteps ==
  /\ Read(<<>>) = [rows |-> <<>>, row |-> <<>>, raw |-> <<>>]
  /\ \A s \in Seq(Alphabet), c \in Alphabet :
       Read(Append(s, c)) = ReadNext(Read(s), c)
  /\ \A s \in Seq(Alphabet) : Read(s) \in Receiving
<1> DEFINE first == [rows |-> <<>>, row |-> <<>>, raw |-> <<>>]
           f == [s \in Receiving |-> [c \in Alphabet |-> ReadNext(s, c)]]
<1>1. first \in Receiving /\ f \in [Receiving -> [Alphabet -> Receiving]]
  BY ReceivingBegins, ReadNextIsReceiving
<1>2. \A s \in Receiving, c \in Alphabet : f[s][c] = ReadNext(s, c)
  OBVIOUS
<1> HIDE DEF f
<1>3. IsStep(Receiving, Alphabet, f, first)
  BY <1>1 DEF IsStep
<1>4. PICK R : IsLoop(Receiving, Alphabet, f, first, R)
  BY <1>3, LoopFunction
<1>5. ASSUME NEW cs \in Seq(Alphabet) PROVE Read(cs) = R[cs]
  <2> DEFINE n == Len(cs)
             Next1(s, k) == ReadNext(s, cs[k])
             Loop(h) == h = [k \in 0..n |-> IF k = 0 THEN first ELSE Next1(h[k - 1], k)]
             after == CHOOSE h : Loop(h)
  <2>1. n \in Nat /\ \A k \in 1..n : cs[k] \in Alphabet /\ k - 1 \in 0..n
    OBVIOUS
  <2>2. Read(cs) = after[n]
    BY DEF Read
  <2> HIDE DEF first
  <2>3. PICK g \in [0..n -> Receiving] : Runs(f, first, cs, g)
    BY <1>1, RunExists
  <2>4. \A s \in Receiving, k \in 1..n : f[s][cs[k]] = Next1(s, k)
    BY <1>2, <2>1
  <2> HIDE DEF n, Next1
  <2>5. g[0] = first /\ \A k \in 1..n : g[k] = Next1(g[k - 1], k)
    BY <2>1, <2>3, <2>4 DEF Runs, n
  <2>6. Loop(g)
    BY <2>1, <2>3, <2>5
  <2>7. Loop(after)
    <3> HIDE DEF Loop
    <3> QED BY <2>6
  <2> HIDE DEF after
  <2>8. after[0] = first /\ \A k \in 1..n : after[k] = Next1(after[k - 1], k)
    BY <2>1, <2>7
  <2>9. Follows(Receiving, f, first, cs, after)
    BY <2>4, <2>8 DEF Follows, n
  <2> QED BY <1>4, <2>2, <2>9 DEF n, IsLoop
<1>6. \A cs \in Seq(Alphabet) : R[cs] \in Receiving
  BY <1>4 DEF IsLoop
<1>7. <<>> \in Seq(Alphabet) /\ \A cs \in Seq(Alphabet), c \in Alphabet : Append(cs, c) \in Seq(Alphabet)
  OBVIOUS
<1>8. R[<<>>] = first /\ \A cs \in Seq(Alphabet), c \in Alphabet : R[Append(cs, c)] = ReadNext(R[cs], c)
  BY <1>2, <1>4, <1>6 DEF IsLoop
<1> QED BY <1>5, <1>6, <1>7, <1>8

-----------------------------------------------------------------------------
(* A field is read back as the cell it was written for. *)

Plain(e) == \A k \in 1..Len(e) : e[k] \notin {"\t", "\n"}
ReadBack(s) ==
  /\ Unescaped(Escaped(s)) = [out |-> s, esc |-> FALSE]
  /\ Plain(Escaped(s))

LEMMA PlainAppend ==
  ASSUME NEW e \in Seq(Alphabet), Plain(e), NEW c \in Alphabet, c \notin {"\t", "\n"}
  PROVE  Append(e, c) \in Seq(Alphabet) /\ Plain(Append(e, c))
<1>1. /\ Append(e, c) \in Seq(Alphabet) /\ Len(Append(e, c)) = Len(e) + 1 /\ Len(e) \in Nat
      /\ Append(e, c)[Len(e) + 1] = c /\ \A k \in 1..Len(e) : Append(e, c)[k] = e[k]
  OBVIOUS
<1>2. \A k \in 1..Len(e) + 1 : k = Len(e) + 1 \/ k \in 1..Len(e)
  BY <1>1
<1> QED BY <1>1, <1>2 DEF Plain

LEMMA OneMoreReadBack ==
  ASSUME NEW s \in Seq(Chars), NEW c \in Chars, ReadBack(s)
  PROVE  ReadBack(Append(s, c))
<1> DEFINE e == Escaped(s)
           t == Append(s, c)
           d == Escaped(t)
<1>1. e \in Seq(Alphabet) /\ d = e \o Escape(c)
  BY EscapedSteps
<1>2. Unescaped(e) = [out |-> s, esc |-> FALSE] /\ Plain(e)
  BY DEF ReadBack
<1>3. c \in Alphabet /\ "\\" \in Alphabet
  BY DEF Alphabet
<1> HIDE DEF e, d, t
<1>4. CASE Escape(c) = <<c>> /\ c \notin {"\\", "\t", "\n"}
  <2>1. d = Append(e, c)
    BY <1>1, <1>3, <1>4
  <2>2. Plain(d)
    BY <1>1, <1>2, <1>3, <1>4, <2>1, PlainAppend
  <2>3. Unescaped(d) = UnescapeNext([out |-> s, esc |-> FALSE], c)
    BY <1>1, <1>2, <1>3, <2>1, UnescapedSteps
  <2>4. Unescaped(d) = [out |-> t, esc |-> FALSE]
    BY <1>4, <2>3 DEF UnescapeNext, t
  <2> QED BY <2>2, <2>4 DEF ReadBack, d, t
<1>5. ASSUME NEW l \in Alphabet, Escape(c) = <<"\\", l>>, Unletter(l) = c,
             l \notin {"\t", "\n"}
      PROVE  ReadBack(t)
  <2> DEFINE b == Append(e, "\\")
  <2>1. b \in Seq(Alphabet) /\ Plain(b)
    BY <1>1, <1>2, <1>3, PlainAppend
  <2>2. d = Append(b, l)
    BY <1>1, <1>3, <1>5
  <2>3. Unescaped(b) = UnescapeNext([out |-> s, esc |-> FALSE], "\\")
    BY <1>1, <1>2, <1>3, UnescapedSteps
  <2>4. Unescaped(b) = [out |-> s, esc |-> TRUE]
    BY <2>3 DEF UnescapeNext
  <2> HIDE DEF b
  <2>5. Plain(d)
    BY <1>5, <2>1, <2>2, PlainAppend
  <2>6. Unescaped(d) = UnescapeNext([out |-> s, esc |-> TRUE], l)
    BY <1>5, <2>1, <2>2, <2>4, UnescapedSteps
  <2>7. Unescaped(d) = [out |-> t, esc |-> FALSE]
    BY <1>5, <2>6 DEF UnescapeNext, t
  <2> QED BY <2>5, <2>7 DEF ReadBack, d
<1> QED BY <1>4, <1>5, EscapeForms DEF t

\* By length: a shortest string that is not read back is not empty and has a longest
\* proper prefix, which is read back.
LEMMA StringsReadBack ==
  ASSUME NEW s \in Seq(Chars)
  PROVE  ReadBack(s)
<1> DEFINE Bad == {m \in Nat : \E u \in Seq(Chars) : Len(u) = m /\ ~ReadBack(u)}
<1>1. Bad = {}
  <2> SUFFICES ASSUME Bad # {} PROVE FALSE
    OBVIOUS
  <2>1. PICK m \in Bad : \A k \in Bad : m <= k
    <3>1. Bad \in SUBSET Nat
      OBVIOUS
    <3> HIDE DEF Bad
    <3> QED BY <3>1, LeastElement
  <2>2. PICK u \in Seq(Chars) : Len(u) = m /\ ~ReadBack(u)
    OBVIOUS
  <2>3. m \in Nat
    OBVIOUS
  <2>4. CASE m = 0
    <3>1. u = <<>>
      BY <2>2, <2>4
    <3>2. ReadBack(<<>>)
      <4>1. Escaped(<<>>) = <<>> /\ Unescaped(<<>>) = [out |-> <<>>, esc |-> FALSE]
        BY EscapedSteps, UnescapedSteps
      <4> QED BY <4>1 DEF ReadBack, Plain
    <3> QED BY <2>2, <3>1, <3>2
  <2>5. CASE m # 0
    <3> DEFINE v == SubSeq(u, 1, m - 1)
    <3>1. /\ v \in Seq(Chars) /\ Len(v) = m - 1 /\ m - 1 \in Nat
          /\ u[m] \in Chars /\ u = Append(v, u[m])
      BY <2>2, <2>3, <2>5
    <3> HIDE DEF v
    <3>2. m - 1 \notin Bad
      <4> HIDE DEF Bad
      <4> QED BY <2>1, <2>3
    <3>3. ReadBack(v)
      BY <3>1, <3>2
    <3>4. ReadBack(Append(v, u[m]))
      BY <3>1, <3>3, OneMoreReadBack
    <3> QED BY <2>2, <3>1, <3>4
  <2> QED BY <2>4, <2>5
<1>2. Len(s) \in Nat /\ Len(s) \notin Bad
  BY <1>1
<1> QED BY <1>2

LEMMA TwoCharacters ==
  ASSUME NEW S, NEW a \in S, NEW b \in S
  PROVE  Append(<<a>>, b) = <<a, b>>
<1> DEFINE x == Append(<<a>>, b)
           y == <<a, b>>
<1>1. x \in Seq(S) /\ Len(x) = 2 /\ x[1] = a /\ x[2] = b
  OBVIOUS
<1>2. y \in Seq(S) /\ Len(y) = 2 /\ y[1] = a /\ y[2] = b
  OBVIOUS
<1> HIDE DEF x, y
<1>3. \A k \in 1..Len(x) : k = 1 \/ k = 2
  BY <1>1
<1>4. x = y
  BY <1>1, <1>2, <1>3, SeqEqual
<1> QED BY <1>4 DEF x, y

\* Every string is read back from its field as it was, whatever its characters, and
\* so is NA, from which every string differs.
THEOREM FieldsAreReadBack ==
  ASSUME NAAssumption, NEW cell \in Seq(Chars) \union {NA}
  PROVE  /\ Field(EncodeElement(cell)) = cell
         /\ EncodeElement(cell) \in Seq(Alphabet) /\ Plain(EncodeElement(cell))
<1>1. CASE cell = NA
  <2>1. EncodeElement(cell) = <<"\\", "N">>
    BY <1>1 DEF EncodeElement
  <2>2. "\\" \in Alphabet /\ "N" \in Alphabet
    BY DEF Alphabet
  <2>3. <<"\\", "N">> \in Seq(Alphabet) /\ Plain(<<"\\", "N">>)
    BY <2>2 DEF Plain
  <2> QED BY <1>1, <2>1, <2>3 DEF Field
<1>2. CASE cell \in Seq(Chars)
  <2> DEFINE e == Escaped(cell)
  <2>1. cell # NA /\ EncodeElement(cell) = e
    BY <1>2 DEF NAAssumption, EncodeElement
  <2>2. Unescaped(e) = [out |-> cell, esc |-> FALSE] /\ Plain(e) /\ e \in Seq(Alphabet)
    BY <1>2, StringsReadBack, EscapedSteps DEF ReadBack
  <2>3. e # <<"\\", "N">>
    <3> SUFFICES ASSUME e = <<"\\", "N">> PROVE FALSE
      OBVIOUS
    <3>1. "\\" \in Alphabet /\ "N" \in Alphabet /\ <<>> \in Seq(Alphabet)
      BY DEF Alphabet
    <3>2. Unescaped(<<"\\">>) = UnescapeNext([out |-> <<>>, esc |-> FALSE], "\\")
      <4>1. Append(<<>>, "\\") = <<"\\">>
        OBVIOUS
      <4> QED BY <3>1, <4>1, UnescapedSteps
    <3>3. Unescaped(<<"\\">>) = [out |-> <<>>, esc |-> TRUE]
      BY <3>2 DEF UnescapeNext
    <3>4. Unescaped(e) = UnescapeNext([out |-> <<>>, esc |-> TRUE], "N")
      <4>1. Append(<<"\\">>, "N") = <<"\\", "N">>
        BY <3>1, TwoCharacters
      <4>2. <<"\\">> \in Seq(Alphabet)
        BY <3>1
      <4> QED BY <3>1, <3>3, <4>1, <4>2, UnescapedSteps
    <3>5. Unescaped(e).out = Append(<<>>, "N")
      BY <3>4, UnletterOther DEF UnescapeNext
    <3>6. cell = Append(<<>>, "N")
      <4>1. Unescaped(e).out = cell
        BY <2>2
      <4> QED BY <3>5, <4>1
    <3>7. "N" \in Chars /\ <<>> \in Seq(Chars)
      BY <1>2, <3>6
    <3>8. e = <<>> \o Escape("N")
      BY <3>6, <3>7, EscapedSteps
    <3>9. Escape("N") = <<"N">>
      BY Letters DEF Escape, Special
    <3> QED BY <3>8, <3>9
  <2> QED BY <2>1, <2>2, <2>3 DEF Field
<1> QED BY <1>1, <1>2

-----------------------------------------------------------------------------
(* The text of rows. *)

LEMMA OneMore ==
  ASSUME NEW S, NEW q \in Seq(S), NEW k \in Nat, k < Len(q)
  PROVE  Append(SubSeq(q, 1, k), q[k + 1]) = SubSeq(q, 1, k + 1)
<1> DEFINE x == Append(SubSeq(q, 1, k), q[k + 1])
           y == SubSeq(q, 1, k + 1)
<1>1. SubSeq(q, 1, k) \in Seq(S) /\ Len(SubSeq(q, 1, k)) = k /\ q[k + 1] \in S
  OBVIOUS
<1>2. x \in Seq(S) /\ Len(x) = k + 1 /\ x[k + 1] = q[k + 1] /\ \A m \in 1..k : x[m] = q[m]
  BY <1>1
<1>3. y \in Seq(S) /\ Len(y) = k + 1 /\ \A m \in 1..k + 1 : y[m] = q[m]
  OBVIOUS
<1> HIDE DEF x, y
<1>4. \A m \in 1..k + 1 : m = k + 1 \/ m \in 1..k
  OBVIOUS
<1>5. x = y
  BY <1>2, <1>3, <1>4, SeqEqual
<1> QED BY <1>5 DEF x, y

LEMMA ConcatAppend ==
  ASSUME NEW S, NEW s \in Seq(S), NEW v \in Seq(S), NEW c \in S
  PROVE  s \o Append(v, c) = Append(s \o v, c)
<1> DEFINE x == s \o Append(v, c)
           y == Append(s \o v, c)
           n == Len(s) + Len(v)
<1>1. /\ x \in Seq(S) /\ Len(x) = n + 1 /\ n \in Nat /\ x[n + 1] = c
      /\ \A m \in 1..n : x[m] = (s \o v)[m]
  OBVIOUS
<1>2. /\ y \in Seq(S) /\ Len(y) = n + 1 /\ y[n + 1] = c
      /\ \A m \in 1..n : y[m] = (s \o v)[m]
  OBVIOUS
<1> HIDE DEF x, y, n
<1>3. \A m \in 1..n + 1 : m = n + 1 \/ m \in 1..n
  BY <1>1
<1>4. x = y
  BY <1>1, <1>2, <1>3, SeqEqual
<1> QED BY <1>4 DEF x, y

\* Text without separators belongs to the field that is being read.
Longer(s, e) ==
  /\ Read(s \o e).rows = Read(s).rows
  /\ Read(s \o e).row = Read(s).row
  /\ Read(s \o e).raw = Read(s).raw \o e

LEMMA PlainIsOneField ==
  ASSUME NEW s \in Seq(Alphabet), NEW e \in Seq(Alphabet), Plain(e)
  PROVE  Longer(s, e)
<1> DEFINE Bad == {m \in Nat : \E u \in Seq(Alphabet) : Len(u) = m /\ Plain(u) /\ ~Longer(s, u)}
<1>0. Read(s) \in Receiving /\ Read(s).raw \in Seq(Alphabet)
  BY ReadSteps DEF Receiving
<1>1. Bad = {}
  <2> SUFFICES ASSUME Bad # {} PROVE FALSE
    OBVIOUS
  <2>1. PICK m \in Bad : \A k \in Bad : m <= k
    <3>1. Bad \in SUBSET Nat
      OBVIOUS
    <3> HIDE DEF Bad
    <3> QED BY <3>1, LeastElement
  <2>2. PICK u \in Seq(Alphabet) : Len(u) = m /\ Plain(u) /\ ~Longer(s, u)
    OBVIOUS
  <2>3. m \in Nat
    OBVIOUS
  <2>4. CASE m = 0
    <3>1. u = <<>> /\ s \o <<>> = s /\ Read(s).raw \o <<>> = Read(s).raw
      BY <1>0, <2>2, <2>4
    <3> QED BY <2>2, <3>1 DEF Longer
  <2>5. CASE m # 0
    <3> DEFINE v == SubSeq(u, 1, m - 1)
               c == u[m]
    <3>1. /\ v \in Seq(Alphabet) /\ Len(v) = m - 1 /\ m - 1 \in Nat /\ c \in Alphabet
          /\ u = Append(v, c) /\ \A k \in 1..m - 1 : v[k] = u[k]
      BY <2>2, <2>3, <2>5
    <3>2. c \notin {"\t", "\n"} /\ Plain(v)
      <4>1. m \in 1..Len(u) /\ \A k \in 1..Len(v) : k \in 1..Len(u) /\ v[k] = u[k]
        BY <2>2, <2>3, <2>5, <3>1
      <4> HIDE DEF v
      <4> QED BY <2>2, <4>1 DEF Plain
    <3> HIDE DEF v, c
    <3>3. m - 1 \notin Bad
      <4> HIDE DEF Bad
      <4> QED BY <2>1, <2>3
    <3>4. Longer(s, v)
      BY <3>1, <3>2, <3>3
    <3>5. s \o u = Append(s \o v, c) /\ Read(s).raw \o u = Append(Read(s).raw \o v, c)
      <4> DEFINE raw == Read(s).raw
      <4>1. raw \in Seq(Alphabet)
        BY <1>0
      <4> HIDE DEF raw
      <4>2. s \o Append(v, c) = Append(s \o v, c)
        BY <3>1, ConcatAppend
      <4>3. raw \o Append(v, c) = Append(raw \o v, c)
        BY <3>1, <4>1, ConcatAppend
      <4> QED BY <3>1, <4>2, <4>3 DEF raw
    <3>6. Read(s \o u) = ReadNext(Read(s \o v), c) /\ Read(s \o v) \in Receiving
      <4>1. s \o v \in Seq(Alphabet)
        BY <3>1
      <4> QED BY <3>1, <3>5, <4>1, ReadSteps
    <3> DEFINE r == Read(s \o v)
    <3>7. Read(s \o u) = [r EXCEPT !.raw = Append(@, c)]
      BY <3>2, <3>6 DEF ReadNext
    <3>8. /\ Read(s \o u).rows = r.rows /\ Read(s \o u).row = r.row
          /\ Read(s \o u).raw = Append(r.raw, c)
      BY <3>6, <3>7 DEF Receiving
    <3>9. Longer(s, u)
      BY <3>4, <3>5, <3>8 DEF Longer
    <3> QED BY <2>2, <3>9
  <2> QED BY <2>4, <2>5
<1>2. Len(e) \in Nat /\ Len(e) \notin Bad
  BY <1>1
<1> QED BY <1>2

\* The server has read the rows before row rowsDone, of that row the cells before the last
\* one written, and of this one the text.
Frame == Seq(Seq(Seq(Chars) \union {NA}))
TextTypeOK ==
  /\ frame \in Frame /\ \A r \in 1..Len(frame) : Len(frame[r]) > 0
  /\ rowsDone \in 0..Len(frame) /\ cellsDone \in Nat /\ text \in Seq(Alphabet)
  /\ IF rowsDone < Len(frame) THEN cellsDone <= Len(frame[rowsDone + 1]) ELSE cellsDone = 0
RowsRead ==
  /\ Read(text).rows = SubSeq(frame, 1, rowsDone)
  /\ cellsDone = 0 => Read(text).row = <<>> /\ Read(text).raw = <<>>
  /\ cellsDone > 0 => /\ Read(text).row = SubSeq(frame[rowsDone + 1], 1, cellsDone - 1)
              /\ Read(text).raw = EncodeElement(frame[rowsDone + 1][cellsDone])
TextInv == TextTypeOK /\ RowsRead

LEMMA TextBegins ==
  ASSUME BoundsAssumption, TextInit
  PROVE  TextInv
<1>1. PICK rs \in 1..MaxCells, cs \in 1..MaxCells : frame \in Frames(rs, cs)
  BY DEF TextInit
<1>2. rs \in Nat /\ cs \in Nat /\ cs > 0 /\ MaxLen \in Nat
  BY DEF BoundsAssumption
<1>3. frame \in [1..rs -> [1..cs -> Cells]]
  BY <1>1 DEF Frames
<1> DEFINE C == Seq(Chars) \union {NA}
<1>4. Cells \subseteq C
  <2>1. \A k \in 0..MaxLen : [1..k -> Chars] \subseteq Seq(Chars)
    BY <1>2, SeqDef
  <2> QED BY <2>1 DEF Cells
<1> HIDE DEF C
<1>5. \A r \in 1..rs : frame[r] \in Seq(C) /\ Len(frame[r]) = cs
  <2> TAKE r \in 1..rs
  <2>1. frame[r] \in [1..cs -> C]
    BY <1>3, <1>4
  <2> QED BY <1>2, <2>1, SeqDef
<1>6. frame \in Seq(Seq(C)) /\ Len(frame) = rs
  <2>1. frame \in [1..rs -> Seq(C)]
    BY <1>3, <1>5
  <2> QED BY <1>2, <2>1, SeqDef
<1>7. rowsDone = 0 /\ cellsDone = 0 /\ text = <<>>
  BY DEF TextInit
<1>8. TextTypeOK
  <2>1. 0 \in 0..Len(frame) /\ <<>> \in Seq(Alphabet)
    BY <1>2, <1>6
  <2>2. rowsDone < Len(frame) => 0 <= Len(frame[rowsDone + 1])
    BY <1>2, <1>5, <1>6, <1>7
  <2> QED BY <1>2, <1>5, <1>6, <1>7, <2>1, <2>2 DEF TextTypeOK, Frame, C
<1>9. RowsRead
  <2>1. Read(text) = [rows |-> <<>>, row |-> <<>>, raw |-> <<>>]
    BY <1>7, ReadSteps
  <2>2. SubSeq(frame, 1, rowsDone) = <<>>
    BY <1>6, <1>7
  <2>3. Read(text).rows = <<>> /\ Read(text).row = <<>> /\ Read(text).raw = <<>>
    BY <2>1
  <2>4. ~(cellsDone > 0)
    BY <1>7
  <2> QED BY <2>2, <2>3, <2>4 DEF RowsRead
<1> QED BY <1>8, <1>9 DEF TextInv

LEMMA CellIsRead ==
  ASSUME NAAssumption, TextInv, WriteCellText
  PROVE  TextInv'
<1> DEFINE C == Seq(Chars) \union {NA}
           q == frame[rowsDone + 1]
           cell == q[cellsDone + 1]
           e == EncodeElement(cell)
           t == text \o (IF cellsDone > 0 THEN <<"\t">> ELSE <<>>)
           r == Read(text)
<1>1. /\ rowsDone \in Nat /\ rowsDone < Len(frame)
      /\ cellsDone \in Nat /\ cellsDone < Len(q)
      /\ frame \in Seq(Seq(C)) /\ text \in Seq(Alphabet)
  BY DEF TextInv, TextTypeOK, Frame, WriteCellText
<1>2. rowsDone' = rowsDone /\ frame' = frame /\ cellsDone' = cellsDone + 1 /\ text' = t \o e
  BY DEF WriteCellText
<1>3. rowsDone + 1 \in 1..Len(frame) /\ q \in Seq(C) /\ Len(q) \in Nat
  BY <1>1
<1>4. cell \in C /\ cellsDone + 1 <= Len(q) /\ (cellsDone > 0 => q[cellsDone] \in C)
  <2> HIDE DEF q, C
  <2> QED BY <1>1, <1>3
<1>5. e \in Seq(Alphabet) /\ Plain(e)
  BY <1>4, FieldsAreReadBack
<1>6. /\ r \in Receiving /\ r.rows = SubSeq(frame, 1, rowsDone)
      /\ cellsDone = 0 => r.row = <<>> /\ r.raw = <<>>
      /\ cellsDone > 0 => r.row = SubSeq(q, 1, cellsDone - 1) /\ r.raw = EncodeElement(q[cellsDone])
  BY <1>1, ReadSteps DEF TextInv, RowsRead
<1>7. cellsDone > 0 => Field(r.raw) = q[cellsDone]
  BY <1>4, <1>6, FieldsAreReadBack
<1> HIDE DEF e, cell, r
<1>8. /\ t \in Seq(Alphabet) /\ Read(t).rows = SubSeq(frame, 1, rowsDone)
      /\ Read(t).row = SubSeq(q, 1, cellsDone) /\ Read(t).raw = <<>>
  <2>1. CASE cellsDone = 0
    <3>1. t = text /\ SubSeq(q, 1, 0) = <<>>
      BY <1>1, <1>3, <2>1
    <3> QED BY <1>1, <1>6, <2>1, <3>1 DEF r
  <2>2. CASE cellsDone > 0
    <3>1. "\t" \in Alphabet /\ t = Append(text, "\t")
      BY <1>1, <2>2 DEF Alphabet
    <3>2. t \in Seq(Alphabet)
      BY <1>1, <3>1
    <3> HIDE DEF t
    <3>3. Read(t) = ReadNext(r, "\t")
      BY <1>1, <3>1, ReadSteps DEF r
    <3>4. Read(t) = [r EXCEPT !.row = Append(r.row, Field(r.raw)), !.raw = <<>>]
      BY <3>3 DEF ReadNext
    <3>5. Append(r.row, Field(r.raw)) = SubSeq(q, 1, cellsDone)
      <4>1. cellsDone - 1 \in Nat /\ cellsDone - 1 < Len(q) /\ (cellsDone - 1) + 1 = cellsDone
        BY <1>1, <1>3, <2>2
      <4> HIDE DEF q, C
      <4>2. Append(SubSeq(q, 1, cellsDone - 1), q[(cellsDone - 1) + 1]) = SubSeq(q, 1, (cellsDone - 1) + 1)
        BY <1>3, <4>1, OneMore
      <4> QED BY <1>6, <1>7, <2>2, <4>1, <4>2
    <3>6. Read(t).rows = r.rows /\ Read(t).row = SubSeq(q, 1, cellsDone) /\ Read(t).raw = <<>>
      BY <1>6, <3>4, <3>5 DEF Receiving
    <3> QED BY <1>6, <3>2, <3>6
  <2>3. cellsDone = 0 \/ cellsDone > 0
    BY <1>1
  <2> HIDE DEF t, q, r
  <2> QED BY <2>1, <2>2, <2>3
<1> HIDE DEF t, q
<1>9. /\ Read(text').rows = SubSeq(frame, 1, rowsDone) /\ Read(text').row = SubSeq(q, 1, cellsDone)
      /\ Read(text').raw = e
  <2>1. Longer(t, e)
    BY <1>5, <1>8, PlainIsOneField
  <2>2. <<>> \o e = e
    BY <1>5
  <2> QED BY <1>2, <1>8, <2>1, <2>2 DEF Longer
<1>10. text' \in Seq(Alphabet)
  BY <1>2, <1>5, <1>8
<1>11. TextTypeOK'
  BY <1>1, <1>2, <1>4, <1>10 DEF TextInv, TextTypeOK, q
<1>12. RowsRead'
  <2>1. cellsDone + 1 > 0 /\ (cellsDone + 1) - 1 = cellsDone /\ cellsDone + 1 # 0
    BY <1>1
  <2>2. q = frame'[rowsDone' + 1] /\ e = EncodeElement(q[cellsDone'])
    BY <1>2 DEF q, e, cell
  <2> QED BY <1>2, <1>9, <2>1, <2>2 DEF RowsRead
<1> QED BY <1>11, <1>12 DEF TextInv

LEMMA RowIsRead ==
  ASSUME NAAssumption, TextInv, EndRowText
  PROVE  TextInv'
<1> DEFINE C == Seq(Chars) \union {NA}
           q == frame[rowsDone + 1]
           r == Read(text)
<1>1. /\ rowsDone \in Nat /\ rowsDone < Len(frame)
      /\ cellsDone \in Nat /\ cellsDone = Len(q)
      /\ frame \in Seq(Seq(C)) /\ text \in Seq(Alphabet)
  BY DEF TextInv, TextTypeOK, Frame, EndRowText
<1>2. rowsDone' = rowsDone + 1 /\ frame' = frame /\ cellsDone' = 0 /\ text' = Append(text, "\n")
  BY DEF EndRowText
<1>3. rowsDone + 1 \in 1..Len(frame) /\ q \in Seq(C) /\ cellsDone > 0
  <2>1. rowsDone + 1 \in 1..Len(frame)
    BY <1>1
  <2> QED BY <1>1, <2>1 DEF TextInv, TextTypeOK
<1>4. q[cellsDone] \in C
  <2> HIDE DEF q, C
  <2> QED BY <1>1, <1>3
<1>5. /\ r \in Receiving /\ r.rows = SubSeq(frame, 1, rowsDone)
      /\ r.row = SubSeq(q, 1, cellsDone - 1) /\ r.raw = EncodeElement(q[cellsDone])
  BY <1>1, <1>3, ReadSteps DEF TextInv, RowsRead
<1>6. Field(r.raw) = q[cellsDone]
  BY <1>4, <1>5, FieldsAreReadBack
<1> HIDE DEF q, r
<1>7. Append(r.row, Field(r.raw)) = q
  <2>1. cellsDone - 1 \in Nat /\ cellsDone - 1 < Len(q) /\ (cellsDone - 1) + 1 = cellsDone
    BY <1>1, <1>3
  <2> HIDE DEF C
  <2>2. Append(SubSeq(q, 1, cellsDone - 1), q[(cellsDone - 1) + 1]) = SubSeq(q, 1, (cellsDone - 1) + 1)
    BY <1>3, <2>1, OneMore
  <2>3. SubSeq(q, 1, Len(q)) = q
    BY <1>3
  <2> QED BY <1>1, <1>5, <1>6, <2>1, <2>2, <2>3
<1>8. Append(SubSeq(frame, 1, rowsDone), q) = SubSeq(frame, 1, rowsDone + 1)
  <2> HIDE DEF C
  <2> QED BY <1>1, OneMore DEF q
<1>9. "\n" \in Alphabet
  BY DEF Alphabet
<1>10. Read(text') = ReadNext(r, "\n")
  BY <1>1, <1>2, <1>9, ReadSteps DEF r
<1>11. Read(text') = [rows |-> Append(r.rows, Append(r.row, Field(r.raw))),
                           row |-> <<>>, raw |-> <<>>]
  BY <1>10 DEF ReadNext
<1>12. /\ Read(text').rows = SubSeq(frame, 1, rowsDone + 1)
       /\ Read(text').row = <<>> /\ Read(text').raw = <<>>
  <2> DEFINE rows == Append(r.rows, Append(r.row, Field(r.raw)))
  <2>1. rows = Append(r.rows, q)
    BY <1>7
  <2>2. Append(r.rows, q) = SubSeq(frame, 1, rowsDone + 1)
    BY <1>5, <1>8
  <2>3. rows = SubSeq(frame, 1, rowsDone + 1)
    BY <2>1, <2>2
  <2>4. Read(text') = [rows |-> rows, row |-> <<>>, raw |-> <<>>]
    BY <1>11
  <2> HIDE DEF rows
  <2>5. Read(text').rows = rows
    BY <2>4
  <2>6. Read(text').row = <<>> /\ Read(text').raw = <<>>
    BY <2>4
  <2> QED BY <2>3, <2>5, <2>6
<1>13. RowsRead'
  <2>1. ~(cellsDone' > 0)
    BY <1>2
  <2> QED BY <1>2, <1>12, <2>1 DEF RowsRead
<1>14. TextTypeOK'
  <2>1. rowsDone + 1 \in 0..Len(frame) /\ text' \in Seq(Alphabet)
    BY <1>1, <1>2, <1>9
  <2>2. rowsDone + 1 < Len(frame) => 0 <= Len(frame[(rowsDone + 1) + 1])
    BY <1>1 DEF TextInv, TextTypeOK
  <2> QED BY <1>1, <1>2, <2>1, <2>2 DEF TextInv, TextTypeOK
<1> QED BY <1>13, <1>14 DEF TextInv

\* After every row the server reads from the text the rows written so far, for frames
\* of any size whose strings hold any characters.
THEOREM ServerReadsAllFrames == TextSpec => []ServerReadsTheFrame
<1>1. TextInit => TextInv
  BY NAAssumption, BoundsAssumption, TextBegins
<1>2. TextInv /\ [TextNext]_textVars => TextInv'
  <2> SUFFICES ASSUME TextInv, [TextNext]_textVars PROVE TextInv'
    OBVIOUS
  <2>1. CASE WriteCellText
    BY <2>1, NAAssumption, CellIsRead
  <2>2. CASE EndRowText
    BY <2>2, NAAssumption, RowIsRead
  <2>3. CASE UNCHANGED textVars
    BY <2>3 DEF textVars, TextInv, TextTypeOK, RowsRead
  <2> QED BY <2>1, <2>2, <2>3 DEF TextNext
<1>3. TextInv => ServerReadsTheFrame
  BY DEF TextInv, RowsRead, ServerReadsTheFrame
<1> QED BY <1>1, <1>2, <1>3, PTL DEF TextSpec
=============================================================================

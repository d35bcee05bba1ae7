------------------------------ MODULE CopyText ------------------------------
(***************************************************************************)
(* The text in which RS_PostgreSQL_CopyInDataframe writes a data frame of  *)
(* strings, and whether the server reads the same frame back from it: a    *)
(* string may hold the separators, backslashes, and what looks like NA.    *)
(***************************************************************************)
EXTENDS Integers, Sequences

CONSTANTS
  Chars,        \* the characters of strings
  MaxLen,       \* bound: characters of a cell
  MaxCells,     \* bound: cells of a frame
  NA            \* NA_character_

ASSUME BoundsAssumption == MaxLen \in Nat /\ MaxCells \in Nat \ {0}
ASSUME NAAssumption == NA \notin Seq(Chars)

VARIABLES
  frame,        \* the rows of the frame, each the sequence of its cells
  rowsDone,     \* i: rows written
  cellsDone,    \* j: cells of the current row written
  text          \* all that has been put in strBuf

textVars == <<frame, rowsDone, cellsDone, text>>

\* The characters EncodeElementSconn writes as a letter after a backslash.
Letter ==
  [c \in {"BS", "\f", "\n", "\r", "\t", "VT"} |->
     CASE c = "BS" -> "b" [] c = "\f" -> "f" [] c = "\n" -> "n"
       [] c = "\r" -> "r" [] c = "\t" -> "t" [] c = "VT" -> "v"]

\* Mutant: backslashes go out as they are.
Escape_BackslashKept(c) ==
  IF c \in DOMAIN Letter THEN <<"\\", Letter[c]>> ELSE <<c>>

Escape(c) ==
  CASE c \in DOMAIN Letter -> <<"\\", Letter[c]>>
    [] c = "\\" -> <<"\\", "\\">>
    [] OTHER -> <<c>>

\* A string, character by character.
Escaped(string) ==
  LET after[k \in 0..Len(string)] == IF k = 0 THEN <<>> ELSE after[k - 1] \o Escape(string[k])
  IN  after[Len(string)]

EncodeElement(cell) == IF cell = NA THEN <<"\\", "N">> ELSE Escaped(cell)

Cells == {NA} \union UNION {[1..n -> Chars] : n \in 0..MaxLen}

Frames(nr, nc) == [1..nr -> [1..nc -> Cells]]

TextInit ==
  /\ \E nr, nc \in 1..MaxCells : nr * nc <= MaxCells /\ frame \in Frames(nr, nc)
  /\ rowsDone = 0 /\ cellsDone = 0 /\ text = <<>>

WriteCellText ==
  /\ rowsDone < Len(frame) /\ cellsDone < Len(frame[rowsDone + 1])
  /\ text' = text \o (IF cellsDone > 0 THEN <<"\t">> ELSE <<>>)
                  \o EncodeElement(frame[rowsDone + 1][cellsDone + 1])
  /\ cellsDone' = cellsDone + 1
  /\ UNCHANGED <<frame, rowsDone>>

EndRowText ==
  /\ rowsDone < Len(frame) /\ cellsDone = Len(frame[rowsDone + 1])
  /\ text' = Append(text, "\n")
  /\ rowsDone' = rowsDone + 1 /\ cellsDone' = 0
  /\ UNCHANGED frame

TextNext == WriteCellText \/ EndRowText

TextSpec == TextInit /\ [][TextNext]_textVars

-----------------------------------------------------------------------------
(* COPY FROM STDIN in the server: raw tabs and newlines separate the fields, which
   are then compared with \N and freed of their backslashes. *)

Unletter(c) ==
  IF \E d \in DOMAIN Letter : Letter[d] = c
  THEN CHOOSE d \in DOMAIN Letter : Letter[d] = c
  ELSE c

\* [out |-> the characters so far, esc |-> a backslash came before]
UnescapeNext(s, c) ==
  CASE s.esc -> [out |-> Append(s.out, Unletter(c)), esc |-> FALSE]
    [] ~s.esc /\ c = "\\" -> [s EXCEPT !.esc = TRUE]
    [] OTHER -> [s EXCEPT !.out = Append(@, c)]
Unescaped(raw) ==
  LET after[k \in 0..Len(raw)] ==
        IF k = 0 THEN [out |-> <<>>, esc |-> FALSE] ELSE UnescapeNext(after[k - 1], raw[k])
  IN  after[Len(raw)]

Field(raw) == IF raw = <<"\\", "N">> THEN NA ELSE Unescaped(raw).out

\* [rows |-> the rows so far, row |-> the fields before this one, raw |-> its text]
ReadNext(s, c) ==
  CASE c = "\t" -> [s EXCEPT !.row = Append(@, Field(s.raw)), !.raw = <<>>]
    [] c = "\n" -> [rows |-> Append(s.rows, Append(s.row, Field(s.raw))), row |-> <<>>, raw |-> <<>>]
    [] OTHER -> [s EXCEPT !.raw = Append(@, c)]
Read(chars) ==
  LET after[k \in 0..Len(chars)] ==
        IF k = 0 THEN [rows |-> <<>>, row |-> <<>>, raw |-> <<>>] ELSE ReadNext(after[k - 1], chars[k])
  IN  after[Len(chars)]

-----------------------------------------------------------------------------
(* Properties. *)

\* After every row the server reads from the text the rows written so far: cells that
\* hold tabs, newlines or backslashes stay cells, and NA differs from every string.
ServerReadsTheFrame == cellsDone = 0 => Read(text).rows = SubSeq(frame, 1, rowsDone)
=============================================================================

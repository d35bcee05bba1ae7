------------------------------ MODULE Quoting ------------------------------
(***************************************************************************)
(* How libpq and RS-PQescape.c write strings, identifiers and bytea values *)
(* into statements, and read bytea values back. Strings are sequences of   *)
(* bytes in the client encoding.                                           *)
(***************************************************************************)
EXTENDS Encodings, SequencesExt

Blank == 32
DoubleQuote == 34
Quote == 39
Backslash == 92

Take(s, n) == SubSeq(s, 1, IF n < Len(s) THEN n ELSE Len(s))
Drop(s, n) == SubSeq(s, n + 1, Len(s))

\* A C string ends at its first NUL.
CString(s) == Take(s, (CHOOSE n \in 1..Len(s) + 1 : At(s, n) = 0 /\ 0 \notin {s[i] : i \in 1..n - 1}) - 1)

Doubled(s, special) == FlattenSeq([i \in DOMAIN s |-> IF s[i] \in special THEN <<s[i], s[i]>> ELSE <<s[i]>>])

-----------------------------------------------------------------------------
(* PQescapeStringConn *)

\* Mutant: the rest of a character is doubled like any other byte.
EscapeNext_BytewiseQuoted(from, encoding, std_strings, st) ==
  LET rest == Drop(CString(from), st.read)
      special == IF std_strings THEN {Quote} ELSE {Quote, Backslash}
  IN  IF rest = <<>> THEN st
      ELSE [st EXCEPT !.out = @ \o Doubled(Take(rest, 1), special), !.read = @ + 1]

\* One round of the loop: a character is copied, doubled if it is special; one cut off
\* by the end is padded, as far as the buffer of the caller goes, and ends the loop.
EscapeNext(from, encoding, std_strings, st) ==
  LET rest == Drop(CString(from), st.read)
      len == IF HighBit(rest[1]) THEN pg_encoding_mblen(encoding, rest) ELSE 1
      special == IF std_strings THEN {Quote} ELSE {Quote, Backslash}
      copied == IF HighBit(rest[1]) THEN Take(rest, len) ELSE Doubled(Take(rest, 1), special)
      room == 2 * Len(from) - Len(st.out) - Len(rest)
      pad == [i \in 1..(IF len - Len(rest) < room THEN len - Len(rest) ELSE room) |-> Blank]
  IN  IF rest = <<>> THEN st
      ELSE IF len <= Len(rest)
      THEN [st EXCEPT !.out = @ \o copied, !.read = @ + len]
      ELSE [out |-> st.out \o rest \o pad, read |-> Len(from), error |-> TRUE]

\* [out |-> the escaped string, error |-> an incomplete character was met]
PQescapeString(from, encoding, std_strings) ==
  FoldLeft(LAMBDA st, b : EscapeNext(from, encoding, std_strings, st),
           [out |-> <<>>, read |-> 0, error |-> FALSE], from)

-----------------------------------------------------------------------------
(* PQescapeLiteral and PQescapeIdentifier *)

\* The length mblen gives the first character, and the string cut at these lengths.
CharLen(encoding, s) == IF HighBit(s[1]) THEN pg_encoding_mblen(encoding, s) ELSE 1

ByMblen(encoding, s) ==
  LET from[i \in 1..Len(s) + 1] ==
        IF i > Len(s) THEN <<>>
        ELSE LET char == Take(Drop(s, i - 1), CharLen(encoding, Drop(s, i - 1)))
             IN  <<char>> \o from[i + Len(char)]
  IN  from[1]

\* The last character would go over the end, or over a NUL.
Incomplete(encoding, s) ==
  LET chars == ByMblen(encoding, s)
  IN  \E char \in Range(chars) : CharLen(encoding, char) > Len(char)

\* None if the string is refused, or the literal or identifier with its quotes.
PQescapeInternal(str, encoding, as_ident) ==
  LET s == CString(str)
      chars == ByMblen(encoding, s)
      mark == IF as_ident THEN DoubleQuote ELSE Quote
      special == IF as_ident THEN {mark} ELSE {mark, Backslash}
      body == FlattenSeq([i \in DOMAIN chars |-> IF HighBit(chars[i][1]) THEN chars[i]
                                                 ELSE Doubled(chars[i], special)])
      escapes == ~as_ident /\ <<Backslash>> \in Range(chars)
  IN  IF Incomplete(encoding, s) THEN {}
      ELSE {(IF escapes THEN <<Blank, 69>> ELSE <<>>) \o <<mark>> \o body \o <<mark>>}

-----------------------------------------------------------------------------
(* bytea *)

HexDigit(n) == IF n < 10 THEN 48 + n ELSE 87 + n

\* PQescapeByteaInternal: the text of one byte, and of a string of them.
EscapedByte(b, std_strings, use_hex) ==
  LET backslash == IF std_strings THEN <<Backslash>> ELSE <<Backslash, Backslash>>
  IN  CASE use_hex -> <<HexDigit(b \div 16), HexDigit(b % 16)>>
        [] ~use_hex /\ b \notin 32..126 ->
             backslash \o <<48 + (b \div 64), 48 + ((b \div 8) % 8), 48 + (b % 8)>>
        [] ~use_hex /\ b = Quote -> <<Quote, Quote>>
        [] ~use_hex /\ b = Backslash -> backslash \o backslash
        [] OTHER -> <<b>>

PQescapeBytea(from, std_strings, use_hex) ==
  (IF use_hex THEN (IF std_strings THEN <<Backslash>> ELSE <<Backslash, Backslash>>) \o <<120>>
   ELSE <<>>)
    \o FlattenSeq([i \in DOMAIN from |-> EscapedByte(from[i], std_strings, use_hex)])

\* What it asks malloc for: *to_length.
EscapedLength(from, std_strings, use_hex) ==
  LET bslash_len == IF std_strings THEN 1 ELSE 2
      of(b) == IF b \notin 32..126 THEN bslash_len + 3
               ELSE IF b = Quote THEN 2 ELSE IF b = Backslash THEN 2 * bslash_len ELSE 1
  IN  1 + (IF use_hex THEN bslash_len + 1 + 2 * Len(from)
           ELSE FoldLeft(LAMBDA n, b : n + of(b), 0, from))

\* get_hex: -1 for what is no digit.
get_hex(c) ==
  CASE c \in 48..57 -> c - 48 [] c \in 65..70 -> c - 55 [] c \in 97..102 -> c - 87
    [] OTHER -> -1

\* Pairs of digits; what is not a digit is passed over.
UnescapeHex(text) ==
  LET from[i \in 1..Len(text) + 2] ==
        IF i >= Len(text) THEN <<>>
        ELSE IF get_hex(text[i]) = -1 THEN from[i + 1]
        ELSE (IF get_hex(text[i + 1]) = -1 THEN <<>>
              ELSE <<get_hex(text[i]) * 16 + get_hex(text[i + 1])>>) \o from[i + 2]
  IN  from[3]

UnescapeTraditional(text) ==
  LET octal(i) == At(text, i) \in 48..51 /\ At(text, i + 1) \in 48..55 /\ At(text, i + 2) \in 48..55
      from[i \in 1..Len(text) + 1] ==
        CASE i > Len(text) -> <<>>
          [] i <= Len(text) /\ text[i] # Backslash -> <<text[i]>> \o from[i + 1]
          [] i <= Len(text) /\ text[i] = Backslash ->
               IF At(text, i + 1) = Backslash THEN <<Backslash>> \o from[i + 2]
               ELSE IF octal(i + 1)
               THEN <<(64 * (text[i + 1] - 48) + 8 * (text[i + 2] - 48) + text[i + 3] - 48) % 256>>
                      \o from[i + 4]
               ELSE from[i + 1]
  IN  from[1]

IsHex(text) == At(text, 1) = Backslash /\ At(text, 2) = 120

PQunescapeBytea(text) == IF IsHex(text) THEN UnescapeHex(text) ELSE UnescapeTraditional(text)

\* RS_PostgreSQL_unescape_bytea reads hex text by itself.
hex2n(h) == IF get_hex(h) = -1 THEN h ELSE get_hex(h)

RS_unescape_bytea(text) ==
  IF IsHex(text)
  THEN [i \in 1..(Len(text) \div 2) - 1 |->
          (((hex2n(At(text, 2 * i + 1)) * 16) % 256) + hex2n(At(text, 2 * i + 2))) % 256]
  ELSE PQunescapeBytea(text)

-----------------------------------------------------------------------------
(* The server: its lexer, on the characters of the text it was sent, and byteain. *)

\* [mode |-> where in the literal, escapes |-> backslashes escape, value |-> its bytes]
LexNext(mark, st, c) ==
  CASE st.mode = "before" /\ c = <<69>> -> [st EXCEPT !.escapes = TRUE]
    [] st.mode = "before" /\ c = <<mark>> -> [st EXCEPT !.mode = "in"]
    [] st.mode = "in" /\ c = <<mark>> -> [st EXCEPT !.mode = "mark"]
    [] st.mode = "in" /\ c = <<Backslash>> /\ st.escapes -> [st EXCEPT !.mode = "escape"]
    [] st.mode = "in" /\ c # <<mark>> /\ (c = <<Backslash>> => ~st.escapes) ->
         [st EXCEPT !.value = @ \o c]
    [] st.mode = "escape" -> [st EXCEPT !.mode = "in", !.value = @ \o c]
    [] st.mode = "mark" /\ c = <<mark>> -> [st EXCEPT !.mode = "in", !.value = @ \o c]
    [] st.mode = "mark" /\ c # <<mark>> -> [st EXCEPT !.mode = "behind"]
    [] OTHER -> st

\* The value of a literal or identifier that is the whole text, none if it is not one.
ServerReads(text, encoding, std_strings, as_ident) ==
  LET mark == IF as_ident THEN DoubleQuote ELSE Quote
      end == FoldLeft(LAMBDA st, c : LexNext(mark, st, c),
                      [mode |-> "before", escapes |-> ~as_ident /\ ~std_strings, value |-> <<>>],
                      Characters(encoding, text))
  IN  IF Valid(encoding, text) /\ end.mode = "mark" THEN {end.value} ELSE {}

\* byteain, and byteaout in either setting of bytea_output.
ByteaIn(text, major) ==
  IF major >= 9 /\ IsHex(text) THEN UnescapeHex(text) ELSE UnescapeTraditional(text)

ByteaOut(value, hex) ==
  IF hex THEN <<Backslash, 120>>
               \o FlattenSeq([i \in DOMAIN value |-> <<HexDigit(value[i] \div 16), HexDigit(value[i] % 16)>>])
  ELSE FlattenSeq([i \in DOMAIN value |->
         CASE value[i] = Backslash -> <<Backslash, Backslash>>
           [] value[i] \notin 32..126 ->
                <<Backslash, 48 + (value[i] \div 64), 48 + ((value[i] \div 8) % 8), 48 + (value[i] % 8)>>
           [] OTHER -> <<value[i]>>])
=============================================================================

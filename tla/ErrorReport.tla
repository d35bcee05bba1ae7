----------------------------- MODULE ErrorReport -----------------------------
(***************************************************************************)
(* The message of an error of the server (fe-protocol3.c): which of the    *)
(* fields it shows, and the line of the statement with a caret under the   *)
(* character the server points at. Widths are those of wchar.c; a width    *)
(* that is not positive is shown as one column.                            *)
(***************************************************************************)
EXTENDS Quoting

CONSTANTS
  DISPLAY_SIZE,    \* columns of the statement that are shown
  MIN_RIGHT_CUT    \* columns to keep to the right of the caret

LineFeed == 10
CarriageReturn == 13
Tab == 9

-----------------------------------------------------------------------------
(* Columns. *)

utf8_to_unicode(c) ==
  LET w == pg_utf2wchar(c).wide[1] IN w[2] * 65536 + w[3] * 256 + w[4]

ucs_wcwidth(ucs) ==
  IF /\ \/ ucs \in 4352..4447 \/ ucs \in 11904..42191 \/ ucs \in 44032..55203
        \/ ucs \in 63744..64255 \/ ucs \in 65072..65135 \/ ucs \in 65280..65375
        \/ ucs \in 65504..65510 \/ ucs \in 131072..196607
     /\ ucs \notin {12298, 12299, 12314, 12315, 12351}
  THEN 2 ELSE 1

pg_mule_dsplen(b) == IF LC2(b) \/ LCPRV2(b) THEN 2 ELSE 1

pg_sjis_dsplen(b) == IF HighBit(b) /\ b \notin 161..223 THEN 2 ELSE 1

pg_eucjp_dsplen(b) == IF HighBit(b) /\ b # SS2 THEN 2 ELSE 1

pg_euc_dsplen(b) == IF HighBit(b) THEN 2 ELSE 1

pg_encoding_dsplen(encoding, c) ==
  CASE encoding = "UTF8" -> ucs_wcwidth(utf8_to_unicode(c))
    [] encoding = "MULE_INTERNAL" -> pg_mule_dsplen(c[1])
    [] encoding = "SJIS" -> pg_sjis_dsplen(c[1])
    [] encoding = "EUC_JP" -> pg_eucjp_dsplen(c[1])
    [] encoding = "LATIN1" -> 1
    [] OTHER -> pg_euc_dsplen(c[1])

-----------------------------------------------------------------------------
(* reportErrorPosition. Characters are counted from 0; scridx[i + 1] is the column where
   character i starts, if nothing before it was cut. *)

EndsLine(c) == c \in {<<LineFeed>>, <<CarriageReturn>>}

\* Mutant: the columns are counted as if every character took one.
ScanNext_CharactersCounted(encoding, loc, st, c) ==
  IF st.iend # -1 THEN st
  ELSE IF EndsLine(c) /\ st.cno >= loc THEN [st EXCEPT !.iend = st.cno]
  ELSE [cno |-> st.cno + 1,
        scridx |-> Append(st.scridx, st.cno + 1),
        last |-> c,
        loc_line |-> IF EndsLine(c) /\ ~(c = <<LineFeed>> /\ st.last = <<CarriageReturn>>)
                     THEN st.loc_line + 1 ELSE st.loc_line,
        ibeg |-> IF EndsLine(c) THEN st.cno + 1 ELSE st.ibeg,
        iend |-> -1]

\* One round of the loop over the characters of the query.
ScanNext(encoding, loc, st, c) ==
  IF st.iend # -1 THEN st
  ELSE IF EndsLine(c) /\ st.cno >= loc THEN [st EXCEPT !.iend = st.cno]
  ELSE [cno |-> st.cno + 1,
        scridx |-> Append(st.scridx, st.scridx[st.cno + 1] + pg_encoding_dsplen(encoding, c)),
        last |-> c,
        loc_line |-> IF EndsLine(c) /\ ~(c = <<LineFeed>> /\ st.last = <<CarriageReturn>>)
                     THEN st.loc_line + 1 ELSE st.loc_line,
        ibeg |-> IF EndsLine(c) THEN st.cno + 1 ELSE st.ibeg,
        iend |-> -1]

Scanned(encoding, chars, loc) ==
  LET st == FoldLeft(LAMBDA x, c : ScanNext(encoding, loc, x, c),
                     [cno |-> 0, scridx |-> <<0>>, last |-> <<>>, loc_line |-> 1, ibeg |-> 0, iend |-> -1],
                     chars)
  IN  [st EXCEPT !.iend = IF @ = -1 THEN st.cno ELSE @]

\* The part of the line to show, with marks where it was cut.
Truncated(st, loc) ==
  LET column(i) == st.scridx[i + 1]
      ends(limit) == {i \in st.ibeg..st.iend : column(i) <= limit}
      byRight == Max(ends(column(st.ibeg) + DISPLAY_SIZE))
      iend == Max(ends(column(loc) + MIN_RIGHT_CUT))
      ibeg == Min({i \in st.ibeg..iend : column(iend) - column(i) <= DISPLAY_SIZE})
  IN  CASE column(st.iend) - column(st.ibeg) <= DISPLAY_SIZE ->
             [ibeg |-> st.ibeg, iend |-> st.iend, left |-> FALSE, right |-> FALSE]
        [] /\ column(st.iend) - column(st.ibeg) > DISPLAY_SIZE
           /\ column(st.ibeg) + DISPLAY_SIZE >= column(loc) + MIN_RIGHT_CUT ->
             [ibeg |-> st.ibeg, iend |-> byRight, left |-> FALSE, right |-> TRUE]
        [] OTHER ->
             [ibeg |-> ibeg, iend |-> iend, left |-> ibeg # st.ibeg, right |-> iend # st.iend]

\* The two lines of the display: the number and the text of the line, and how many columns
\* behind the start of the text the caret stands. Empty: nothing is shown.
reportErrorPosition(query, position, encoding) ==
  LET chars == ByMblen(encoding, query)
      loc == position - 1
      st == Scanned(encoding, chars, loc)
      part == Truncated(st, loc)
      shown(c) == IF c = <<Tab>> THEN <<Blank>> ELSE c
  IN  IF loc < 0 \/ loc > st.cno THEN {}
      ELSE {[line |-> st.loc_line,
             text |-> [i \in 1..part.iend - part.ibeg |-> shown(chars[part.ibeg + i])],
             left |-> part.left, right |-> part.right,
             caret |-> st.scridx[loc + 1] - st.scridx[part.ibeg + 1]]}

-----------------------------------------------------------------------------
(* pqBuildErrorMessage3: the parts of the message in their order. *)

\* fields: those the server sent; query: the result knows its statement; position: the
\* number in the field position or, without one, in internal_position.
pqBuildErrorMessage3(res, verbosity, show_context) ==
  LET given(names) == SelectSeq(names, LAMBDA n : n \in res.fields)
      terse == verbosity = "terse"
      verbose == verbosity = "verbose"
      pointed == CASE "position" \in res.fields -> res.query
                   [] "position" \notin res.fields /\ "internal_position" \in res.fields ->
                        "internal_query" \in res.fields
                   [] OTHER -> FALSE
      positioned == res.fields \cap {"position", "internal_position"} # {}
      context == show_context = "always" \/ (show_context = "errors" /\ res.fatal)
  IN  IF res.fields = {} THEN <<"base">>
      ELSE given(IF verbose THEN <<"severity", "sqlstate", "primary">> ELSE <<"severity", "primary">>)
             \o (IF positioned /\ (terse \/ ~pointed) THEN <<"at_character">> ELSE <<>>)
             \o (IF ~terse /\ pointed /\ res.position > 0 THEN <<"cursor">> ELSE <<>>)
             \o (IF terse THEN <<>> ELSE given(<<"detail", "hint", "internal_query">>))
             \o (IF ~terse /\ context THEN given(<<"context">>) ELSE <<>>)
             \o (IF verbose THEN given(<<"schema", "table", "column", "datatype", "constraint">>) ELSE <<>>)
             \o (IF verbose /\ "source" \in res.fields THEN <<"location">> ELSE <<>>)
=============================================================================

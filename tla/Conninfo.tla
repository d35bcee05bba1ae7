------------------------------ MODULE Conninfo ------------------------------
(***************************************************************************)
(* From what a caller gives, the service files, the environment and the    *)
(* password file to the settings of a connection (fe-connect.c).           *)
(*                                                                         *)
(* A string is a sequence of tokens: a character, or a word, of which only *)
(* equality matters. An option array is a function from the keywords that  *)
(* have a value to the values; a conversion that may be refused yields a   *)
(* set of at most one.                                                     *)
(***************************************************************************)
EXTENDS Integers, SequencesExt

Keywords == {"service", "user", "password", "host", "port", "dbname", "sslmode"}

\* PQconninfoOptions: the variable of the environment and the compiled-in value.
Variable ==
  [k \in Keywords |->
     CASE k = "service" -> "PGSERVICE" [] k = "user" -> "PGUSER"
       [] k = "password" -> "PGPASSWORD" [] k = "host" -> "PGHOST" [] k = "port" -> "PGPORT"
       [] k = "dbname" -> "PGDATABASE" [] k = "sslmode" -> "PGSSLMODE"]

Compiled == ("port" :> <<"5432">>) @@ ("sslmode" :> <<"prefer">>)

NoOptions == <<>>
IsBlank(c) == c \in {" ", "\n"}
First(s) == IF s = <<>> THEN "end" ELSE s[1]

\* The string up to the first of the given characters, that character, and what follows.
Cut(s, stops) ==
  LET at == SelectInSeq(s, LAMBDA c : c \in stops)
  IN  IF at = 0 THEN [head |-> s, at |-> "end", tail |-> <<>>]
      ELSE [head |-> SubSeq(s, 1, at - 1), at |-> s[at], tail |-> SubSeq(s, at + 1, Len(s))]

-----------------------------------------------------------------------------
(* URI decoding. *)

HexValue == [c \in {"0", "1", "2", "3", "4", "5", "6", "7", "8", "9", "A", "a", "B", "b",
                    "C", "c", "D", "d", "E", "e", "F", "f"} |->
  CASE c = "0" -> 0 [] c = "1" -> 1 [] c = "2" -> 2 [] c = "3" -> 3 [] c = "4" -> 4
    [] c = "5" -> 5 [] c = "6" -> 6 [] c = "7" -> 7 [] c = "8" -> 8 [] c = "9" -> 9
    [] c \in {"A", "a"} -> 10 [] c \in {"B", "b"} -> 11 [] c \in {"C", "c"} -> 12
    [] c \in {"D", "d"} -> 13 [] c \in {"E", "e"} -> 14 [] c \in {"F", "f"} -> 15]

\* ASCII, of the characters that mean something here.
Code == (" " :> 32) @@ ("%" :> 37) @@ ("&" :> 38) @@ ("'" :> 39) @@ ("*" :> 42) @@ ("/" :> 47)
          @@ (":" :> 58) @@ ("=" :> 61) @@ ("?" :> 63) @@ ("@" :> 64) @@ ("[" :> 91)
          @@ ("\\" :> 92) @@ ("]" :> 93)

conninfo_uri_decode(str) ==
  LET hex(i) == i <= Len(str) /\ str[i] \in DOMAIN HexValue
      byte(i) == 16 * HexValue[str[i]] + HexValue[str[i + 1]]
      from[i \in 1..Len(str) + 3] ==
        CASE i > Len(str) -> {<<>>}
          [] i <= Len(str) /\ str[i] # "%" -> {<<str[i]>> \o rest : rest \in from[i + 1]}
          [] i <= Len(str) /\ str[i] = "%" ->
               IF hex(i + 1) /\ hex(i + 2) /\ byte(i + 1) # 0
               THEN {<<CHOOSE c \in DOMAIN Code : Code[c] = byte(i + 1)>> \o rest : rest \in from[i + 3]}
               ELSE {}
  IN  from[1]

-----------------------------------------------------------------------------
(* Storing an option. *)

\* requiressl is the old name of sslmode.
conninfo_storeval(options, keyword, value) ==
  LET old == keyword = <<"requiressl">>
      name == IF old THEN <<"sslmode">> ELSE keyword
      new == IF ~old THEN value
             ELSE IF First(value) = "1" THEN <<"require">> ELSE <<"prefer">>
  IN  IF Len(name) = 1 /\ name[1] \in Keywords THEN {(name[1] :> new) @@ options} ELSE {}

\* The same for options that may have been refused already.
StoreIn(refusable, keyword, value) ==
  UNION {conninfo_storeval(o, keyword, value) : o \in refusable}

-----------------------------------------------------------------------------
(* keyword=value strings. *)

Stored(st) == [mode |-> "blanks", name |-> <<>>, value |-> <<>>,
               options |-> StoreIn(st.options, st.name, st.value)]

\* Mutant: a backslash inside quotes is a character like any other.
QuotedNext_NoEscape(st, c) ==
  IF c = "'" THEN Stored(st) ELSE [st EXCEPT !.value = Append(@, c)]

QuotedNext(st, c) ==
  CASE c = "\\" -> [st EXCEPT !.mode = "quotedEscape"]
    [] c = "'" -> Stored(st)
    [] OTHER -> [st EXCEPT !.value = Append(@, c)]

BareNext(st, c) ==
  CASE IsBlank(c) -> Stored(st)
    [] c = "\\" -> [st EXCEPT !.mode = "bareEscape"]
    [] OTHER -> [st EXCEPT !.mode = "bare", !.value = Append(@, c)]

NameNext(st, c) ==
  CASE c = "=" -> [st EXCEPT !.mode = "before"]
    [] IsBlank(c) -> [st EXCEPT !.mode = "afterName"]
    [] OTHER -> [st EXCEPT !.mode = "name", !.name = Append(@, c)]

\* One character; the mode is the place in the loop of conninfo_parse.
ConninfoNext(st, c) ==
  CASE st.mode = "blanks" -> IF IsBlank(c) THEN st ELSE NameNext(st, c)
    [] st.mode = "name" -> NameNext(st, c)
    [] st.mode = "afterName" ->
         CASE c = "=" -> [st EXCEPT !.mode = "before"]
           [] IsBlank(c) -> st
           [] OTHER -> [st EXCEPT !.options = {}]
    [] st.mode = "before" ->
         CASE IsBlank(c) -> st
           [] c = "'" -> [st EXCEPT !.mode = "quoted"]
           [] OTHER -> BareNext(st, c)
    [] st.mode = "bare" -> BareNext(st, c)
    [] st.mode = "bareEscape" -> [st EXCEPT !.mode = "bare", !.value = Append(@, c)]
    [] st.mode = "quoted" -> QuotedNext(st, c)
    [] st.mode = "quotedEscape" -> [st EXCEPT !.mode = "quoted", !.value = Append(@, c)]

conninfo_parse(conninfo) ==
  LET end == FoldLeft(ConninfoNext, [mode |-> "blanks", name |-> <<>>, value |-> <<>>,
                                     options |-> {NoOptions}], conninfo)
  IN  CASE end.mode = "blanks" -> end.options
        [] end.mode \in {"before", "bare", "bareEscape"} -> Stored(end).options
        [] OTHER -> {}

-----------------------------------------------------------------------------
(* URIs. *)

UriPrefixes == {"postgresql://", "postgres://"}

\* A part of the URI that is there at all is decoded and stored.
StorePart(refusable, keyword, part) ==
  IF part = <<>> THEN refusable
  ELSE UNION {StoreIn(refusable, <<keyword>>, v) : v \in conninfo_uri_decode(part)}

\* One parameter of the query; ssl=true is JDBC for sslmode=require.
StoreParam(refusable, st) ==
  UNION {UNION {IF k = <<"ssl">> /\ v = <<"true">> THEN StoreIn(refusable, <<"sslmode">>, <<"require">>)
                ELSE StoreIn(refusable, k, v)
                : v \in conninfo_uri_decode(st.value)} : k \in conninfo_uri_decode(st.keyword)}

NoParam(options) == [keyword |-> <<>>, value |-> <<>>, assigned |-> FALSE, options |-> options]

\* One character of the query.
ParamNext(st, c) ==
  CASE c = "=" -> IF st.assigned THEN [st EXCEPT !.options = {}] ELSE [st EXCEPT !.assigned = TRUE]
    [] c = "&" -> NoParam(IF st.assigned THEN StoreParam(st.options, st) ELSE {})
    [] OTHER -> IF st.assigned THEN [st EXCEPT !.value = Append(@, c)]
                ELSE [st EXCEPT !.keyword = Append(@, c)]

conninfo_uri_parse_params(refusable, params) ==
  LET end == FoldLeft(ParamNext, NoParam(refusable), params)
  IN  CASE end.keyword = <<>> /\ ~end.assigned -> end.options
        [] end.assigned -> StoreParam(end.options, end)
        [] OTHER -> {}

\* The host in brackets and what follows: nothing if the brackets are wrong.
Bracketed(s) ==
  LET ip == Cut(Tail(s), {"]"})
  IN  IF ip.at = "end" \/ ip.head = <<>> \/ First(ip.tail) \notin {"end", ":", "/", "?"} THEN {}
      ELSE {[head |-> ip.head, at |-> First(ip.tail),
             tail |-> IF ip.tail = <<>> THEN <<>> ELSE Tail(ip.tail)]}

\* A part follows its mark, else it is empty and the place stays the same.
Following(before, mark, stops) ==
  IF before.at = mark THEN Cut(before.tail, stops) ELSE [before EXCEPT !.head = <<>>]

conninfo_uri_parse(uri) ==
  LET s == Tail(uri)
      signed == Cut(s, {"@", "/"})
      user == Cut(IF signed.at = "@" THEN signed.head ELSE <<>>, {":"})
      net == IF signed.at = "@" THEN signed.tail ELSE s
      parts(host) ==
        LET port == Following(host, ":", {"/", "?"})
            dbname == Following(port, "/", {"?"})
            stored == StorePart(StorePart(StorePart(StorePart(StorePart({NoOptions},
                        "user", user.head), "password", user.tail), "host", host.head),
                        "port", port.head), "dbname", dbname.head)
        IN  conninfo_uri_parse_params(stored, dbname.tail)
  IN  UNION {parts(host) : host \in IF First(net) = "[" THEN Bracketed(net)
                                    ELSE {Cut(net, {":", "/", "?"})}}

parse_connection_string(s) ==
  IF First(s) \in UriPrefixes THEN conninfo_uri_parse(s) ELSE conninfo_parse(s)

recognized_connection_string(s) == First(s) \in UriPrefixes \/ "=" \in Range(s)
=============================================================================

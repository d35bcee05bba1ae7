------------------------------ MODULE Settings ------------------------------
(***************************************************************************)
(* Where the settings of a connection come from (fe-connect.c): the        *)
(* arguments of PQsetdbLogin or PQconnectdbParams, a connection string,    *)
(* the service files, the environment, what is compiled in, and for the    *)
(* password the file .pgpass.                                              *)
(*                                                                         *)
(* A source is [service |-> the files, each a sequence of lines,           *)
(* env |-> the variables that are set, passfile |-> lines of .pgpass,      *)
(* login |-> the name of the operating system's user].                     *)
(***************************************************************************)
EXTENDS Conninfo

CONSTANT LineLen    \* LINELEN: the size of the buffer for a line of .pgpass

-----------------------------------------------------------------------------
(* Service files: lines are [kind |-> "group", name], [kind |-> "setting", key, val],
   [kind |-> "comment"], "malformed" (no =) or "long". *)

\* [in |-> in the group asked for, done |-> the file is left, options |-> as ever]
LineRead(service, st, line) ==
  CASE st.done -> st
    [] line.kind = "long" -> [st EXCEPT !.options = {}, !.done = TRUE]
    [] line.kind = "comment" -> st
    [] line.kind = "group" -> IF st.in THEN [st EXCEPT !.done = TRUE]
                              ELSE [st EXCEPT !.in = (line.name = service)]
    [] line.kind \in {"setting", "malformed"} /\ ~st.in -> st
    [] line.kind = "malformed" /\ st.in -> [st EXCEPT !.options = {}, !.done = TRUE]
    [] line.kind = "setting" /\ st.in ->
         IF line.key \in Keywords \ {"service"}
         THEN [st EXCEPT !.options = {o @@ (line.key :> line.val) : o \in @}]
         ELSE [st EXCEPT !.options = {}, !.done = TRUE]

parseServiceFile(file, service, st) ==
  [FoldLeft(LAMBDA x, line : LineRead(service, x, line), st, file) EXCEPT !.done = FALSE]

\* The file of the user, then that of the system if the group was not found.
parseServiceInfo(options, source) ==
  LET named == "service" \in DOMAIN options \/ "PGSERVICE" \in DOMAIN source.env
      service == IF "service" \in DOMAIN options THEN options["service"] ELSE source.env["PGSERVICE"]
      start == [in |-> FALSE, done |-> FALSE, options |-> {options}]
      user == parseServiceFile(source.service.user, service, start)
      all == IF user.in \/ user.options = {} THEN user
             ELSE parseServiceFile(source.service.system, service, user)
  IN  IF ~named THEN {options} ELSE IF all.in THEN all.options ELSE {}

-----------------------------------------------------------------------------
(* Defaults. *)

\* The first source that has an option gives it.
conninfo_add_defaults(options, source) ==
  LET env == [k \in {w \in Keywords : Variable[w] \in DOMAIN source.env} |-> source.env[Variable[k]]]
      sslmode == IF First(IF "PGREQUIRESSL" \in DOMAIN source.env THEN source.env["PGREQUIRESSL"] ELSE <<>>)
                    = "1" THEN "sslmode" :> <<"require">> ELSE NoOptions
  IN  {o @@ env @@ sslmode @@ Compiled @@ ("user" :> source.login)
         : o \in parseServiceInfo(options, source)}

-----------------------------------------------------------------------------
(* Callers: PQsetdbLogin, with arguments that may be empty, and the arrays of
   PQconnectdbParams, whose first dbname may be a connection string. *)

NonEmpty(args) == [k \in {w \in DOMAIN args : args[w] # <<>>} |-> args[k]]

\* Options of PQsetdbLogin before connectOptions2.
SetdbLoginOptions(args, source) ==
  LET string == recognized_connection_string(args["dbname"])
      given == NonEmpty(args)
      own == [k \in DOMAIN given \ (IF string THEN {"dbname"} ELSE {}) |-> given[k]]
  IN  {own @@ o : o \in UNION {conninfo_add_defaults(p, source)
                               : p \in IF string THEN parse_connection_string(args["dbname"])
                                       ELSE {NoOptions}}}

\* One pair; the first dbname brings the options of its connection string.
PairStored(expanded, st, pair) ==
  CASE pair.value = <<>> -> st
    [] pair.value # <<>> /\ pair.key \notin Keywords -> [st EXCEPT !.options = {}]
    [] pair.value # <<>> /\ pair.key = "dbname" /\ st.expand ->
         [options |-> {e @@ o : o \in st.options, e \in expanded}, expand |-> FALSE]
    [] OTHER -> [st EXCEPT !.options = {(pair.key :> pair.value) @@ o : o \in @}]

conninfo_array_parse(pairs, source) ==
  LET named == SelectSeq(pairs, LAMBDA p : p.key = "dbname")
      string == IF named # <<>> THEN named[1].value ELSE <<>>
      expand == recognized_connection_string(string)
      st == FoldLeft(LAMBDA x, p : PairStored(parse_connection_string(string), x, p),
                     [options |-> {NoOptions}, expand |-> expand], pairs)
  IN  UNION {conninfo_add_defaults(o, source) : o \in st.options}

-----------------------------------------------------------------------------
(* The password file. *)

\* What is left of a line after a field that matches the token, none if it does not.
pwdfMatchesString(buf, token) ==
  LET from[i \in 1..Len(buf) + 1] ==      \* i: tbuf; j: ttok, as many characters on
        [j \in 1..Len(token) + 1 |->
           LET escaped == i <= Len(buf) /\ buf[i] = "\\"
               at == IF escaped THEN i + 1 ELSE i
           IN  CASE at > Len(buf) -> {}
                 [] at <= Len(buf) /\ j > Len(token) ->
                      IF buf[at] = ":" /\ ~escaped THEN {SubSeq(buf, at + 1, Len(buf))} ELSE {}
                 [] OTHER -> IF buf[at] = token[j] THEN from[at + 1][j + 1] ELSE {}]
  IN  IF Len(buf) >= 2 /\ buf[1] = "*" /\ buf[2] = ":" THEN {SubSeq(buf, 3, Len(buf))}
      ELSE from[1][1]

\* The rest of a line up to a colon that is not escaped, without its backslashes.
Unescaped(s) ==
  LET from[i \in 1..Len(s) + 2] ==
        CASE i > Len(s) -> <<>>
          [] i <= Len(s) /\ s[i] = ":" -> <<>>
          [] i < Len(s) /\ s[i] = "\\" -> <<s[i + 1]>> \o from[i + 2]
          [] OTHER -> <<s[i]>> \o from[i + 1]
  IN  from[1]

\* Rests of a line after the fields, in the order of the file.
Matches(line, tokens) ==
  FoldLeft(LAMBDA rests, token : UNION {pwdfMatchesString(r, token) : r \in rests}, {line}, tokens)

\* What one fgets after the other has of a line: a longer one comes in pieces.
Pieces(line) ==
  LET ended == line \o <<"\n">>
      size == LineLen - 1
  IN  [i \in 1..(Len(line) \div size) + 1 |-> SubSeq(ended, (i - 1) * size + 1, Min({i * size, Len(ended)}))]

\* Without its line end, in the style of DOS too.
Chomped(buf) ==
  LET cut(s, c) == IF s # <<>> /\ Last(s) = c THEN Front(s) ELSE s
  IN  IF Last(buf) = "\n" THEN cut(Front(buf), "\r") ELSE buf

\* Every piece is taken for an entry.
PasswordFromFile(o, passfile) ==
  LET host == IF "host" \in DOMAIN o /\ o["host"] # <<"/tmp">> THEN o["host"] ELSE <<"localhost">>
      tokens == <<host, o["port"], o["dbname"], o["user"]>>
      bufs == FlattenSeq([i \in DOMAIN passfile |-> Pieces(passfile[i])])
      lines == [i \in DOMAIN bufs |-> Chomped(bufs[i])]
      hits == SelectSeq(lines, LAMBDA line : line # <<>> /\ Matches(line, tokens) # {})
  IN  IF hits = <<>> THEN <<>>
      ELSE Unescaped(CHOOSE r \in Matches(hits[1], tokens) : TRUE)

\* fillPGconn and connectOptions2: the fields of the connection, and what follows from
\* them. The service is none of the fields.
Derived(o, source) ==
  LET user == IF o["user"] = <<>> THEN source.login ELSE o["user"]
      dbname == IF "dbname" \notin DOMAIN o \/ o["dbname"] = <<>> THEN user ELSE o["dbname"]
      named == ("user" :> user) @@ ("dbname" :> dbname) @@ [k \in DOMAIN o \ {"service"} |-> o[k]]
  IN  IF "password" \in DOMAIN o /\ o["password"] # <<>> THEN named
      ELSE ("password" :> PasswordFromFile(named, source.passfile)) @@ named

\* What the connection has when it begins, as PQconninfo reads it back.
PQsetdbLogin(args, source) == {Derived(o, source) : o \in SetdbLoginOptions(args, source)}

PQconnectdbParams(pairs, source) == {Derived(o, source) : o \in conninfo_array_parse(pairs, source)}

\* RS_PostgreSQL_cloneConnection: the arguments are what RS_PostgreSQL_newConnection kept of
\* the connection, the host as PQhost has it.
CloneConnection(o, source) ==
  PQsetdbLogin([k \in {"user", "password", "host", "port", "dbname"} |->
                  IF k = "host" /\ ("host" \notin DOMAIN o \/ o["host"] = <<>>) THEN <<"/tmp">> ELSE o[k]],
               source)
=============================================================================

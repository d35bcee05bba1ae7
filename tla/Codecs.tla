------------------------------- MODULE Codecs -------------------------------
(***************************************************************************)
(* The conversions of libpq and of RPostgreSQL, one per behaviour: a job   *)
(* says what somebody means and how it is written down, the conversion of  *)
(* the code runs on it, and the properties compare what came out with what *)
(* was meant.                                                              *)
(***************************************************************************)
EXTENDS ErrorReport, Settings, SSLSetup, ExpBuffer

CONSTANTS
  StringJobs,     \* connection strings
  SourceJobs,     \* arguments of a connection with all that gives defaults
  PasswordJobs,   \* password files
  TextJobs,       \* strings to be quoted
  ByteaJobs,      \* bytea values to be escaped
  CharJobs,       \* characters of an encoding
  ErrorJobs,      \* errors of the server, with a position in a statement
  StartupJobs,    \* connections about to start, and certificates
  SSLJobs,        \* SSL connections to be set up
  LibraryJobs,    \* connections that share the SSL library
  BufferJobs      \* growing strings

VARIABLES job, done, result

vars == <<job, done, result>>

Init ==
  /\ \/ job \in StringJobs \/ job \in SourceJobs \/ job \in PasswordJobs
     \/ job \in TextJobs \/ job \in ByteaJobs \/ job \in CharJobs
     \/ job \in ErrorJobs \/ job \in StartupJobs
     \/ job \in SSLJobs \/ job \in LibraryJobs \/ job \in BufferJobs
  /\ done = FALSE /\ result = {}

Does(kind, value) ==
  /\ ~done /\ job.kind = kind
  /\ done' = TRUE /\ result' = value
  /\ UNCHANGED job

-----------------------------------------------------------------------------
(* How the caller writes settings down: keyword=value strings with quotes or with
   backslashes, URIs with percent signs. *)

Escaped(v, special) ==
  FlattenSeq([i \in DOMAIN v |-> IF v[i] \in special THEN <<"\\", v[i]>> ELSE <<v[i]>>])

ConninfoText(settings, quoted, spaced) ==
  LET blank == IF spaced THEN <<" ">> ELSE <<>>
      value(v) == IF quoted THEN <<"'">> \o Escaped(v, {"'", "\\"}) \o <<"'">>
                  ELSE Escaped(v, {" ", "'", "\\"}) \o <<" ">>
      text(s) == blank \o <<s.key>> \o blank \o <<"=">> \o blank \o value(s.value)
  IN  FlattenSeq([i \in DOMAIN settings |-> text(settings[i])])

Nibble(n) == CHOOSE c \in DOMAIN HexValue : HexValue[c] = n

Percent(v) ==
  FlattenSeq([i \in DOMAIN v |->
    IF v[i] \in DOMAIN Code THEN <<"%", Nibble(Code[v[i]] \div 16), Nibble(Code[v[i]] % 16)>>
    ELSE <<v[i]>>])

\* The parts that have a place in the URI, and the rest as parameters.
UriText(settings, places) ==
  LET part(k) == IF k \in places \cap DOMAIN settings THEN Percent(settings[k]) ELSE <<>>
      after(mark, k) == IF part(k) = <<>> THEN <<>> ELSE <<mark>> \o part(k)
      credentials == part("user") \o after(":", "password")
      rest == SetToSeq(DOMAIN settings \ places)
      params == FlattenSeq([i \in DOMAIN rest |->
                  <<IF i = 1 THEN "?" ELSE "&", rest[i], "=">> \o Percent(settings[rest[i]])])
  IN  <<"postgresql://">> \o credentials \o (IF credentials = <<>> THEN <<>> ELSE <<"@">>)
        \o (IF ":" \in Range(part("host")) THEN <<"[">> \o settings["host"] \o <<"]">> ELSE part("host"))
        \o after(":", "port") \o after("/", "dbname") \o params

\* What is meant: the last setting of a keyword.
Meant(settings) ==
  FoldLeft(LAMBDA o, s : (s.key :> s.value) @@ o, NoOptions, settings)

ParseString ==
  Does("string", parse_connection_string(ConninfoText(job.settings, job.quoted, job.spaced)))

ParseUri == Does("uri", parse_connection_string(UriText(job.meant, job.places)))

ParseMalformed == Does("malformed", parse_connection_string(job.text))

SetdbLogin == Does("login", PQsetdbLogin(job.args, job.source))

ConnectParams == Does("params", PQconnectdbParams(job.pairs, job.source))

Clone ==
  Does("clone", UNION {CloneConnection(o, job.source) : o \in PQsetdbLogin(job.args, job.source)})

\* .pgpass: a star stands for any value; stars, colons and backslashes are escaped.
PassLine(entry) ==
  LET field(f) == IF f = <<"any">> THEN <<"*">> ELSE Escaped(f, {":", "\\", "*"})
  IN  FlattenSeq([i \in 1..4 |-> field(entry.fields[i]) \o <<":">>]) \o Escaped(entry.password, {":", "\\"})

LookUpPassword ==
  Does("passfile",
       {PasswordFromFile(("host" :> job.tokens[1]) @@ ("port" :> job.tokens[2])
                           @@ ("dbname" :> job.tokens[3]) @@ ("user" :> job.tokens[4]),
                         [i \in DOMAIN job.entries |-> PassLine(job.entries[i])
                                                        \o IF job.dos THEN <<"\r">> ELSE <<>>])})

EscapeString == Does("escape", PQescapeString(job.text, job.encoding, job.std))

EscapeLiteral == Does("literal", PQescapeInternal(job.text, job.encoding, FALSE))

EscapeIdentifier == Does("identifier", PQescapeInternal(job.text, job.encoding, TRUE))

\* PQescapeByteaConn: in hex for a server that reads it.
EscapeBytea ==
  LET hex == sversion(job.version) >= 90000
  IN  Does("bytea", [text |-> PQescapeBytea(job.value, job.std, hex),
                     size |-> EscapedLength(job.value, job.std, hex)])

UnescapeBytea ==
  Does("unescape", [libpq |-> PQunescapeBytea(ByteaOut(job.value, job.hex)),
                    r |-> RS_unescape_bytea(ByteaOut(job.value, job.hex))])

ReadCharacter ==
  Does("char", [verified |-> pg_encoding_verifymb(job.encoding, job.text),
                mblen |-> pg_encoding_mblen(job.encoding, job.text)])

ShowPosition == Does("position", reportErrorPosition(job.text, job.position, job.encoding))

BuildErrorMessage == Does("message", pqBuildErrorMessage3(job.res, job.verbosity, job.show_context))

BuildStartupPacket3 ==
  Does("startup3", ServerOptions(pqBuildStartupPacket3(job.conn, job.send_appname, job.env)))

BuildStartupPacket2 == Does("startup2", pqBuildStartupPacket2(job.conn))

VerifyPeerName == Does("certificate", verify_peer_name_matches_certificate(job.cert, job.sslmode, job.host))

OpenClientSSL == Does("handshake", pgtls_open_client(job.conn, job.files, job.memory, job.server))

\* The library after each of the events.
UseLibrary ==
  Does("library", [i \in DOMAIN job.events |-> FoldLeft(After, NoConnection, SubSeq(job.events, 1, i))])

\* One operation on a buffer: memory is what the system has then.
Operation(str, op) ==
  CASE op.what = "reset" -> resetPQExpBuffer(str, op.memory)
    [] op.what = "append" -> appendBinaryPQExpBuffer(str, op.text, op.memory)
    [] op.what = "format" -> appendPQExpBuffer(str, op.text, op.vsnprintf, op.memory)
    [] op.what = "printf" -> printfPQExpBuffer(str, op.text, op.vsnprintf, op.memory)

FillBuffer == Does("buffer", FoldLeft(Operation, initPQExpBuffer(job.memory), job.ops))

Next ==
  \/ ParseString \/ ParseUri \/ ParseMalformed \/ SetdbLogin \/ ConnectParams \/ Clone
  \/ LookUpPassword \/ EscapeString \/ EscapeLiteral \/ EscapeIdentifier
  \/ EscapeBytea \/ UnescapeBytea \/ ReadCharacter
  \/ ShowPosition \/ BuildErrorMessage
  \/ BuildStartupPacket3 \/ BuildStartupPacket2 \/ VerifyPeerName
  \/ OpenClientSSL \/ UseLibrary \/ FillBuffer

Spec == Init /\ [][Next]_vars

-----------------------------------------------------------------------------
(* What a job means. *)

\* The settings of the group asked for: of the first file that has it, the first value of
\* each keyword. A line that cannot be read spoils it.
ServiceSettings(source, name) ==
  LET heads(f) == {i \in DOMAIN f : f[i].kind = "group" /\ f[i].name = name}
      start(f) == CHOOSE i \in heads(f) : \A j \in heads(f) : i <= j
      within(f, i) == heads(f) # {} /\ i > start(f) /\ \A j \in start(f) + 1..i : f[j].kind # "group"
      file == IF heads(source.service.user) # {} THEN source.service.user ELSE source.service.system
      lines == {i \in DOMAIN file : within(file, i) /\ file[i].kind # "comment"}
      spoilt == \/ heads(file) = {}
                \/ \E i \in lines : \/ file[i].kind # "setting"
                                    \/ file[i].kind = "setting" /\ file[i].key \notin Keywords \ {"service"}
                \/ \E f \in {source.service.user, source.service.system} :
                     \E i \in DOMAIN f :
                       /\ f[i].kind = "long"
                       /\ heads(f) = {} \/ i < start(f)
                       /\ f = source.service.user \/ heads(source.service.user) = {}
      keys == {file[i].key : i \in lines}
  IN  IF spoilt THEN {}
      ELSE {[k \in keys |-> file[CHOOSE i \in lines : /\ file[i].key = k
                                                     /\ \A j \in lines : file[j].key = k => i <= j].val]}

\* The sources in the order in which they count.
Precedence(explicit, source) ==
  LET env == [k \in {w \in Keywords : Variable[w] \in DOMAIN source.env} |-> source.env[Variable[k]]]
      service == CASE "service" \in DOMAIN explicit -> ServiceSettings(source, explicit["service"])
                   [] "service" \in DOMAIN env /\ "service" \notin DOMAIN explicit ->
                        ServiceSettings(source, env["service"])
                   [] OTHER -> {NoOptions}
      ssl == IF "PGREQUIRESSL" \in DOMAIN source.env /\ First(source.env["PGREQUIRESSL"]) = "1"
             THEN "sslmode" :> <<"require">> ELSE NoOptions
  IN  {<<explicit, s, env, ssl, Compiled, "user" :> source.login>> : s \in service}

FirstGiven(sources) ==
  LET keys == UNION {DOMAIN sources[i] : i \in DOMAIN sources}
      first(k) == CHOOSE i \in DOMAIN sources : /\ k \in DOMAIN sources[i]
                                                /\ \A j \in 1..i - 1 : k \notin DOMAIN sources[j]
  IN  [k \in keys |-> sources[first(k)][k]]

\* With the user as the name of the database where there is none.
Named(o) ==
  IF "dbname" \in DOMAIN o /\ o["dbname"] # <<>> THEN o ELSE ("dbname" :> o["user"]) @@ o

Connected(explicit, source) == {Named(FirstGiven(s)) : s \in Precedence(explicit, source)}

\* Passwords apart, which the file may give.
Same(meant, refusable) ==
  {[k \in DOMAIN o \ {"password", "service"} |-> o[k]] : o \in meant}
    = {[k \in DOMAIN o \ {"password"} |-> o[k]] : o \in refusable}

\* Arguments that are given, the name of the database unless it is a connection string.
OwnArgs(args, string) ==
  LET own == {k \in DOMAIN args : args[k] # <<>> /\ ~(k = "dbname" /\ string # {})}
  IN  [k \in own |-> args[k]]

\* What the array says: later pairs over earlier ones, a connection string in its place.
PairsMeant(job_) ==
  FoldLeft(LAMBDA o, p : CASE p.value = <<>> -> o
                           [] p.key = "dbname" /\ p.string # {} -> (CHOOSE s \in p.string : TRUE) @@ o
                           [] OTHER -> (p.key :> p.value) @@ o,
           NoOptions, job_.pairs)

EntriesMeant(entries, tokens) ==
  SelectSeq(entries, LAMBDA e : \A i \in 1..4 : e.fields[i] \in {<<"any">>, tokens[i]})

PasswordMeant(entries, tokens) ==
  LET hits == EntriesMeant(entries, tokens) IN IF hits = <<>> THEN <<>> ELSE hits[1].password

\* The entries in front of the first whose line is too long for the buffer; its line end
\* has to fit only in the style of DOS.
Readable(entries, dos) ==
  LET long == {i \in DOMAIN entries : Len(PassLine(entries[i])) + (IF dos THEN 2 ELSE 0) >= LineLen}
  IN  IF long = {} THEN entries ELSE Take(entries, Min(long) - 1)

FieldSize == ("user" :> SM_USER) @@ ("dbname" :> SM_DATABASE) @@ ("options" :> SM_OPTIONS)

\* What the server is to be told: members that have a value, under its own names for them,
\* the fallback only without a name of the application, variables unless they say default.
OptionsMeant(conn, send_appname) ==
  LET has(k) == k \in DOMAIN conn /\ conn[k] # <<>>
      named(name, k) == IF has(k) THEN name :> conn[k] ELSE NoOptions
  IN  named("user", "user") @@ named("database", "dbname") @@ named("options", "options")
        @@ named("replication", "replication") @@ named("client_encoding", "client_encoding")
        @@ (IF ~send_appname THEN NoOptions
            ELSE IF "appname" \in DOMAIN conn THEN named("application_name", "appname")
            ELSE named("application_name", "fbappname"))

EnvironmentMeant(env) ==
  LET told == {i \in DOMAIN Environment : /\ Environment[i][1] \in DOMAIN env
                                          /\ env[Environment[i][1]] # <<"default">>}
  IN  [name \in {Environment[i][2] : i \in told} |->
         env[Environment[CHOOSE i \in told : Environment[i][2] = name][1]]]

SettingsMeant ==
  CASE job.kind = "string" -> result = {Meant(job.settings)}
    [] job.kind = "uri" -> result = {job.meant}
    [] job.kind = "malformed" -> result = {}
    [] job.kind = "login" ->
         LET string == job.string
             args == OwnArgs(job.args, string)
             explicit == IF string = {} THEN args ELSE args @@ (CHOOSE s \in string : TRUE)
         IN  Same(Connected(explicit, job.source), result)
    [] job.kind = "params" -> Same(Connected(PairsMeant(job), job.source), result)
    [] job.kind = "clone" ->
         \A o \in PQsetdbLogin(job.args, job.source) :
           /\ "service" \notin UNION {DOMAIN s : s \in job.string}
           /\ ~recognized_connection_string(o["dbname"])
           => \E c \in result : \A k \in {"user", "password", "port", "dbname"} : c[k] = o[k]
    [] job.kind = "startup3" ->
         result = OptionsMeant(job.conn, job.send_appname)
                    @@ EnvironmentMeant(job.env)
    [] job.kind = "startup2" ->
         \A k \in {"user", "dbname", "options"} \cap DOMAIN job.conn :
           IsPrefix(result[IF k = "dbname" THEN "database" ELSE k], job.conn[k])
             /\ (Len(job.conn[k]) <= FieldSize[k]
                   => result[IF k = "dbname" THEN "database" ELSE k] = job.conn[k])
    [] job.kind = "passfile" ->
         LET readable == Readable(job.entries, job.dos)
         IN  readable = job.entries \/ EntriesMeant(readable, job.tokens) # <<>>
               => result = {PasswordMeant(readable, job.tokens)}
    [] OTHER -> TRUE

-----------------------------------------------------------------------------
(* Properties. *)

\* What a caller means is what the connection is made with: strings and URIs written by the
\* rules give their settings back whatever the values contain, what breaks the rules is
\* refused, and each setting comes from the first of the arguments, the connection string,
\* the service group, the environment and the compiled-in values that has it. The password is
\* that of the first entry of .pgpass that matches, as long as no line up to it is too long
\* for the buffer. A clone has the settings of its original unless these name a service or a
\* database whose name reads as a connection string (conninfo_parse, conninfo_uri_parse, conninfo_add_defaults, PQsetdbLogin, PasswordFromFile).
SettingsAreMeant == done => SettingsMeant

\* The last character of the text is cut off, the rest is well formed.
CutOff(text, encoding) ==
  \E n \in 0..Len(text) - 1 :
    /\ Valid(encoding, Take(text, n))
    /\ pg_encoding_mblen(encoding, Drop(text, n)) > Len(text) - n

Quoted(s) == <<Quote>> \o s \o <<Quote>>

\* What is quoted for a statement is read back by the server as it was, in every encoding and
\* with either setting of standard_conforming_strings, within the room the caller of
\* PQescapeStringConn has to provide; a character cut off by the end is reported and never
\* lets the text run on behind its quotes. bytea values come through in both formats.
LiteralsReadBack ==
  done =>
    CASE job.kind = "escape" ->
           LET read == ServerReads(Quoted(result.out), job.encoding, job.std, FALSE)
           IN  /\ Len(result.out) <= 2 * Len(job.text)
               /\ Valid(job.encoding, job.text) => ~result.error /\ read = {job.text}
               /\ CutOff(job.text, job.encoding) =>
                    /\ result.error
                    /\ \A s \in read : Take(s, Len(job.text)) = job.text
      [] job.kind \in {"literal", "identifier"} ->
           LET identifier == job.kind = "identifier"
           IN  /\ CutOff(job.text, job.encoding) => result = {}
               /\ Valid(job.encoding, job.text) =>
                    /\ result # {}
                    /\ \A text \in result : \A std \in BOOLEAN :
                         ServerReads(LET t == text IN IF t[1] = Blank THEN Tail(t) ELSE t,
                                     job.encoding, std, identifier) = {job.text}
      [] job.kind = "bytea" ->
           /\ result.size = Len(result.text) + 1
           /\ {ByteaIn(t, job.version[1]) : t \in ServerReads(Quoted(result.text), "LATIN1", job.std, FALSE)}
                = {job.value}
      [] job.kind = "unescape" -> result.libpq = job.value /\ result.r = job.value
      [] OTHER -> TRUE

\* The three tables of an encoding agree: a valid character is as long as mblen says and not
\* longer than the maximum, and the conversion to pg_wchar and back keeps it. (The verifier
\* of MULE takes any high byte for the number of a private character set.)
EncodingsAgree ==
  done /\ job.kind = "char" /\ result.verified # -1 =>
    LET char == Take(job.text, result.verified)
    IN  /\ result.mblen = result.verified
        /\ result.mblen <= MaxLength[job.encoding]
        /\ (job.encoding \in WideKinds /\ 0 \notin Range(char)
             /\ ~(job.encoding = "MULE_INTERNAL" /\ (LCPRV1(char[1]) \/ LCPRV2(char[1]))
                   /\ char[2] \notin CASE char[1] = 154 -> 160..223 [] char[1] = 155 -> 224..239
                                      [] char[1] = 156 -> 240..244 [] char[1] = 157 -> 245..254))
             => FromWide(job.encoding, ToWide(job.encoding, char)) = char

\* Where the line of a position starts, and where the next line end is, counted from 1.
LineStart(chars, p) == Max({1} \cup {i + 1 : i \in {j \in 1..p - 1 : EndsLine(chars[j])}})
LineEnd(chars, p) == Min({Len(chars) + 1} \cup {i \in p..Len(chars) : EndsLine(chars[i])})

\* Line ends before a position: \r\n is one.
LinesBefore(chars, p) ==
  Cardinality({i \in 1..p - 1 : /\ EndsLine(chars[i])
                                /\ ~(i > 1 /\ chars[i] = <<LineFeed>> /\ chars[i - 1] = <<CarriageReturn>>)})

Width(encoding, chars) == FoldLeft(LAMBDA n, c : n + pg_encoding_dsplen(encoding, c), 0, chars)

Blanked(chars) == [i \in DOMAIN chars |-> IF chars[i] = <<Tab>> THEN <<Blank>> ELSE chars[i]]

\* The error display points at the character the server points at: the number and the text
\* are those of its line, what is shown of the line fits and is marked where it was cut, the
\* caret stands under that character whatever the widths of those before it, and it keeps
\* its distance from a cut on its right. A message tells a position once: by the caret, or
\* in words where there is no statement to show or the user wants one line.
CaretUnderTheError ==
  done =>
    CASE job.kind = "position" ->
           LET chars == ByMblen(job.encoding, job.text)
               p == job.position
               first == LineStart(chars, p)
               end == LineEnd(chars, p)
               shows(r, from) ==
                 /\ from \in first..p /\ from + Len(r.text) \in p..end
                 /\ r.text = Blanked(SubSeq(chars, from, from + Len(r.text) - 1))
                 /\ r.caret = Width(job.encoding, SubSeq(chars, from, p - 1))
                 /\ r.left = (from # first) /\ r.right = (from + Len(r.text) # end)
           IN  /\ (result = {}) = (p \notin 1..Len(chars) + 1)
               /\ \A r \in result :
                    /\ r.line = LinesBefore(chars, p) + 1
                    /\ \E from \in 1..p : shows(r, from)
                    /\ Width(job.encoding, r.text) <= DISPLAY_SIZE
                    /\ r.right => Width(job.encoding, r.text) - r.caret >= MIN_RIGHT_CUT - 1
      [] job.kind = "message" ->
           LET told == {i \in DOMAIN result : result[i] \in {"at_character", "cursor"}}
               positioned == job.res.fields \cap {"position", "internal_position"} # {}
           IN  /\ Cardinality(told) <= 1
               /\ told = {} => ~positioned \/ job.res.position = 0
               /\ job.verbosity = "terse" => Range(result) \subseteq {"base", "severity", "primary", "at_character"}
      [] OTHER -> TRUE

\* The labels of a name between its dots.
Labels(name) ==
  LET dots == <<0>> \o SetToSortSeq({i \in DOMAIN name : name[i] = "."}, <) \o <<Len(name) + 1>>
  IN  [i \in 1..Len(dots) - 1 |-> SubSeq(name, dots[i] + 1, dots[i + 1] - 1)]

\* A star stands for one whole label in front of others.
Covers(name, host) ==
  \/ name = host
  \/ /\ Len(Labels(name)) >= 2 /\ Len(Labels(host)) = Len(Labels(name))
     /\ Labels(name)[1] = <<"*">> /\ Tail(Labels(name)) = Tail(Labels(host))

\* A certificate is for a host by an alternative name if it has any for hosts and only else by
\* its common name; a name that cannot be used refuses unless one before it matched.
Certified(cert, host) ==
  LET alternatives == {i \in DOMAIN cert.sans : cert.sans[i].dns}
      good(n) == ~n.bad /\ Covers(n.text, host)
  IN  /\ host # <<>>
      /\ IF alternatives = {} THEN \E n \in cert.cn : good(n)
         ELSE \E i \in alternatives :
                /\ good(cert.sans[i])
                /\ \A j \in alternatives : cert.sans[j].bad => i < j

\* A server is accepted just if it is the one that was meant: with a file of root certificates
\* in place, in every sslmode, it has to have a certificate of theirs that is not revoked;
\* without one verify-ca and verify-full refuse; verify-full wants the certificate to be for
\* the host. The certificate of the client is used only with its key, and what is refused
\* keeps neither SSL object nor engine (initialize_SSL, open_client_SSL,
\* verify_peer_name_matches_certificate).
ServerIsVerified ==
  done =>
    CASE job.kind = "certificate" ->
           job.sslmode = "verify-full" => result = Certified(job.cert, job.host)
      [] job.kind = "handshake" ->
           LET inUse(o) == CASE o \in job.conn.given -> job.files[o].given
                             [] o \notin job.conn.given /\ job.files.homedir -> job.files[o].home
                             [] OTHER -> "missing"
               key == IF "sslkey" \in job.conn.given /\ job.files.engine # "no"
                      THEN job.files.engine ELSE inUse("sslkey")
               verified == \/ inUse("sslrootcert") = "good" /\ job.server.trusted
                                /\ (inUse("sslcrl") = "good" => ~job.server.revoked)
                           \/ inUse("sslrootcert") = "missing" /\ job.conn.sslmode = "require"
               client == \/ inUse("sslcert") = "missing" /\ ~job.server.asks
                         \/ inUse("sslcert") = "good" /\ key = "good"
               host == job.conn.sslmode = "verify-full" => Certified(job.server.cert, job.conn.host)
               works == job.memory = "all" /\ ~job.server.broken /\ ~job.server.anonymous
           IN  /\ result.open = (verified /\ client /\ host /\ works)
               /\ ~result.open => result.tls = Unset
      [] OTHER -> TRUE

\* What the callbacks are there for. counted |-> the open connections that began while
\* libcrypto was left to libpq, early |-> the attempts that failed early then, strays |-> how
\* often a connection that had begun before was closed then.
Users(all, events) ==
  LET before(i) == IF i = 1 THEN NoConnection ELSE all[i - 1]
      users[i \in 0..Len(events)] ==
        IF i = 0 THEN [counted |-> {}, early |-> 0, strays |-> 0]
        ELSE LET e == events[i]
                 on == before(i).lib.pq_init_crypto_lib
                 begun == all[i].ssl \ before(i).ssl
                 gone == before(i).ssl \ all[i].ssl
                 early == e.what = "open" /\ e.outcome = "early" /\ e.conn \notin before(i).ssl
             IN  [counted |-> (users[i - 1].counted \cup IF on THEN begun ELSE {}) \ gone,
                  early |-> users[i - 1].early + IF on /\ early THEN 1 ELSE 0,
                  strays |-> users[i - 1].strays
                               + IF on THEN Cardinality(gone \ users[i - 1].counted) ELSE 0]
  IN  users

\* Through connections that begin, fail and end and an application that changes its mind
\* through PQinitOpenSSL: as long as a connection that libpq has to care for uses SSL,
\* libcrypto has functions to lock with; those of the application are never replaced or taken
\* away; those of libpq are gone when nobody is left to be counted off. An attempt that fails
\* before it has an SSL object is never counted off. A connection that began while the
\* application cared for libcrypto is not counted, and pgtls_init_library does not see it: if
\* it is closed after the application gave libcrypto back, it is counted off all the same, and
\* each such stray close costs the callbacks one of their users, but not more than one
\* (pgtls_init, destroy_ssl_system, pgtls_init_library).
CallbacksKept ==
  done /\ job.kind = "library" =>
    \A i \in DOMAIN result :
      LET lib == result[i].lib
          users == Users(result, job.events)[i]
          owed == Cardinality(users.counted) + users.early
          apps == \E j \in 1..i : job.events[j].what = "app"
      IN  /\ owed > users.strays => "none" \notin {lib.idCallback, lib.lockCallback}
          /\ apps => lib.idCallback = "app" /\ lib.lockCallback = "app"
          /\ lib.ssl_open_connections \in owed - users.strays..owed
          /\ lib.ssl_open_connections = 0 => "libpq" \notin {lib.idCallback, lib.lockCallback}

\* What counts of a sequence of operations: from the last that starts afresh.
SinceReset(ops) ==
  LET starts == {i \in DOMAIN ops : ops[i].what \in {"reset", "printf"}}
  IN  IF starts = {} THEN ops ELSE SubSeq(ops, Max(starts), Len(ops))

TextOf(ops) == FlattenSeq([i \in DOMAIN ops |-> IF ops[i].what = "reset" THEN <<>> ELSE ops[i].text])

\* A buffer holds all that was appended to it since it was emptied, with room for the NUL, or
\* it says that it is broken; it breaks only for want of memory, for a text beyond INT_MAX or
\* for a vsnprintf that does not say how much it needs, and a reset mends it. A piece in the
\* middle is never missing.
BufferKeepsText ==
  done /\ job.kind = "buffer" =>
    LET ops == SinceReset(job.ops)
        provided == /\ \A i \in DOMAIN ops : /\ ops[i].memory >= INT_MAX
                                             /\ ops[i].what \in {"format", "printf"} => ops[i].vsnprintf = "c99"
                    /\ ops = job.ops /\ job.ops # <<>> /\ ops[1].what \notin {"reset", "printf"} => job.memory >= INT_MAX
    IN  IF PQExpBufferBroken(result)
        THEN result.data = <<>> /\ (ops # <<>> => ~provided \/ Len(TextOf(ops)) + FirstGuess + 1 >= INT_MAX)
        ELSE /\ result.data = TextOf(ops)
             /\ Len(result.data) < result.maxlen /\ result.maxlen <= INT_MAX
=============================================================================

------------------------------ MODULE MCCodecs ------------------------------
EXTENDS Codecs

\* Values with every character that means something in one of the notations.
Awkward == {<<"a">>, <<" ">>, <<"a", " ", "b">>, <<"'">>, <<"\\">>, <<"\\", "'">>, <<"a", "\\">>,
            <<"=">>, <<"%", "a">>, <<"&", "=">>, <<"/", ":">>, <<"@">>, <<"?", "b">>, <<"]">>}

Setting(keys, values) == [key : keys, value : values]

MCStringJobs ==
  [kind : {"string"}, settings : SeqOf(Setting({"host", "dbname"}, Awkward \cup {<<>>}), 2),
   quoted : {TRUE}, spaced : BOOLEAN]
  \cup [kind : {"string"}, settings : SeqOf(Setting({"host", "dbname"}, Awkward), 2),
        quoted : {FALSE}, spaced : BOOLEAN]
  \cup [kind : {"uri"},
        meant : [{"host", "dbname"} -> Awkward]
                  \cup UNION {[ks -> {<<"a">>, <<"@", ":">>, <<"%", "/">>, <<":", "b">>}]
                              : ks \in SUBSET {"user", "password", "host", "port", "dbname"}},
        places : {{"user", "password", "host", "port", "dbname"}, {"user"}, {}}]
  \cup [kind : {"malformed"},
        text : {<<"host">>, <<"host", " ", "a">>, <<"host", " ">>, <<"=", "a">>, <<"host", "=", "'", "a">>,
                <<"host", "=", "'", "a", "\\", "'">>, <<"other", "=", "a">>, <<"host", "a", "=", "b">>,
                <<"postgres://", "[", "a">>, <<"postgres://", "[", "]">>, <<"postgres://", "[", "a", "]", "b">>,
                <<"postgres://", "%", "2">>, <<"postgres://", "a", "%", "0", "0">>, <<"postgres://", "?", "host">>,
                <<"postgres://", "?", "host", "=", "a", "=", "b">>, <<"postgres://", "?", "&", "host", "=", "a">>,
                <<"postgres://", "?", "host", "=", "a", "&", "&">>, <<"postgres://", "?", "host", "=", "%", "=">>}]

\* Service files, environments and password files.
Line(k, v) == [kind |-> "setting", key |-> k, val |-> v]
Group(name) == [kind |-> "group", name |-> name]

Files == {<<>>,
          <<[kind |-> "comment"], Group(<<"s">>), Line("host", <<"h1">>), Line("host", <<"h2">>),
            Line("user", <<"u1">>), Group(<<"t">>), Line("dbname", <<"d1">>)>>,
          <<Line("host", <<"h3">>), [kind |-> "malformed"], Group(<<"t">>), Line("dbname", <<"d3">>),
            Group(<<"s">>), Line("sslmode", <<"allow">>)>>,
          <<Group(<<"s">>), Line("host", <<"h4">>), [kind |-> "malformed"]>>,
          <<Group(<<"s">>), Line("service", <<"t">>)>>,
          <<[kind |-> "long"], Group(<<"s">>), Line("other", <<"a">>)>>,
          <<Group(<<"s">>), Line("port", <<"1">>), Group(<<"t">>), [kind |-> "long"]>>}

Environments ==
  {<<>>, "PGSERVICE" :> <<"s">>, "PGREQUIRESSL" :> <<"1">>,
   ("PGHOST" :> <<"he">>) @@ ("PGSERVICE" :> <<"t">>) @@ ("PGREQUIRESSL" :> <<"0">>),
   ("PGUSER" :> <<"ue">>) @@ ("PGDATABASE" :> <<"de">>) @@ ("PGSSLMODE" :> <<"disable">>)
     @@ ("PGREQUIRESSL" :> <<"1">>) @@ ("PGSERVICE" :> <<"s">>)}

Sources == [service : [user : Files, system : Files], env : Environments, login : {<<"me">>},
            passfile : {<<>>, <<<<"*", ":", "*", ":", "*", ":", "me", ":", "p">>>>}]

Args(dbname, host, user) ==
  ("dbname" :> dbname) @@ ("host" :> host) @@ ("user" :> user) @@ ("port" :> <<>>) @@ ("password" :> <<>>)

\* A database by its name, by none, and by connection strings, one with a name that reads as
\* a connection string itself.
Databases ==
  {[text |-> <<"dbname", "=", "'", "a", "=", "b", "'">>, string |-> {"dbname" :> <<"a", "=", "b">>}],
   [text |-> <<>>, string |-> {}], [text |-> <<"d">>, string |-> {}],
   [text |-> <<"dbname", "=", "d", " ", "host", "=", "hs", " ", "service", "=", "t">>,
    string |-> {("dbname" :> <<"d">>) @@ ("host" :> <<"hs">>) @@ ("service" :> <<"t">>)}],
   [text |-> <<"postgres://", "u", "@", "/", "d", "?", "sslmode", "=", "allow">>,
    string |-> {("user" :> <<"u">>) @@ ("dbname" :> <<"d">>) @@ ("sslmode" :> <<"allow">>)}]}

LoginJobs ==
  {[kind |-> k, args |-> Args(d.text, h, u), string |-> d.string, source |-> s]
     : k \in {"login", "clone"}, d \in Databases, h \in {<<>>, <<"h">>}, u \in {<<>>, <<"u2">>}, s \in Sources}

PlainSource == [service |-> [user |-> <<>>, system |-> <<>>], env |-> "PGHOST" :> <<"he">>,
                login |-> <<"me">>, passfile |-> <<>>]

\* Arrays of two or three pairs, with at most the first dbname a connection string.
Pairs ==
  [key : {"host", "user", "sslmode"}, value : {<<>>, <<"a">>, <<"b">>}, string : {{}}]
  \cup {[key |-> "dbname", value |-> d.text, string |-> d.string]
        : d \in {e \in Databases : e.string = {} \/ "service" \notin UNION {DOMAIN x : x \in e.string}}}

Arrays ==
  {ps \in SeqOf(Pairs, 3) :
     \A i \in DOMAIN ps : ps[i].string # {} => \A j \in 1..i - 1 : ps[j].key # "dbname"}

MCSourceJobs == LoginJobs \cup [kind : {"params"}, pairs : Arrays, source : {PlainSource}]

\* Lines of a password file whose fields look like one another, from 9 to 17 characters long:
\* some fit into a buffer of 16, one with its line end just not, others by far not.
FieldValues == {<<"any">>, <<"a">>, <<":">>, <<"*">>, <<"\\">>, <<"a", ":">>}
Entries == {[fields |-> <<h, <<"5432">>, d, <<"any">>>>, password |-> p]
            : h \in FieldValues, d \in {<<"any">>, <<"a">>, <<"\\", ":">>}, p \in {<<"p">>, <<"\\", ":">>}}

MCPasswordJobs ==
  [kind : {"passfile"}, dos : BOOLEAN, entries : SeqOf(Entries, 2),
   tokens : {<<h, <<"5432">>, d, <<"u">>>> : h \in FieldValues \ {<<"any">>}, d \in {<<"a">>, <<"\\", ":">>}}]

\* Quotes, a backslash, a letter, a digit, and bytes of multibyte characters: shift codes,
\* leading and trailing bytes.
Bytes == {34, 39, 92, 65, 49, 142, 161, 195, 156}

MCTextJobs ==
  [kind : {"escape"}, text : SeqOf(Bytes, 3), encoding : EncodingKinds, std : BOOLEAN]
  \cup [kind : {"literal", "identifier"}, text : SeqOf(Bytes, 3), encoding : EncodingKinds]

SomeBytes == {0, 31, 32, 39, 48, 92, 120, 126, 127, 255}

MCByteaJobs ==
  [kind : {"bytea"}, value : SeqOf(SomeBytes, 2) \cup {<<b>> : b \in 0..255}, std : BOOLEAN,
   version : {<<8, 4>>, <<8, 4, 22>>, <<9, 0, 4>>, <<9, 6>>, <<10, 3>>, <<10>>}]
  \cup [kind : {"unescape"}, value : SeqOf(SomeBytes, 3) \cup {<<b>> : b \in 0..255}, hex : BOOLEAN]

\* Bounds of the ranges the verifiers and mblen tell apart.
Leading == {65, 128, 129, 141, 142, 143, 144, 153, 154, 155, 156, 157, 160, 161, 193, 194, 223, 224,
            237, 239, 240, 244, 245, 248, 254, 255}
Second == {48, 57, 64, 127, 128, 143, 144, 159, 160, 161, 167, 168, 191, 223, 224, 240, 245, 254, 255}
Later == {48, 128, 161, 191, 254}

MCCharJobs ==
  [kind : {"char"}, encoding : EncodingKinds,
   text : {<<a>> : a \in 1..255} \cup {<<a, b>> : a \in Leading, b \in Second}
            \cup {<<a, b, c>> : a \in Leading, b \in Second, c \in Later}
            \cup {<<a, b, c, d>> : a \in Leading \ 194..223, b \in Second, c \in Later, d \in {48, 128, 191, 254}}]

\* Letters, tabs, both line ends and a character two columns wide; the statement may be longer
\* than what is shown of it.
Statements == {FlattenSeq(cs) : cs \in SeqOf({<<65>>, <<9>>, <<10>>, <<13>>, <<228, 184, 128>>}, 5)}

LongStatements ==
  {FlattenSeq(<<<<65, 10>>>> \o [i \in 1..8 |-> IF i \in wide THEN <<228, 184, 128>> ELSE <<65>>])
     : wide \in SUBSET (1..8)}

MCErrorJobs ==
  [kind : {"position"}, text : Statements, position : 0..7, encoding : {"UTF8"}]
  \cup [kind : {"position"}, text : LongStatements, position : 0..12, encoding : {"UTF8"}]
  \cup {j \in [kind : {"position"}, position : 1..4, encoding : EncodingKinds,
                text : {<<97, 142, 177, 98>>, <<97, 161, 161, 98>>, <<154, 161, 177, 98>>}] :
          Valid(j.encoding, j.text)}
  \cup [kind : {"message"}, verbosity : {"terse", "default", "verbose"}, show_context : {"never", "errors", "always"},
        res : [fields : SUBSET {"primary", "position", "internal_position", "internal_query", "context", "source"},
               query : BOOLEAN, position : {0, 1}, fatal : BOOLEAN]]

\* Members of a connection that are given, empty or missing, and three variables.
Optional(k, values) == {NoOptions} \cup {k :> v : v \in values}

Members ==
  {("user" :> <<"u">>) @@ d @@ a @@ f @@ o @@ c
     : d \in Optional("dbname", {<<>>, <<"d">>}), a \in Optional("appname", {<<>>, <<"a">>}),
       f \in Optional("fbappname", {<<"f">>}), o \in Optional("options", {<<>>, <<"user">>}),
       c \in Optional("client_encoding", {<<>>, <<"UTF8">>})}

Texts == SeqOf({"a", "b"}, 3) \ {<<>>}

\* Names of hosts and in certificates, with stars in and out of place.
Hosts == {<<>>, <<"a">>, <<"a", ".", "b">>, <<"c", "a", ".", "b">>, <<"c", ".", "a", ".", "b">>}
CertTexts == {<<"a">>, <<"a", ".", "b">>, <<"*", ".", "b">>, <<"*", ".", "a", ".", "b">>, <<"*">>, <<"c", "*", ".", "b">>}
Names == [dns : {TRUE}, text : CertTexts, bad : {FALSE}]
           \cup [dns : {TRUE}, text : {<<"a", ".", "b">>}, bad : {TRUE}]
           \cup [dns : {FALSE}, text : {<<"a", ".", "b">>}, bad : {FALSE}]

MCStartupJobs ==
  [kind : {"startup3"}, conn : Members, send_appname : BOOLEAN,
   env : {NoOptions, ("PGTZ" :> <<>>) @@ ("PGGEQO" :> <<"default">>), "PGDATESTYLE" :> <<"iso">>}]
  \cup [kind : {"startup2"},
        conn : {("user" :> u) @@ ("dbname" :> d) @@ ("tty" :> t) @@ o
                  : u \in Texts, d \in Texts, t \in {<<>>, <<"a", "b">>}, o \in Optional("options", Texts)}]
  \cup [kind : {"certificate"}, cert : [sans : SeqOf(Names, 2), cn : {{}} \cup {{n} : n \in Names}],
        sslmode : {"require", "verify-full"}, host : Hosts]

\* What can be wrong with a file, one file of the four at a time, and with a server.
Good4 == [o \in SSLFiles |-> [given |-> "good", home |-> "good"]]
States == [sslrootcert |-> {"good", "missing", "bad"}, sslcrl |-> {"good", "missing", "bad"},
           sslcert |-> {"good", "missing", "denied", "bad"},
           sslkey |-> {"good", "missing", "open", "bad", "other"}]
FilesOf(files, homedir, engine) ==
  [o \in SSLFiles |-> files[o]] @@ ("homedir" :> homedir) @@ ("engine" :> engine)

MCFiles ==
  {FilesOf([[Good4 EXCEPT !["sslcert"].home = c] EXCEPT ![p[1]] = [given |-> p[2], home |-> p[3]]], h, e)
     : p \in UNION {{<<o, g, h>> : g \in States[o], h \in States[o]} : o \in SSLFiles},
       c \in {"good", "missing"}, h \in BOOLEAN,
       e \in {"no", "unknown", "unready", "keyless", "unusable", "other", "good"}}

CertFor(text) == [sans |-> <<>>, cn |-> {[dns |-> TRUE, text |-> text, bad |-> FALSE]}]
OwnServer == [broken |-> FALSE, anonymous |-> FALSE, trusted |-> TRUE, revoked |-> FALSE, asks |-> FALSE,
              cert |-> CertFor(<<"a">>)]
MCServers ==
  {OwnServer, [OwnServer EXCEPT !.broken = TRUE], [OwnServer EXCEPT !.anonymous = TRUE],
   [OwnServer EXCEPT !.trusted = FALSE], [OwnServer EXCEPT !.revoked = TRUE],
   [OwnServer EXCEPT !.asks = TRUE], [OwnServer EXCEPT !.cert = CertFor(<<"b">>)]}

MCSSLJobs ==
  [kind : {"handshake"}, memory : {"all"}, files : MCFiles, server : MCServers,
   conn : [sslmode : {"require", "verify-ca", "verify-full"}, host : {<<"a">>}, given : {{}, SSLFiles}]]
  \cup [kind : {"handshake"}, memory : {"no_context", "no_ssl"}, server : {OwnServer},
        files : {FilesOf(Good4, TRUE, "no")},
        conn : [sslmode : {"require"}, host : {<<"a">>}, given : SUBSET SSLFiles]]

Events ==
  [what : {"open"}, conn : {1, 2}, outcome : {"ok", "early", "late", "no_memory"}]
  \cup [what : {"close"}, conn : {1, 2}]
  \cup [what : {"flags"}, ssl : {TRUE}, crypto : BOOLEAN] \cup [what : {"app"}]

\* Up to four events, also after the application took libcrypto into its own care.
LeftToApp == [what |-> "flags", ssl |-> TRUE, crypto |-> FALSE]
MCLibraryJobs ==
  {[kind |-> "library", events |-> start \o s] : start \in {<<>>, <<LeftToApp>>}, s \in SeqOf(Events, 4)}

\* Texts around the sizes that count: the hardly any room, the first buffer, the largest int.
BufferText(n) == [i \in 1..n |-> n + i]
Operations ==
  [what : {"reset"}, memory : {0, 40}]
  \cup [what : {"append"}, text : {BufferText(n) : n \in {0, 1, 3, 7, 8, 38}}, memory : {10, 40}]
  \cup [what : {"format"}, text : {BufferText(n) : n \in {1, 4, 5, 6, 20}},
        vsnprintf : {"c99", "stored", "minus", "error"}, memory : {40}]
  \cup [what : {"printf"}, text : {BufferText(5)}, vsnprintf : {"c99"}, memory : {0, 40}]

MCBufferJobs == [kind : {"buffer"}, memory : {0, 40}, ops : SeqOf(Operations, 3)]
=============================================================================

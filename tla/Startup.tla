------------------------------- MODULE Startup -------------------------------
(***************************************************************************)
(* What client and server tell each other about themselves when a          *)
(* connection starts: the startup packets of both protocols, the version   *)
(* the server reports, and the names in the certificate of the server.     *)
(* Strings are sequences of tokens, as in Conninfo; upper and lower case   *)
(* of a name are the same token.                                           *)
(***************************************************************************)
EXTENDS Integers, SequencesExt

CONSTANTS SM_USER, SM_DATABASE, SM_OPTIONS, SM_TTY    \* sizes of the fields of protocol 2

Beginning(s, n) == SubSeq(s, 1, IF n < Len(s) THEN n ELSE Len(s))

-----------------------------------------------------------------------------
(* Startup packets. conn: the members of the PGconn that are not NULL. *)

\* EnvironmentOptions
Environment == <<<<"PGDATESTYLE", "datestyle">>, <<"PGTZ", "timezone">>, <<"PGGEQO", "geqo">>>>

\* build_startup_packet: names and values in turn, ended by an empty name.
pqBuildStartupPacket3(conn, send_appname, env) ==
  LET option(name, k) == IF k \in DOMAIN conn /\ conn[k] # <<>> THEN <<<<name>>, conn[k]>> ELSE <<>>
      appname == IF ~send_appname THEN <<>>
                 ELSE option("application_name", IF "appname" \in DOMAIN conn THEN "appname" ELSE "fbappname")
      setting(e) == IF e[1] \in DOMAIN env /\ env[e[1]] # <<"default">>
                    THEN <<<<e[2]>>, env[e[1]]>> ELSE <<>>
  IN  option("user", "user") \o option("database", "dbname") \o option("replication", "replication")
        \o option("options", "options") \o appname \o option("client_encoding", "client_encoding")
        \o FlattenSeq([i \in DOMAIN Environment |-> setting(Environment[i])]) \o <<<<>>>>

\* Fixed fields; what does not fit is left out. As many bytes of the tty are taken as the
\* name of the database has, and one more.
pqBuildStartupPacket2(conn) ==
  ("user" :> Beginning(conn["user"], SM_USER)) @@ ("database" :> Beginning(conn["dbname"], SM_DATABASE))
    @@ ("tty" :> Beginning(conn["tty"], IF Len(conn["dbname"]) >= SM_TTY THEN SM_TTY ELSE Len(conn["dbname"]) + 1))
    @@ ("options" :> IF "options" \in DOMAIN conn THEN Beginning(conn["options"], SM_OPTIONS) ELSE <<>>)

\* The server's loop over the packet: [name, value] of what it reads, up to the empty name.
ServerOptions(packet) ==
  LET read[i \in 1..Len(packet) + 1] ==
        IF i >= Len(packet) \/ packet[i] = <<>> THEN <<>>
        ELSE (packet[i][1] :> packet[i + 1]) @@ read[i + 2]
  IN  read[1]

-----------------------------------------------------------------------------
(* pqSaveParameterStatus: the number made of a server version, of the numbers that could
   be read from it. *)

sversion(v) ==
  CASE Len(v) = 3 -> (100 * v[1] + v[2]) * 100 + v[3]
    [] Len(v) = 2 -> IF v[1] >= 10 THEN 10000 * v[1] + v[2] ELSE (100 * v[1] + v[2]) * 100
    [] Len(v) = 1 -> 10000 * v[1]
    [] OTHER -> 0

-----------------------------------------------------------------------------
(* The certificate of the server: [sans |-> its alternative names, each [dns, text, bad],
   cn |-> a set of at most one name]. bad: the name cannot be used, for it holds a NUL or
   there is no memory for it. *)

wildcard_certificate_match(pattern, string) ==
  LET offset == Len(string) - Len(pattern)      \* what * stands for is this much longer
  IN  /\ Len(pattern) >= 3 /\ SubSeq(pattern, 1, 2) = <<"*", ".">>
      /\ offset >= 0
      /\ Tail(pattern) = SubSeq(string, offset + 2, Len(string))
      /\ SelectInSeq(string, LAMBDA c : c = ".") - 1 >= offset

\* verify_peer_name_matches_certificate_name
NameVerdict(name, host) ==
  CASE name.bad -> "error"
    [] ~name.bad /\ (name.text = host \/ wildcard_certificate_match(name.text, host)) -> "match"
    [] OTHER -> "none"

\* Mutant: a name that cannot be used is passed over.
FirstVerdict_ErrorsPassed(names, host) ==
  LET found == SelectSeq(names, LAMBDA n : NameVerdict(n, host) = "match")
  IN  IF found = <<>> THEN "none" ELSE NameVerdict(found[1], host)

\* The names are tried in turn, until one decides.
FirstVerdict(names, host) ==
  LET deciding == SelectSeq(names, LAMBDA n : NameVerdict(n, host) # "none")
  IN  IF deciding = <<>> THEN "none" ELSE NameVerdict(deciding[1], host)

verify_peer_name_matches_certificate(cert, sslmode, host) ==
  LET alternatives == SelectSeq(cert.sans, LAMBDA n : n.dns)
      common == IF cert.cn = {} THEN <<>> ELSE <<CHOOSE n \in cert.cn : TRUE>>
  IN  \/ sslmode # "verify-full"
      \/ /\ host # <<>>
         /\ FirstVerdict(IF alternatives = <<>> THEN common ELSE alternatives, host) = "match"
=============================================================================

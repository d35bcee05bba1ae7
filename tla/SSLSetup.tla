------------------------------ MODULE SSLSetup ------------------------------
(***************************************************************************)
(* How libpq sets up SSL (fe-secure-openssl.c): the state of the library   *)
(* that all connections of a process share, the files a connection needs,  *)
(* and what it accepts of a server. OpenSSL itself is external.            *)
(* files: for each option the state of the file it names ("given") and of  *)
(* the one in the home directory ("home").                                 *)
(***************************************************************************)
EXTENDS Startup

-----------------------------------------------------------------------------
(* The library. idCallback, lockCallback: whose functions libcrypto calls,
   "none", "libpq" or "app". *)

FreshLibrary ==
  [pq_init_ssl_lib |-> TRUE, pq_init_crypto_lib |-> TRUE, ssl_lib_initialized |-> FALSE,
   pq_lockarray |-> FALSE, ssl_open_connections |-> 0,
   idCallback |-> "none", lockCallback |-> "none"]

Registered(callback) == IF callback = "none" THEN "libpq" ELSE callback
Unregistered(callback) == IF callback = "libpq" THEN "none" ELSE callback

\* {} where the mutex or the locks for libcrypto cannot be had.
pgtls_init(lib, outcome) ==
  LET locks == lib.pq_lockarray \/ outcome # "no_memory"
      counted == IF lib.pq_init_crypto_lib
                 THEN [lib EXCEPT !.pq_lockarray = TRUE, !.ssl_open_connections = @ + 1,
                         !.idCallback = IF lib.ssl_open_connections = 0 THEN Registered(@) ELSE @,
                         !.lockCallback = IF lib.ssl_open_connections = 0 THEN Registered(@) ELSE @]
                 ELSE lib
  IN  IF outcome = "no_mutex" \/ (lib.pq_init_crypto_lib /\ ~locks) THEN {}
      ELSE {[counted EXCEPT !.ssl_lib_initialized = TRUE]}

\* Mutant: the callbacks go with every connection.
destroy_ssl_system_AtOnce(lib) ==
  LET left == IF lib.ssl_open_connections > 0 THEN lib.ssl_open_connections - 1 ELSE 0
  IN  IF ~lib.pq_init_crypto_lib THEN lib
      ELSE [lib EXCEPT !.ssl_open_connections = left,
              !.idCallback = Unregistered(@), !.lockCallback = Unregistered(@)]

destroy_ssl_system(lib) ==
  LET left == IF lib.ssl_open_connections > 0 THEN lib.ssl_open_connections - 1 ELSE 0
  IN  IF ~lib.pq_init_crypto_lib THEN lib
      ELSE [lib EXCEPT !.ssl_open_connections = left,
              !.idCallback = IF left = 0 THEN Unregistered(@) ELSE @,
              !.lockCallback = IF left = 0 THEN Unregistered(@) ELSE @]

\* PQinitOpenSSL
pgtls_init_library(lib, do_ssl, do_crypto) ==
  IF lib.ssl_open_connections # 0 THEN lib
  ELSE [lib EXCEPT !.pq_init_ssl_lib = do_ssl, !.pq_init_crypto_lib = do_crypto]

-----------------------------------------------------------------------------
(* The files. conn: [sslmode, given |-> the options set, host]. *)

SSLFiles == {"sslrootcert", "sslcrl", "sslcert", "sslkey"}

\* The state of the file for an option; "none" where there is no name for it.
FileFor(conn, files, option) ==
  CASE option \in conn.given -> files[option].given
    [] option \notin conn.given /\ files.homedir -> files[option].home
    [] OTHER -> "none"

\* The root certificates: "failed", or how the server will be verified.
Verification(conn, files) ==
  LET root == FileFor(conn, files, "sslrootcert")
  IN  CASE root \in {"none", "missing"} ->
             IF conn.sslmode \in {"verify-ca", "verify-full"} THEN "failed" ELSE "not"
        [] root = "bad" -> "failed"
        [] root = "good" -> IF FileFor(conn, files, "sslcrl") = "good" THEN "crl" ELSE "chain"

\* The certificate of the client: "failed", "absent" or "loaded".
ClientCertificate(conn, files) ==
  CASE FileFor(conn, files, "sslcert") \in {"none", "missing"} -> "absent"
    [] FileFor(conn, files, "sslcert") \in {"denied", "bad"} -> "failed"
    [] OTHER -> "loaded"

\* A key of the form engine:name. What fails in between lets the engine go.
EngineKey(engine) ==
  CASE engine \in {"unknown", "unready", "keyless", "unusable"} -> [ok |-> FALSE, engine |-> FALSE]
    [] engine = "other" -> [ok |-> FALSE, engine |-> TRUE]
    [] engine = "good" -> [ok |-> TRUE, engine |-> TRUE]

\* The private key that goes with the certificate, from an engine or a file that nobody
\* else may read; without one the certificate matches no key.
PrivateKey(conn, files) ==
  IF "sslkey" \in conn.given /\ files.engine # "no"
  THEN EngineKey(files.engine)
  ELSE [ok |-> FileFor(conn, files, "sslkey") = "good", engine |-> FALSE]

Unset == [ssl |-> FALSE, engine |-> FALSE, verify |-> "not", presents |-> FALSE]

\* tls: what the connection holds; ok whether it can go on.
initialize_SSL(conn, files, memory) ==
  LET verify == Verification(conn, files)
      cert == ClientCertificate(conn, files)
      key == PrivateKey(conn, files)
  IN  CASE memory = "no_context" \/ verify = "failed" \/ cert = "failed" \/ memory = "no_ssl" ->
             [ok |-> FALSE, tls |-> Unset]
        [] memory = "all" /\ verify # "failed" /\ cert = "absent" ->
             [ok |-> TRUE, tls |-> [Unset EXCEPT !.ssl = TRUE, !.verify = verify]]
        [] memory = "all" /\ verify # "failed" /\ cert = "loaded" ->
             [ok |-> key.ok,
              tls |-> [ssl |-> TRUE, engine |-> key.engine,
                       verify |-> IF key.ok THEN verify ELSE "not", presents |-> key.ok]]

\* OpenSSL: the handshake with a server, its chain checked where verification is on.
SSL_connect(tls, server) ==
  /\ ~server.broken
  /\ server.asks => tls.presents
  /\ tls.verify # "not" => server.trusted
  /\ tls.verify = "crl" => ~server.revoked

\* SSL_free, X509_free, ENGINE_finish: nothing is left.
pgtls_close(tls) == Unset

\* [open, tls] when the handshake is over.
open_client_SSL(conn, tls, server) ==
  IF /\ SSL_connect(tls, server) /\ ~server.anonymous
     /\ verify_peer_name_matches_certificate(server.cert, conn.sslmode, conn.host)
  THEN [open |-> TRUE, tls |-> tls]
  ELSE [open |-> FALSE, tls |-> pgtls_close(tls)]

pgtls_open_client(conn, files, memory, server) ==
  LET made == initialize_SSL(conn, files, memory)
  IN  IF made.ok THEN open_client_SSL(conn, made.tls, server)
      ELSE [open |-> FALSE, tls |-> pgtls_close(made.tls)]

-----------------------------------------------------------------------------
(* The connections of a process over time: all: [lib, ssl |-> the connections that hold an
   SSL object]. *)

NoConnection == [lib |-> FreshLibrary, ssl |-> {}]

\* A connection attempt: "early" ends before there is an SSL object, "late" after.
Opened(all, c, outcome) ==
  LET initialized == pgtls_init(all.lib, outcome)
      lib == CHOOSE l \in initialized : TRUE
  IN  CASE initialized = {} -> all
        [] outcome = "early" /\ initialized # {} -> [all EXCEPT !.lib = lib]
        [] outcome = "late" /\ initialized # {} -> [all EXCEPT !.lib = destroy_ssl_system(lib)]
        [] OTHER -> [lib |-> lib, ssl |-> all.ssl \union {c}]

Closed(all, c) ==
  IF c \in all.ssl THEN [lib |-> destroy_ssl_system(all.lib), ssl |-> all.ssl \ {c}] ELSE all

\* The application has callbacks of its own.
AppRegisters(all) == [all EXCEPT !.lib.idCallback = "app", !.lib.lockCallback = "app"]

\* What connections and application do, one after the other.
After(all, event) ==
  CASE event.what = "open" -> IF event.conn \in all.ssl THEN all ELSE Opened(all, event.conn, event.outcome)
    [] event.what = "close" -> Closed(all, event.conn)
    [] event.what = "flags" -> [all EXCEPT !.lib = pgtls_init_library(@, event.ssl, event.crypto)]
    [] event.what = "app" -> AppRegisters(all)
=============================================================================

------------------------------- MODULE Connect -------------------------------
(***************************************************************************)
(* Opening a connection: the state machine of PQconnectPoll in             *)
(* fe-connect.c, from the address list to CONNECTION_OK, with the loop of  *)
(* connectDBComplete around it, PQreset and PQfinish, the SSL negotiation, *)
(* the authentication exchange and the SETENV phase of protocol 2.0.       *)
(*                                                                         *)
(* The server, the network and the OpenSSL library are outside: a server   *)
(* may decline, refuse, ask for a password it does not get, speak only     *)
(* protocol 2.0, die, or never answer.  Messages are read in any portions, *)
(* so that one may have arrived in part.                                   *)
(***************************************************************************)
EXTENDS Integers, Sequences, FiniteSets

CONSTANTS
  UseSSL,     \* the library was built with USE_SSL
  Options,    \* the connection parameters that are tried
  NumAddrs    \* length of the address list of the host

SSLModes == {"disable", "allow", "prefer", "require"}
OptionRecords ==
  [sslmode : SSLModes,     \* "require" stands for the verify modes, too
   unix : BOOLEAN,         \* the host is a Unix-domain socket
   password : BOOLEAN,     \* a password was given
   appname : BOOLEAN,      \* application_name was given
   timeout : BOOLEAN,      \* connect_timeout is positive
   encoding : BOOLEAN,     \* client_encoding was given
   settings : 0..3,        \* PG... environment variables to pass on (2.0)
   async : BOOLEAN,        \* the caller polls, as PQconnectStart wants
   resets : Nat]           \* bound: times the caller calls PQreset

ASSUME OptionsAssumption == UseSSL \in BOOLEAN /\ Options \subseteq OptionRecords
ASSUME NumAddrsAssumption == NumAddrs \in Nat \ {0}

VARIABLES
  opt,    \* the parameters, constant
  conn,   \* the PGconn
  pc,     \* "new", "user", "freed": with the caller; "wait": in select;
          \* "entry", "going" (keep_going), "setenv": inside PQconnectPoll
  flag,   \* what PQconnectPoll returned last
  first,  \* this is the poll that connectDBStart makes
  late,   \* the finish_time of connectDBComplete has passed
  fds,    \* open sockets of the process
  link,   \* the network connection of conn.sock and the server behind it
  log     \* history of the attempt

vars == <<opt, conn, pc, flag, first, late, fds, link, log>>

NoLink == [net |-> "none", wire |-> <<>>, asked |-> "nothing",
           requested |-> FALSE, welcomed |-> FALSE, tls |-> FALSE]

NewLog == [starts |-> 0, opened |-> 0, tried |-> {}, talked |-> FALSE,
           broke |-> FALSE, clear |-> FALSE, requested |-> FALSE,
           declined |-> FALSE, refused |-> FALSE]

makeEmptyPGconn ==
  [status |-> "BAD", sock |-> 0, addrlist |-> FALSE, addr_cur |-> 0,
   pversion |-> 3, allow_ssl_try |-> UseSSL, wait_ssl_try |-> FALSE,
   ssl_in_use |-> FALSE, send_appname |-> FALSE, options_valid |-> FALSE,
   asyncStatus |-> "IDLE", setenv_state |-> "IDLE", next_eo |-> 0,
   auth_req_received |-> FALSE, password_needed |-> FALSE,
   in |-> <<>>, half |-> FALSE]

Init ==
  /\ opt \in Options
  /\ conn = makeEmptyPGconn
  /\ pc = "new" /\ flag = "WRITING" /\ first = FALSE /\ late = FALSE
  /\ fds = {} /\ link = NoLink /\ log = NewLog

-----------------------------------------------------------------------------
(* Helpers on a PGconn. *)

\* Flushes the input only if told to; unsent output always goes.
pqDropConnection(c, flushInput) ==
  [c EXCEPT !.ssl_in_use = FALSE, !.sock = 0,
            !.in = IF flushInput THEN <<>> ELSE @,
            !.half = IF flushInput THEN FALSE ELSE @]

\* Mutant: the last element is never reached.
NextAddr_LastMissed(a) == IF a + 1 < NumAddrs THEN a + 1 ELSE 0

\* The next element of the address list, 0 at its end.
NextAddr(a) == IF a < NumAddrs THEN a + 1 ELSE 0

\* The lowest free descriptor.
NewSocket == CHOOSE s \in 1..Cardinality(fds) + 1 :
               s \notin fds /\ \A t \in 1..s - 1 : t \in fds

\* The PGconn becomes c; a socket it gives up is closed.
Become(c) ==
  /\ conn' = c
  /\ IF conn.sock # 0 /\ c.sock = 0
       THEN fds' = fds \ {conn.sock} /\ link' = NoLink
       ELSE UNCHANGED <<fds, link>>

\* Mutant: the connection is not dropped first.
Retry_NotDropped(c) == [c EXCEPT !.status = "NEEDED"]

\* Every retry drops the connection and begins again at the same address.
Retry(c) == [pqDropConnection(c, TRUE) EXCEPT !.status = "NEEDED"]

\* The PGconn after PQconnectPoll returned FAILED to its caller:
\* connectDBStart and connectDBComplete set BAD, and the former drops the
\* socket; a caller of PQconnectPoll sees the status as it was left.
AfterFailure(c) ==
  IF first THEN [pqDropConnection(c, TRUE) EXCEPT !.status = "BAD"]
  ELSE IF opt.async THEN c
  ELSE [c EXCEPT !.status = "BAD"]

\* PQconnectPoll returns f, and the caller acts on it.
Return(f) ==
  /\ pc' = IF f \in {"READING", "WRITING"} THEN "wait" ELSE "user"
  /\ flag' = f /\ first' = FALSE
  /\ UNCHANGED <<opt, late>>

\* error_return
Fail(c) == Become(AfterFailure([c EXCEPT !.status = "BAD"])) /\ Return("FAILED")

KeepGoing == pc' = "going" /\ UNCHANGED <<opt, flag, first, late>>

\* A packet is handed to the socket; that may fail when the peer is gone.
Sent(request) ==
  link' = [link EXCEPT !.asked = IF link.net = "up" THEN request ELSE @,
                       !.requested = @ \/ request = "ssl"]
SendMayFail == link.net = "closed"

\* Answers whose first byte tells all that PQconnectPoll looks at.
OneByte == {"S", "N", "junk"}

\* What pqReadData can do: fail, find nothing new, or take some messages and
\* perhaps a part of the next one.
ReadOutcomes ==
  {r \in [n : {-1, 0, 1}, taken : 0..Len(link.wire), half : BOOLEAN] :
     CASE r.n = -1 -> link.net = "closed" /\ link.wire = <<>> /\ r.taken = 0 /\ ~r.half
       [] r.n = 0  -> conn.ssl_in_use /\ link.wire # <<>> /\ ~conn.half
                      /\ r.taken = 0 /\ r.half
       [] r.n = 1  -> /\ r.taken > 0 \/ (r.half /\ ~conn.half)
                      /\ r.half => /\ r.taken < Len(link.wire)
                                   /\ link.wire[r.taken + 1] \notin OneByte}

pqReadData(r) ==
  IF r.n = -1 THEN [pqDropConnection(conn, FALSE) EXCEPT !.status = "BAD"]
  ELSE [conn EXCEPT !.in = @ \o SubSeq(link.wire, 1, r.taken), !.half = r.half]
LinkAfter(r) == [link EXCEPT !.wire = SubSeq(@, r.taken + 1, Len(@))]

-----------------------------------------------------------------------------
(* Starting, waiting, closing. *)

\* The parameters are refused before any connection is tried.
connectOptions2Fails ==
  ~UseSSL /\ opt.sslmode = "require"

\* connectDBStart gets no address list: a bad port, a socket path that is
\* too long, a name that cannot be resolved.
StartFails(c) ==
  /\ Become([pqDropConnection(c, TRUE) EXCEPT !.status = "BAD", !.options_valid = FALSE])
  /\ pc' = "user" /\ flag' = "FAILED"
  /\ UNCHANGED <<opt, first, late>>
  /\ log' = [log EXCEPT !.starts = @ + 1, !.opened = 0, !.broke = TRUE]

connectDBStart(c) ==
  \/ StartFails(c)
  \/ /\ c.options_valid
     /\ Become([c EXCEPT !.in = <<>>, !.half = FALSE,
          !.allow_ssl_try = IF opt.sslmode = "disable" THEN FALSE ELSE @,
          !.wait_ssl_try = IF UseSSL /\ opt.sslmode = "allow" THEN TRUE ELSE @,
          !.addrlist = TRUE, !.addr_cur = 1, !.pversion = 3,
          !.send_appname = TRUE, !.status = "NEEDED"])
     /\ pc' = "going" /\ first' = TRUE /\ late' = FALSE
     /\ log' = [log EXCEPT !.starts = @ + 1, !.opened = 0, !.tried = {},
                           !.talked = FALSE, !.broke = FALSE, !.clear = FALSE,
                           !.requested = FALSE, !.refused = FALSE]
     /\ UNCHANGED <<opt, flag>>

PQsetdbLogin ==
  /\ pc = "new"
  /\ IF connectOptions2Fails
       THEN /\ pc' = "user" /\ flag' = "FAILED"
            /\ UNCHANGED <<opt, conn, first, late, fds, link, log>>
       ELSE connectDBStart([conn EXCEPT !.options_valid = TRUE])

\* closePGconn: an address list still held is freed.
closePGconn(c) ==
  [pqDropConnection(c, TRUE) EXCEPT !.status = "BAD", !.asyncStatus = "IDLE",
                                    !.addrlist = FALSE, !.addr_cur = 0]

\* The caller may give up an asynchronous attempt that is under way.
CallerHasIt == pc = "user" \/ (opt.async /\ pc = "wait")

PQreset ==
  /\ CallerHasIt /\ log.starts \in 1..opt.resets
  /\ connectDBStart(closePGconn(conn))

PQfinish ==
  /\ CallerHasIt
  /\ Become(closePGconn(conn))
  /\ pc' = "freed"
  /\ UNCHANGED <<opt, flag, first, late, log>>

Ready == IF flag = "WRITING" THEN link.net # "connecting"
         ELSE link.wire # <<>> \/ link.net = "closed"

\* The wait of connectDBComplete, or of the caller that polls.
Wake ==
  /\ pc = "wait" /\ Ready
  /\ pc' = "entry"
  /\ UNCHANGED <<opt, conn, flag, first, late, fds, link, log>>

\* Mutant: the deadline holds only for reading.
TimedOut_ReadingOnly ==
  /\ pc = "wait" /\ ~opt.async /\ late /\ ~Ready /\ flag = "READING"
  /\ Become([conn EXCEPT !.status = "BAD"])
  /\ pc' = "user" /\ flag' = "FAILED"
  /\ log' = [log EXCEPT !.broke = TRUE]
  /\ UNCHANGED <<opt, first, late>>

\* pqWaitTimed reports that finish_time has passed; the socket stays open.
TimedOut ==
  /\ pc = "wait" /\ ~opt.async /\ late /\ ~Ready
  /\ Become([conn EXCEPT !.status = "BAD"])
  /\ pc' = "user" /\ flag' = "FAILED"
  /\ log' = [log EXCEPT !.broke = TRUE]
  /\ UNCHANGED <<opt, first, late>>

\* PQconnectPoll is entered: the reading states load what has come.
PollEntry ==
  /\ pc = "entry"
  /\ UNCHANGED log
  /\ IF conn.status \in {"AWAITING_RESPONSE", "AUTH_OK"}
       THEN \E r \in ReadOutcomes :
              CASE r.n = -1 -> Fail(pqReadData(r))
                [] r.n = 0 -> /\ conn' = pqReadData(r) /\ link' = LinkAfter(r)
                              /\ Return("READING") /\ UNCHANGED fds
                [] r.n = 1 -> /\ conn' = pqReadData(r) /\ link' = LinkAfter(r)
                              /\ KeepGoing /\ UNCHANGED fds
       ELSE /\ KeepGoing /\ UNCHANGED <<conn, fds, link>>

-----------------------------------------------------------------------------
(* PQconnectPoll, one action per state and turn of keep_going. *)

In(state) == pc = "going" /\ conn.status = state

\* socket() fails: the next address, or the end.
NeededNoSocket ==
  /\ In("NEEDED") /\ conn.addr_cur # 0
  /\ log' = [log EXCEPT !.broke = TRUE]
  /\ IF NextAddr(conn.addr_cur) # 0
       THEN Become([conn EXCEPT !.addr_cur = NextAddr(@)]) /\ KeepGoing
       ELSE Fail(conn)

\* The options of the new socket cannot be set, or connect() fails at once:
\* dropped again, and the next address.
NeededRefused ==
  /\ In("NEEDED") /\ conn.addr_cur # 0
  /\ log' = [log EXCEPT !.opened = @ + 1, !.tried = @ \union {conn.addr_cur}]
  /\ Become([pqDropConnection(conn, TRUE) EXCEPT !.addr_cur = NextAddr(@)])
  /\ KeepGoing

\* connect() succeeds at once, or is in progress.
NeededConnects(net) ==
  /\ In("NEEDED") /\ conn.addr_cur # 0
  /\ opt.unix => net = "up"
  /\ log' = [log EXCEPT !.opened = @ + 1, !.tried = @ \union {conn.addr_cur}]
  /\ conn' = [conn EXCEPT !.sock = NewSocket, !.status = "STARTED"]
  /\ fds' = fds \union {NewSocket}
  /\ link' = [NoLink EXCEPT !.net = net]
  /\ IF net = "up" THEN KeepGoing ELSE Return("WRITING")

NeededNoMore ==
  /\ In("NEEDED") /\ conn.addr_cur = 0
  /\ Fail(conn)
  /\ UNCHANGED log

\* The connection attempt has ended: SO_ERROR says how.
Started ==
  /\ In("STARTED")
  /\ \/ /\ link.net = "up"
        /\ Become([conn EXCEPT !.status = "MADE"]) /\ Return("WRITING")
        /\ UNCHANGED log
     \/ /\ link.net = "up"                 \* getsockopt or getsockname fails
        /\ Fail(conn) /\ log' = [log EXCEPT !.broke = TRUE]
     \/ /\ link.net \in {"refused", "closed"}
        /\ LET c == pqDropConnection(conn, TRUE)
           IN  IF NextAddr(conn.addr_cur) # 0
                 THEN /\ Become([c EXCEPT !.addr_cur = NextAddr(@), !.status = "NEEDED"])
                      /\ KeepGoing
                 ELSE Fail(c)
        /\ UNCHANGED log

\* SSL is to be asked for before the startup packet.
AsksForSSL(c) == c.allow_ssl_try /\ ~c.wait_ssl_try /\ ~c.ssl_in_use

Made ==
  /\ In("MADE")
  /\ LET c == [conn EXCEPT !.allow_ssl_try = @ /\ ~opt.unix]
         ssl == AsksForSSL(c)
     IN  \/ /\ opt.unix \/ SendMayFail     \* requirepeer, or pqPacketSend
            /\ Fail(c) /\ log' = [log EXCEPT !.broke = TRUE]
         \/ /\ conn' = [c EXCEPT !.status = IF ssl THEN "SSL_STARTUP" ELSE "AWAITING_RESPONSE"]
            /\ Sent(IF ssl THEN "ssl" ELSE "startup")
            /\ log' = [log EXCEPT !.talked = TRUE, !.requested = @ \/ ssl,
                                  !.clear = @ \/ (~ssl /\ ~c.ssl_in_use)]
            /\ Return("READING") /\ UNCHANGED fds

\* Mutant: "allow" and "require" fall back to plain, too.
HandshakeFails_AnyMode(c) ==
  /\ log' = [log EXCEPT !.declined = TRUE]
  /\ Become([Retry(c) EXCEPT !.allow_ssl_try = FALSE]) /\ KeepGoing

\* Mutant: the fallback is not remembered.
HandshakeFails_Forgets(c) ==
  /\ log' = [log EXCEPT !.declined = TRUE]
  /\ IF opt.sslmode = "prefer" /\ c.allow_ssl_try /\ ~c.wait_ssl_try
       THEN Become(Retry(c)) /\ KeepGoing
       ELSE Become(AfterFailure(c)) /\ Return("FAILED")

\* The handshake failed: only "prefer" tries again, without SSL.
HandshakeFails(c) ==
  /\ log' = [log EXCEPT !.declined = TRUE]
  /\ IF opt.sslmode = "prefer" /\ c.allow_ssl_try /\ ~c.wait_ssl_try
       THEN Become([Retry(c) EXCEPT !.allow_ssl_try = FALSE]) /\ KeepGoing
       ELSE Become(AfterFailure(c)) /\ Return("FAILED")

\* The server's answer to the request for SSL, and the first call of
\* pqsecure_open_client after an 'S': it fails in initialize_SSL, or
\* SSL_connect has to wait for the socket.
SSLAnswer(r) ==
  LET c == pqReadData(r)
      rest == [c EXCEPT !.in = Tail(@)]
      next == IF c.in # <<>> THEN Head(c.in) ELSE LinkAfter(r).wire[1]
  IN  CASE r.n = -1 -> Fail(c) /\ UNCHANGED log
        [] r.n = 1 /\ next = "S" ->
             \/ Fail(rest) /\ log' = [log EXCEPT !.broke = TRUE]
             \/ HandshakeFails(rest)
             \/ \E f \in {"READING", "WRITING"} :
                  /\ conn' = [rest EXCEPT !.ssl_in_use = TRUE]
                  /\ link' = [LinkAfter(r) EXCEPT
                                !.asked = IF f = "READING" /\ link.net = "up"
                                          THEN "hello" ELSE @]
                  /\ Return(f) /\ UNCHANGED <<fds, log>>
        [] r.n = 1 /\ next = "N" ->
             /\ log' = [log EXCEPT !.declined = TRUE]
             /\ IF opt.sslmode = "require" THEN Fail(rest)
                ELSE /\ conn' = [rest EXCEPT !.allow_ssl_try = FALSE, !.status = "MADE"]
                     /\ link' = LinkAfter(r) /\ UNCHANGED fds /\ Return("WRITING")
        [] r.n = 1 /\ next \in {"E", "Eold"} ->
             /\ conn' = [c EXCEPT !.status = "AWAITING_RESPONSE"]
             /\ link' = LinkAfter(r) /\ KeepGoing /\ UNCHANGED <<fds, log>>
        [] r.n = 1 /\ next \notin {"S", "N", "E", "Eold"} ->
             /\ Fail(c) /\ UNCHANGED log

\* SSL_connect goes on: the hello leaves, the server's part comes and is
\* good or not, or the connection is lost.
Handshake ==
  \/ /\ flag = "WRITING" /\ link.net = "up"
     /\ Sent("hello") /\ Return("READING") /\ UNCHANGED <<conn, fds, log>>
  \/ /\ link.wire # <<>>
     /\ \/ /\ Head(link.wire) = "hs"
           /\ conn' = [conn EXCEPT !.status = "MADE"]
           /\ link' = [link EXCEPT !.wire = Tail(@), !.tls = TRUE]
           /\ Return("WRITING") /\ UNCHANGED <<fds, log>>
        \/ HandshakeFails([conn EXCEPT !.ssl_in_use = FALSE])
  \/ /\ link.wire = <<>> /\ link.net = "closed"
     /\ HandshakeFails([conn EXCEPT !.ssl_in_use = FALSE])

SSLStartup ==
  /\ In("SSL_STARTUP")
  /\ IF conn.ssl_in_use THEN Handshake ELSE \E r \in ReadOutcomes : SSLAnswer(r)

Answer == Head(conn.in)
Consumed == [conn EXCEPT !.in = Tail(@)]
MessageHere == conn.in # <<>>

AwaitingIncomplete ==
  /\ In("AWAITING_RESPONSE") /\ ~MessageHere
  /\ Return("READING") /\ UNCHANGED <<conn, fds, link, log>>

\* Neither an authentication request nor an error, or of absurd length.
AwaitingNotPostgres ==
  /\ In("AWAITING_RESPONSE") /\ MessageHere
  /\ Answer \notin {"E", "Eapp", "Eold", "md5", "ok", "unsupported"}
  /\ Fail(conn) /\ UNCHANGED log

\* The length of the error gives a server of protocol 2.0 away.
AwaitingOldError ==
  /\ In("AWAITING_RESPONSE") /\ MessageHere /\ Answer = "Eold"
  /\ IF conn.pversion = 3
       THEN Become([Retry(Consumed) EXCEPT !.pversion = 2]) /\ KeepGoing
       ELSE Fail(Consumed)
  /\ log' = [log EXCEPT !.refused = @ \/ ~link.requested]

\* The server refuses: try the other of SSL and plain, once.
AwaitingError ==
  /\ In("AWAITING_RESPONSE") /\ MessageHere /\ Answer \in {"E", "Eapp"}
  /\ LET c == Consumed
     IN  CASE opt.sslmode = "allow" /\ ~c.ssl_in_use /\ c.allow_ssl_try /\ c.wait_ssl_try ->
                Become([Retry(c) EXCEPT !.wait_ssl_try = FALSE]) /\ KeepGoing
           [] opt.sslmode = "prefer" /\ c.allow_ssl_try /\ ~c.wait_ssl_try ->
                Become([Retry(c) EXCEPT !.allow_ssl_try = FALSE]) /\ KeepGoing
           [] OTHER -> Fail(c)
  /\ log' = [log EXCEPT !.refused = @ \/ ~link.requested,
                        !.declined = @ \/ link.requested]

\* The server accepts: what follows is read as an asynchronous query.
Authenticated(c) == [c EXCEPT !.status = "AUTH_OK", !.asyncStatus = "BUSY"]

\* pg_fe_sendauth: nothing to send, a password, or a method not supported.
AwaitingRequest ==
  /\ In("AWAITING_RESPONSE") /\ MessageHere /\ Answer \in {"md5", "ok", "unsupported"}
  /\ LET c == [Consumed EXCEPT !.auth_req_received = TRUE,
                               !.password_needed = @ \/ Answer = "md5"]
     IN  CASE Answer = "ok" ->
                /\ conn' = Authenticated(c)
                /\ KeepGoing /\ UNCHANGED <<fds, link, log>>
           [] Answer = "unsupported" \/ (Answer = "md5" /\ ~opt.password) ->
                Fail(c) /\ UNCHANGED log
           [] Answer = "md5" /\ opt.password ->
                \/ SendMayFail /\ Fail(c) /\ UNCHANGED log
                \/ /\ conn' = c /\ Sent("password")
                   /\ KeepGoing /\ UNCHANGED <<fds, log>>

\* Mutant: no message yet is taken for the end of the startup.
AuthOkBusy_TakenForReady ==
  /\ In("AUTH_OK") /\ ~MessageHere
  /\ conn' = [conn EXCEPT !.asyncStatus = "IDLE", !.addrlist = FALSE, !.status = "OK"]
  /\ Return("OK") /\ UNCHANGED <<fds, link, log>>

\* The first messages of the session, read through PQgetResult.
AuthOkBusy ==
  /\ In("AUTH_OK") /\ ~MessageHere
  /\ Return("READING") /\ UNCHANGED <<conn, fds, link, log>>

AuthOkAsynchronous ==
  /\ In("AUTH_OK") /\ MessageHere /\ Answer = "P"
  /\ conn' = Consumed /\ KeepGoing /\ UNCHANGED <<fds, link, log>>

\* A server before 9.0 stumbles over application_name here.
AuthOkResult ==
  /\ In("AUTH_OK") /\ MessageHere /\ Answer \notin {"P", "Z"}
  /\ IF Answer = "Eapp" /\ conn.send_appname /\ opt.appname
       THEN Become([Retry(Consumed) EXCEPT !.send_appname = FALSE]) /\ KeepGoing
       ELSE Fail(Consumed)
  /\ UNCHANGED log

\* ReadyForQuery: the address list is freed.
AuthOkReady ==
  /\ In("AUTH_OK") /\ MessageHere /\ Answer = "Z"
  /\ LET c == [Consumed EXCEPT !.asyncStatus = "IDLE", !.addrlist = FALSE, !.addr_cur = 0]
     IN  IF conn.pversion < 3
           THEN /\ conn' = [c EXCEPT !.status = "SETENV",
                              !.setenv_state = "CLIENT_ENCODING_SEND",
                              !.next_eo = opt.settings]
                /\ Return("WRITING")
           ELSE conn' = [c EXCEPT !.status = "OK"] /\ Return("OK")
  /\ UNCHANGED <<fds, link, log>>

-----------------------------------------------------------------------------
(* CONNECTION_SETENV and pqSetenvPoll. The status pretends to be OK while  *)
(* it runs; next_eo counts the environment variables still to be passed    *)
(* on.                                                                     *)

Waits == [CLIENT_ENCODING_SEND |-> "CLIENT_ENCODING_WAIT",
          OPTION_SEND |-> "OPTION_WAIT",
          QUERY1_SEND |-> "QUERY1_WAIT", QUERY2_SEND |-> "QUERY2_WAIT"]
SetenvSending == DOMAIN Waits
SetenvWaiting == {Waits[s] : s \in SetenvSending}

InSetenv == pc' = "setenv" /\ UNCHANGED <<opt, flag, first, late>>

\* Is there something to send in this state?
ToSend ==
  CASE conn.setenv_state = "CLIENT_ENCODING_SEND" -> opt.encoding
    [] conn.setenv_state = "OPTION_SEND" -> conn.next_eo > 0
    [] conn.setenv_state \in {"QUERY1_SEND", "QUERY2_SEND"} -> TRUE

SetenvFails(c) == Fail([c EXCEPT !.setenv_state = "IDLE"])

SetenvEntry ==
  /\ In("SETENV")
  /\ UNCHANGED <<fds, log>>
  /\ IF conn.setenv_state \in SetenvSending
       THEN conn' = [conn EXCEPT !.status = "OK"] /\ InSetenv /\ UNCHANGED link
       ELSE \E r \in ReadOutcomes :
              /\ r.n # -1
              /\ link' = LinkAfter(r)
              /\ IF r.n = 0 THEN conn' = pqReadData(r) /\ Return("READING")
                 ELSE conn' = [pqReadData(r) EXCEPT !.status = "OK"] /\ InSetenv

SetenvLost ==
  /\ In("SETENV") /\ conn.setenv_state \in SetenvWaiting
  /\ \E r \in ReadOutcomes : r.n = -1 /\ SetenvFails(pqReadData(r))
  /\ UNCHANGED log

Setenv == pc = "setenv" /\ UNCHANGED log

\* On to the next state.
SetenvSkip ==
  /\ Setenv /\ conn.setenv_state \in SetenvSending /\ ~ToSend
  /\ conn' = [conn EXCEPT !.setenv_state =
                IF @ = "CLIENT_ENCODING_SEND" THEN "OPTION_SEND" ELSE "QUERY1_SEND"]
  /\ InSetenv /\ UNCHANGED <<fds, link>>

\* PQsendQuery: after a SET the call goes on, after a query it returns.
SetenvSend ==
  /\ Setenv /\ conn.setenv_state \in SetenvSending /\ ToSend
  /\ LET c == [conn EXCEPT !.setenv_state = Waits[@], !.asyncStatus = "BUSY"]
     IN  \/ SendMayFail /\ SetenvFails(conn)
         \/ /\ conn.setenv_state \in {"CLIENT_ENCODING_SEND", "OPTION_SEND"}
            /\ Sent("set") /\ conn' = c /\ InSetenv /\ UNCHANGED fds
         \/ /\ conn.setenv_state \in {"QUERY1_SEND", "QUERY2_SEND"}
            /\ Sent(IF conn.setenv_state = "QUERY1_SEND" THEN "version" ELSE "encoding")
            /\ conn' = [c EXCEPT !.status = "SETENV"] /\ Return("READING") /\ UNCHANGED fds

SetenvBusy ==
  /\ Setenv /\ conn.setenv_state \in SetenvWaiting /\ ~MessageHere
  /\ conn' = [conn EXCEPT !.status = "SETENV"]
  /\ Return("READING") /\ UNCHANGED <<fds, link>>

\* A result that a SET or the query for the version may not have ends it;
\* the query for the encoding may fail.
SetenvResult ==
  /\ Setenv /\ conn.setenv_state \in SetenvWaiting /\ MessageHere /\ Answer # "Z"
  /\ IF \/ conn.setenv_state \in {"CLIENT_ENCODING_WAIT", "OPTION_WAIT"} /\ Answer # "C"
        \/ conn.setenv_state = "QUERY1_WAIT" /\ Answer \notin {"C", "T"}
       THEN SetenvFails(Consumed)
       ELSE conn' = Consumed /\ InSetenv /\ UNCHANGED <<fds, link>>

SetenvDone ==
  /\ Setenv /\ conn.setenv_state \in SetenvWaiting /\ MessageHere /\ Answer = "Z"
  /\ UNCHANGED <<fds, link>>
  /\ LET c == [Consumed EXCEPT !.asyncStatus = "IDLE"]
     IN  CASE conn.setenv_state = "CLIENT_ENCODING_WAIT" ->
                conn' = [c EXCEPT !.setenv_state = "OPTION_SEND"] /\ InSetenv
           [] conn.setenv_state = "OPTION_WAIT" ->
                /\ conn' = [c EXCEPT !.setenv_state = "OPTION_SEND", !.next_eo = @ - 1]
                /\ InSetenv
           [] conn.setenv_state = "QUERY1_WAIT" ->
                conn' = [c EXCEPT !.setenv_state = "QUERY2_SEND"] /\ InSetenv
           [] conn.setenv_state = "QUERY2_WAIT" ->
                conn' = [c EXCEPT !.setenv_state = "IDLE"] /\ Return("OK")

-----------------------------------------------------------------------------
(* The network, the server and the clock. *)

ConnectionEnds ==
  /\ link.net = "connecting"
  /\ \E net \in {"up", "refused"} : link' = [link EXCEPT !.net = net]
  /\ UNCHANGED <<opt, conn, pc, flag, first, late, fds, log>>

\* What servers of all versions answer.
Answers(request) ==
  CASE request = "ssl" -> {<<"S">>, <<"N">>, <<"E">>, <<"junk">>}
                          \union (IF conn.pversion = 3 THEN {<<"Eold">>} ELSE {})
    [] request = "hello" -> {<<"hs">>, <<"alert">>}
    [] request = "startup" ->
         {<<"ok", "Z">>, <<"ok", "P", "Z">>, <<"ok", "E">>, <<"ok", "T">>, <<"md5">>,
          <<"unsupported">>, <<"E">>, <<"junk">>}
         \union (IF opt.appname /\ conn.send_appname THEN {<<"ok", "Eapp">>} ELSE {})
         \union (IF conn.pversion = 3 THEN {<<"Eold">>} ELSE {})
    [] request = "password" -> {<<"ok", "Z">>, <<"E">>}
    [] request = "set" -> {<<"C", "Z">>, <<"E", "Z">>}
    [] request = "version" -> {<<"C", "T", "C", "Z">>, <<"E", "Z">>}
    [] request = "encoding" -> {<<"T", "Z">>, <<"E", "Z">>}

ServerAnswers ==
  /\ link.net = "up" /\ link.asked # "nothing"
  /\ \E a \in Answers(link.asked) :
       link' = [link EXCEPT !.wire = @ \o a, !.asked = "nothing",
                            !.welcomed = @ \/ a[Len(a)] = "Z"]
  /\ UNCHANGED <<opt, conn, pc, flag, first, late, fds, log>>

\* The server goes away, in an orderly way or with what it had sent.
ServerCloses ==
  /\ link.net = "up"
  /\ \E w \in {link.wire, <<>>} : link' = [link EXCEPT !.net = "closed", !.wire = w]
  /\ UNCHANGED <<opt, conn, pc, flag, first, late, fds, log>>

Tick ==
  /\ pc = "wait" /\ opt.timeout /\ ~late
  /\ late' = TRUE
  /\ UNCHANGED <<opt, conn, pc, flag, first, fds, link, log>>

-----------------------------------------------------------------------------
Poll ==
  \/ PollEntry
  \/ NeededNoSocket \/ NeededRefused \/ NeededNoMore
  \/ \E net \in {"up", "connecting"} : NeededConnects(net)
  \/ Started \/ Made \/ SSLStartup
  \/ AwaitingIncomplete \/ AwaitingNotPostgres \/ AwaitingOldError
  \/ AwaitingError \/ AwaitingRequest
  \/ AuthOkBusy \/ AuthOkAsynchronous \/ AuthOkResult \/ AuthOkReady
  \/ SetenvEntry \/ SetenvLost \/ SetenvSkip \/ SetenvSend \/ SetenvBusy
  \/ SetenvResult \/ SetenvDone

Client == Poll \/ Wake \/ TimedOut
User == PQsetdbLogin \/ PQreset \/ PQfinish
Environment == ConnectionEnds \/ ServerAnswers \/ ServerCloses

Next == Client \/ User \/ Environment \/ Tick

Spec == Init /\ [][Next]_vars

\* The process runs and its clock goes on; nothing is assumed of the server.
FairSpec == Spec /\ WF_vars(Client) /\ WF_vars(Tick)

-----------------------------------------------------------------------------
(* Properties. *)

Statuses == {"OK", "BAD", "STARTED", "MADE", "AWAITING_RESPONSE", "AUTH_OK",
             "SETENV", "SSL_STARTUP", "NEEDED"}

\* The PGconn, the caller's position and the network are what they can be.
TypeOK ==
  /\ opt \in Options
  /\ conn.status \in Statuses /\ conn.pversion \in {2, 3}
  /\ conn.addr_cur \in 0..NumAddrs /\ conn.sock \in Nat
  /\ {conn.allow_ssl_try, conn.wait_ssl_try, conn.ssl_in_use, conn.send_appname,
      conn.addrlist, conn.half, first, late} \subseteq BOOLEAN
  /\ conn.asyncStatus \in {"IDLE", "BUSY"}
  /\ conn.setenv_state \in SetenvSending \union SetenvWaiting \union {"IDLE"}
  /\ pc \in {"new", "user", "freed", "wait", "entry", "going", "setenv"}
  /\ flag \in {"READING", "WRITING", "OK", "FAILED"}
  /\ link.net \in {"none", "connecting", "up", "refused", "closed"}

\* However often it retries, a PGconn never holds a second socket, and when a
\* retry begins nothing is left of the connection before: no unread bytes of
\* another server, no SSL session (pqDropConnection before every
\* CONNECTION_NEEDED). The address list it walks is there as long as a state
\* that can retry is ahead (pg_freeaddrinfo_all in AUTH_OK).
RetriesBeginClean ==
  /\ TypeOK
  /\ fds = IF conn.sock = 0 THEN {} ELSE {conn.sock}
  /\ conn.status = "NEEDED" =>
       conn.in = <<>> /\ ~conn.half /\ ~conn.ssl_in_use /\ conn.sock = 0
  /\ conn.status \in {"NEEDED", "STARTED", "MADE", "SSL_STARTUP", "AWAITING_RESPONSE",
                      "AUTH_OK"} => conn.addrlist

\* Over TCP, sslmode keeps its promises whatever the server answers and
\* however many fallbacks come together: "require" never sends the startup
\* packet in the clear, "disable" never asks for SSL, "prefer" sends it in the
\* clear only after an SSL attempt of this PGconn failed, and "allow" asks for
\* SSL only after plain was refused.
SSLModeKept ==
  ~opt.unix =>
    /\ opt.sslmode = "require" => ~log.clear
    /\ opt.sslmode = "disable" => ~log.requested
    /\ UseSSL /\ opt.sslmode = "prefer" /\ log.clear => log.declined
    /\ opt.sslmode = "allow" /\ log.requested => log.refused

\* No sequence of refusals makes it retry for ever: one attempt opens at most
\* one socket per address and one for each of the fallbacks (the other of SSL
\* and plain, protocol 2.0, no application_name).
AttemptsBounded == log.opened <= NumAddrs + 3

\* PQconnectPoll gives up without a word to any server only when it tried
\* every address (no local failure, no timeout).
EveryAddressTried ==
  pc = "user" /\ flag = "FAILED" /\ conn.status = "BAD" /\ log.starts > 0
    /\ ~log.talked /\ ~log.broke /\ conn.options_valid
    => log.tried = 1..NumAddrs

\* CONNECTION_OK means that the server behind the socket in use said
\* ReadyForQuery, over SSL where it is required, and that nothing of the
\* startup is left to be done.
OpenMeansWelcomed ==
  pc = "user" /\ conn.status = "OK" =>
    /\ conn.sock # 0 /\ link.welcomed /\ conn.asyncStatus = "IDLE" /\ ~conn.addrlist
    /\ opt.sslmode = "require" /\ ~opt.unix => link.tls

\* With connect_timeout, a blocking call returns even if the server never
\* says another word.
ConnectReturns ==
  pc \notin {"new", "user", "freed"} /\ opt.timeout /\ ~opt.async ~> pc \in {"user", "freed"}
=============================================================================

---------------------------- MODULE ConnectProofs ----------------------------
(***************************************************************************)
(* Proofs about Connect, for address lists of any length and any set of    *)
(* parameters: retries begin clean, sslmode keeps its promises, the        *)
(* attempts of one connection are bounded, the whole list is tried, and    *)
(* CONNECTION_OK means that this server said so.                           *)
(*                                                                         *)
(* For the first three a step changes a PGconn in one of eight ways (Rests *)
(* to Begins below).  It is shown first that every action is one of them,  *)
(* then that each of them keeps the invariant.  The others go on from that *)
(* invariant: Walked says which addresses have been tried, Hears what the  *)
(* client heard, and which server said it.                                 *)
(***************************************************************************)
EXTENDS Connect, FiniteSetTheorems, TLAPS

\* The states from which an attempt may still begin again.
Ahead == {"NEEDED", "STARTED", "MADE", "SSL_STARTUP", "AWAITING_RESPONSE", "AUTH_OK"}

ConnFields ==
  {"status", "sock", "addrlist", "addr_cur", "pversion", "allow_ssl_try", "wait_ssl_try",
   "ssl_in_use", "send_appname", "options_valid", "asyncStatus", "setenv_state", "next_eo",
   "auth_req_received", "password_needed", "in", "half"}

Shaped(c) ==
  /\ DOMAIN c = ConnFields
  /\ c.status \in Statuses /\ c.sock \in Nat /\ c.addr_cur \in 0..NumAddrs
  /\ c.pversion \in {2, 3} /\ c.asyncStatus \in {"IDLE", "BUSY"}
  /\ c.setenv_state \in SetenvSending \union SetenvWaiting \union {"IDLE"}
  /\ c.allow_ssl_try \in BOOLEAN /\ c.wait_ssl_try \in BOOLEAN /\ c.ssl_in_use \in BOOLEAN
  /\ c.send_appname \in BOOLEAN /\ c.addrlist \in BOOLEAN /\ c.half \in BOOLEAN

LinkFields == {"net", "wire", "asked", "requested", "welcomed", "tls"}
Nets == {"none", "connecting", "up", "refused", "closed"}
ShapedLink(l) == DOMAIN l = LinkFields /\ l.net \in Nets /\ l.requested \in BOOLEAN

LogFields == {"starts", "opened", "tried", "talked", "broke", "clear", "requested",
              "declined", "refused"}
ShapedLog(g) ==
  /\ DOMAIN g = LogFields /\ g.starts \in Nat /\ g.opened \in Nat
  /\ g.clear \in BOOLEAN /\ g.requested \in BOOLEAN
  /\ g.declined \in BOOLEAN /\ g.refused \in BOOLEAN

Shapes == Shaped(conn) /\ ShapedLink(link) /\ ShapedLog(log)

Places == {"new", "user", "freed", "wait", "entry", "going", "setenv"}
Around ==
  /\ opt \in Options /\ pc \in Places /\ flag \in {"READING", "WRITING", "OK", "FAILED"}
  /\ first \in BOOLEAN /\ late \in BOOLEAN
  /\ pc = "new" => conn = makeEmptyPGconn /\ fds = {} /\ log = NewLog /\ link = NoLink
  /\ pc = "setenv" => conn.status = "OK"

Clean ==
  /\ fds = IF conn.sock = 0 THEN {} ELSE {conn.sock}
  /\ conn.status = "NEEDED" =>
       conn.in = <<>> /\ ~conn.half /\ ~conn.ssl_in_use /\ conn.sock = 0
  /\ conn.status \in Ahead => conn.addrlist

\* What SSL was asked for, and who knows it.
Asking ==
  /\ conn.allow_ssl_try => UseSSL
  /\ link.requested => log.requested
  /\ conn.sock = 0 => ~link.requested
  /\ conn.status \in Ahead \ {"NEEDED"} => conn.sock # 0
  /\ log.starts = 0 => conn.status \notin Ahead
  /\ conn.status = "SSL_STARTUP" => link.requested
  /\ conn.status \in Ahead /\ conn.ssl_in_use => link.requested

RequireInv ==
  /\ conn.allow_ssl_try = UseSSL /\ ~conn.wait_ssl_try /\ ~log.clear
  /\ log.starts > 0 => UseSSL
DisableInv ==
  /\ ~log.requested
  /\ conn.status \in Ahead => ~conn.allow_ssl_try
PreferInv ==
  /\ ~conn.wait_ssl_try
  /\ UseSSL /\ ~conn.allow_ssl_try => log.declined
  /\ UseSSL /\ log.clear => log.declined
  /\ conn.status = "AWAITING_RESPONSE" /\ conn.allow_ssl_try => link.requested
AllowInv ==
  /\ log.requested => log.refused
  /\ UseSSL /\ conn.status \in Ahead =>
       IF conn.wait_ssl_try THEN ~log.requested ELSE log.refused

ModeInv ==
  ~opt.unix =>
    /\ opt.sslmode = "require" => RequireInv
    /\ opt.sslmode = "disable" => DisableInv
    /\ opt.sslmode = "prefer" => PreferInv
    /\ opt.sslmode = "allow" => AllowInv

\* What is left to try: addresses, and the three fallbacks.
One(b) == IF b THEN 1 ELSE 0
AddrsLeft(c) ==
  IF c.addr_cur = 0 THEN 0 ELSE NumAddrs - c.addr_cur + One(c.status = "NEEDED")
SSLLeft(c) ==
  One(c.allow_ssl_try /\ (opt.sslmode = "prefer" \/ (opt.sslmode = "allow" /\ c.wait_ssl_try)))
Left(c) == AddrsLeft(c) + SSLLeft(c) + One(c.pversion = 3) + One(c.send_appname)

Counted ==
  /\ log.opened <= NumAddrs + 3
  /\ conn.status \in Ahead => log.opened + Left(conn) <= NumAddrs + 3
  /\ conn.status \in Ahead \ {"NEEDED"} => conn.addr_cur # 0

IInv == Shapes /\ Around /\ Clean /\ Asking /\ ModeInv /\ Counted

-----------------------------------------------------------------------------
(* The ways a step changes the PGconn. *)

SocketKept == conn'.sock = conn.sock /\ fds' = fds /\ link'.requested = link.requested
SocketGone == conn'.sock = 0 /\ fds' = {} /\ link'.requested = FALSE

LogGrows ==
  /\ log'.clear = log.clear /\ log'.requested = log.requested
  /\ log.declined => log'.declined
  /\ log.refused => log'.refused
LogKept == LogGrows /\ log'.starts = log.starts /\ log'.opened = log.opened

Fallbacks(c) == <<c.pversion, c.send_appname, c.allow_ssl_try, c.wait_ssl_try>>

\* The PGconn is left alone.
Rests ==
  conn' = conn /\ fds' = fds /\ log' = log /\ link'.requested = link.requested

\* The attempt is over, well or not.
Ends ==
  /\ SocketKept \/ SocketGone
  /\ conn'.status \notin Ahead /\ conn'.wait_ssl_try = conn.wait_ssl_try
  /\ conn'.allow_ssl_try = conn.allow_ssl_try \/ (opt.unix /\ ~conn'.allow_ssl_try)
  /\ LogGrows
  /\ log'.opened = log.opened \/ log'.opened = 0
  /\ \/ log'.starts = log.starts
     \/ /\ log'.starts = log.starts + 1
        /\ UseSSL \/ opt.sslmode # "require" \/ log.starts > 0

\* On to another state of the same attempt.
Moves ==
  /\ SocketKept /\ LogKept
  /\ conn.status \in Ahead \ {"NEEDED"} /\ conn'.status \in Ahead \ {"NEEDED"}
  /\ conn'.addr_cur = conn.addr_cur /\ conn'.addrlist = conn.addrlist
  /\ \/ Fallbacks(conn') = Fallbacks(conn)
     \/ /\ conn'.allow_ssl_try = FALSE /\ log'.declined /\ opt.sslmode # "require"
        /\ Fallbacks(conn') = Fallbacks([conn EXCEPT !.allow_ssl_try = FALSE])
  /\ conn'.status = "AWAITING_RESPONSE" => conn.status \in {"AWAITING_RESPONSE", "SSL_STARTUP"}
  /\ conn'.status = "SSL_STARTUP" => conn.status = "SSL_STARTUP"
  /\ conn'.ssl_in_use => conn.ssl_in_use \/ conn.status = "SSL_STARTUP"

CleanNow ==
  /\ conn'.status = "NEEDED" /\ conn'.in = <<>>
  /\ conn'.half = FALSE /\ conn'.ssl_in_use = FALSE

\* From the beginning again, at the same address with one fallback less, or
\* at the next.
Retries ==
  /\ SocketGone /\ LogKept /\ CleanNow
  /\ conn.status \in Ahead \ {"NEEDED"} /\ conn'.addrlist = conn.addrlist
  /\ \/ /\ conn'.addr_cur = conn.addr_cur
        /\ \/ conn.pversion = 3
              /\ Fallbacks(conn') = Fallbacks([conn EXCEPT !.pversion = 2])
           \/ conn.send_appname
              /\ Fallbacks(conn') = Fallbacks([conn EXCEPT !.send_appname = FALSE])
           \/ opt.sslmode = "prefer" /\ conn.allow_ssl_try /\ (log'.declined \/ opt.unix)
              /\ Fallbacks(conn') = Fallbacks([conn EXCEPT !.allow_ssl_try = FALSE])
           \/ opt.sslmode = "allow" /\ conn.allow_ssl_try /\ conn.wait_ssl_try
              /\ (log'.refused \/ opt.unix)
              /\ Fallbacks(conn') = Fallbacks([conn EXCEPT !.wait_ssl_try = FALSE])
     \/ /\ conn'.addr_cur = conn.addr_cur + 1 /\ Fallbacks(conn') = Fallbacks(conn)

\* The next address, without a connection to this one.
Skips ==
  /\ SocketGone /\ LogGrows /\ CleanNow
  /\ conn.status = "NEEDED" /\ conn.addr_cur # 0 /\ conn'.addrlist = conn.addrlist
  /\ conn'.addr_cur = (IF conn.addr_cur < NumAddrs THEN conn.addr_cur + 1 ELSE 0)
  /\ Fallbacks(conn') = Fallbacks(conn)
  /\ log'.starts = log.starts /\ log'.opened \in {log.opened, log.opened + 1}

\* A socket is opened.
Connects ==
  /\ conn.status = "NEEDED" /\ conn.addr_cur # 0 /\ conn'.status = "STARTED"
  /\ conn'.sock = 1 /\ fds' = {1} /\ link'.requested = FALSE
  /\ conn'.ssl_in_use = FALSE /\ conn'.addr_cur = conn.addr_cur
  /\ conn'.addrlist = conn.addrlist /\ Fallbacks(conn') = Fallbacks(conn)
  /\ LogGrows /\ log'.starts = log.starts /\ log'.opened = log.opened + 1

\* The first message leaves: the request for SSL, or the startup packet.
Asks ==
  /\ conn.status = "MADE" /\ conn'.sock = conn.sock /\ fds' = fds
  /\ conn'.addr_cur = conn.addr_cur /\ conn'.addrlist = conn.addrlist
  /\ conn'.pversion = conn.pversion /\ conn'.send_appname = conn.send_appname
  /\ conn'.allow_ssl_try = (conn.allow_ssl_try /\ ~opt.unix)
  /\ conn'.wait_ssl_try = conn.wait_ssl_try /\ conn'.ssl_in_use = conn.ssl_in_use
  /\ log'.starts = log.starts /\ log'.opened = log.opened
  /\ log'.declined = log.declined /\ log'.refused = log.refused
  /\ IF conn'.allow_ssl_try /\ ~conn.wait_ssl_try /\ ~conn.ssl_in_use
       THEN /\ conn'.status = "SSL_STARTUP" /\ link'.requested = TRUE
            /\ log'.requested = TRUE /\ log'.clear = log.clear
       ELSE /\ conn'.status = "AWAITING_RESPONSE" /\ link'.requested = link.requested
            /\ log'.requested = log.requested
            /\ log'.clear = (log.clear \/ ~conn.ssl_in_use)

\* connectDBStart begins an attempt.
Begins ==
  /\ SocketGone /\ CleanNow /\ conn'.addrlist = TRUE /\ conn'.addr_cur = 1
  /\ conn'.allow_ssl_try = (conn.allow_ssl_try /\ opt.sslmode # "disable")
  /\ conn'.wait_ssl_try = (conn.wait_ssl_try \/ (UseSSL /\ opt.sslmode = "allow"))
  /\ log'.opened = 0 /\ log'.starts = log.starts + 1
  /\ log'.clear = FALSE /\ log'.requested = FALSE /\ log'.refused = FALSE
  /\ log'.declined = log.declined
  /\ UseSSL \/ opt.sslmode # "require" \/ log.starts > 0

Changes == \/ Rests \/ Ends \/ Moves \/ Retries \/ Skips \/ Connects \/ Asks \/ Begins
-----------------------------------------------------------------------------
(* Each way keeps the invariant. *)

LEMMA RestsKeep ==
  ASSUME Shapes, Clean, Asking, ModeInv, Counted, Rests, opt' = opt
  PROVE  Clean' /\ Asking' /\ ModeInv' /\ Counted'
<1>1. Clean'
  BY DEF Clean, Rests
<1>2. Asking'
  BY DEF Asking, Rests
<1>3. ModeInv'
  BY DEF ModeInv, RequireInv, DisableInv, PreferInv, AllowInv, Rests
<1>4. Counted'
  BY DEF Counted, Left, AddrsLeft, SSLLeft, Rests
<1> QED BY <1>1, <1>2, <1>3, <1>4

LEMMA ChangesKeepClean ==
  ASSUME Shapes, Shapes', Clean, Changes
  PROVE  Clean'
<1>1. CASE Rests
  BY <1>1 DEF Clean, Rests
<1>2. CASE Ends
  BY <1>2 DEF Clean, Ends, Ahead, SocketKept, SocketGone
<1>3. CASE Moves
  BY <1>3 DEF Clean, Moves, SocketKept
<1>4. CASE Retries
  BY <1>4 DEF Clean, Retries, SocketGone, CleanNow
<1>5. CASE Skips
  BY <1>5 DEF Clean, Skips, SocketGone, CleanNow, Ahead
<1>6. CASE Connects
  BY <1>6 DEF Clean, Connects, Ahead
<1>7. CASE Asks
  BY <1>7 DEF Clean, Asks, Ahead
<1>8. CASE Begins
  BY <1>8 DEF Clean, Begins, SocketGone, CleanNow
<1> QED BY <1>1, <1>2, <1>3, <1>4, <1>5, <1>6, <1>7, <1>8 DEF Changes

LEMMA SameFallbacks ==
  ASSUME NEW c, NEW d, Fallbacks(c) = Fallbacks(d)
  PROVE  /\ c.pversion = d.pversion /\ c.send_appname = d.send_appname
         /\ c.allow_ssl_try = d.allow_ssl_try /\ c.wait_ssl_try = d.wait_ssl_try
BY DEF Fallbacks

LEMMA ChangesKeepAsking ==
  ASSUME Shapes, Shapes', Clean, Asking, Changes
  PROVE  Asking'
<1>0. /\ conn.status \in Statuses /\ conn.allow_ssl_try \in BOOLEAN /\ log.starts \in Nat
      /\ conn.ssl_in_use \in BOOLEAN /\ conn'.ssl_in_use \in BOOLEAN
      /\ link.requested \in BOOLEAN /\ link'.requested \in BOOLEAN
      /\ log.requested \in BOOLEAN /\ log'.requested \in BOOLEAN
      /\ conn'.allow_ssl_try \in BOOLEAN /\ DOMAIN conn = ConnFields
  BY DEF Shapes, Shaped, ShapedLink, ShapedLog
<1>1. CASE Rests
  BY <1>1 DEF Asking, Rests
<1>2. CASE Ends
  BY <1>0, <1>2 DEF Asking, Ends, Ahead, SocketKept, SocketGone, LogGrows
<1>3. CASE Moves
  <2>1. conn'.allow_ssl_try = conn.allow_ssl_try \/ conn'.allow_ssl_try = FALSE
    BY <1>3, SameFallbacks DEF Moves
  <2> QED BY <1>0, <1>3, <2>1 DEF Asking, Moves, SocketKept, LogKept, LogGrows
<1>4. CASE Retries
  <2>1. conn'.allow_ssl_try => conn.allow_ssl_try
    BY <1>0, <1>4, SameFallbacks DEF Retries, ConnFields
  <2> QED BY <1>0, <1>4, <2>1 DEF Asking, Retries, SocketGone, CleanNow, LogKept, LogGrows
<1>5. CASE Skips
  <2>1. conn'.allow_ssl_try = conn.allow_ssl_try
    BY <1>5, SameFallbacks DEF Skips
  <2> QED BY <1>0, <1>5, <2>1 DEF Asking, Skips, SocketGone, CleanNow, LogGrows, Ahead
<1>6. CASE Connects
  <2>1. conn'.allow_ssl_try = conn.allow_ssl_try
    BY <1>6, SameFallbacks DEF Connects
  <2> QED BY <1>0, <1>6, <2>1 DEF Asking, Connects, LogGrows, Ahead
<1>7. CASE Asks
  BY <1>0, <1>7 DEF Asking, Asks, Clean, Ahead
<1>8. CASE Begins
  BY <1>0, <1>8 DEF Asking, Begins, SocketGone, CleanNow, Ahead
<1> QED BY <1>1, <1>2, <1>3, <1>4, <1>5, <1>6, <1>7, <1>8 DEF Changes

LEMMA ChangesKeepRequire ==
  ASSUME Shapes, Shapes', Clean, Asking, Changes, opt' = opt, opt \in OptionRecords,
         ~opt.unix, opt.sslmode = "require", RequireInv
  PROVE  RequireInv'
<1>0. /\ conn.allow_ssl_try \in BOOLEAN /\ conn.wait_ssl_try \in BOOLEAN
      /\ log.starts \in Nat /\ log.clear \in BOOLEAN /\ log'.clear \in BOOLEAN
      /\ conn'.wait_ssl_try \in BOOLEAN /\ conn.ssl_in_use \in BOOLEAN
      /\ UseSSL \in BOOLEAN /\ opt.unix \in BOOLEAN
  BY OptionsAssumption DEF Shapes, Shaped, ShapedLog, OptionRecords
<1>1. CASE Rests
  BY <1>1 DEF RequireInv, Rests
<1>2. CASE Ends
  BY <1>0, <1>2 DEF RequireInv, Ends, LogGrows
<1>3. CASE Moves
  <2>1. conn'.allow_ssl_try = conn.allow_ssl_try /\ conn'.wait_ssl_try = conn.wait_ssl_try
    BY <1>3, SameFallbacks DEF Moves
  <2> QED BY <1>0, <1>3, <2>1 DEF RequireInv, Moves, LogKept, LogGrows
<1>4. CASE Retries
  <2>1. conn'.allow_ssl_try = conn.allow_ssl_try /\ conn'.wait_ssl_try = conn.wait_ssl_try
    BY <1>0, <1>4, SameFallbacks DEF Retries, Shapes, Shaped, ConnFields
  <2> QED BY <1>0, <1>4, <2>1 DEF RequireInv, Retries, LogKept, LogGrows
<1>5. CASE Skips
  <2>1. conn'.allow_ssl_try = conn.allow_ssl_try /\ conn'.wait_ssl_try = conn.wait_ssl_try
    BY <1>5, SameFallbacks DEF Skips
  <2> QED BY <1>0, <1>5, <2>1 DEF RequireInv, Skips, LogGrows
<1>6. CASE Connects
  <2>1. conn'.allow_ssl_try = conn.allow_ssl_try /\ conn'.wait_ssl_try = conn.wait_ssl_try
    BY <1>6, SameFallbacks DEF Connects
  <2> QED BY <1>0, <1>6, <2>1 DEF RequireInv, Connects, LogGrows
<1>7. CASE Asks
  <2>1. UseSSL
    BY <1>0, <1>7 DEF Asking, Asks, RequireInv, Ahead
  <2> QED BY <1>0, <1>7, <2>1 DEF RequireInv, Asks
<1>8. CASE Begins
  BY <1>0, <1>8 DEF RequireInv, Begins
<1> QED BY <1>1, <1>2, <1>3, <1>4, <1>5, <1>6, <1>7, <1>8 DEF Changes

LEMMA ChangesKeepDisable ==
  ASSUME Shapes, Shapes', Clean, Asking, Changes, opt' = opt, opt \in OptionRecords,
         ~opt.unix, opt.sslmode = "disable", DisableInv
  PROVE  DisableInv'
<1>0. /\ conn.allow_ssl_try \in BOOLEAN /\ conn.wait_ssl_try \in BOOLEAN
      /\ conn'.allow_ssl_try \in BOOLEAN /\ DOMAIN conn = ConnFields
      /\ log.requested \in BOOLEAN /\ log'.requested \in BOOLEAN
  BY DEF Shapes, Shaped, ShapedLog
<1>1. CASE Rests
  BY <1>1 DEF DisableInv, Rests
<1>2. CASE Ends
  BY <1>0, <1>2 DEF DisableInv, Ends, LogGrows
<1>3. CASE Moves
  <2>1. conn'.allow_ssl_try => conn.allow_ssl_try
    BY <1>0, <1>3, SameFallbacks DEF Moves
  <2> QED BY <1>0, <1>3, <2>1 DEF DisableInv, Moves, LogKept, LogGrows
<1>4. CASE Retries
  <2>1. conn'.allow_ssl_try => conn.allow_ssl_try
    BY <1>0, <1>4, SameFallbacks DEF Retries, ConnFields
  <2> QED BY <1>0, <1>4, <2>1 DEF DisableInv, Retries, LogKept, LogGrows
<1>5. CASE Skips
  <2>1. conn'.allow_ssl_try = conn.allow_ssl_try
    BY <1>5, SameFallbacks DEF Skips
  <2> QED BY <1>0, <1>5, <2>1 DEF DisableInv, Skips, LogGrows, Ahead
<1>6. CASE Connects
  <2>1. conn'.allow_ssl_try = conn.allow_ssl_try
    BY <1>6, SameFallbacks DEF Connects
  <2> QED BY <1>0, <1>6, <2>1 DEF DisableInv, Connects, LogGrows, Ahead
<1>7. CASE Asks
  BY <1>0, <1>7 DEF DisableInv, Asks, Ahead
<1>8. CASE Begins
  BY <1>0, <1>8 DEF DisableInv, Begins
<1> QED BY <1>1, <1>2, <1>3, <1>4, <1>5, <1>6, <1>7, <1>8 DEF Changes

LEMMA ChangesKeepPrefer ==
  ASSUME Shapes, Shapes', Clean, Asking, Changes, opt' = opt, opt \in OptionRecords,
         ~opt.unix, opt.sslmode = "prefer", PreferInv
  PROVE  PreferInv'
<1>0. /\ conn.allow_ssl_try \in BOOLEAN /\ conn.wait_ssl_try \in BOOLEAN
      /\ conn'.allow_ssl_try \in BOOLEAN /\ DOMAIN conn = ConnFields
      /\ conn.ssl_in_use \in BOOLEAN
      /\ UseSSL \in BOOLEAN /\ opt.unix \in BOOLEAN
      /\ log.clear \in BOOLEAN /\ log.declined \in BOOLEAN
      /\ log'.clear \in BOOLEAN /\ log'.declined \in BOOLEAN
      /\ link.requested \in BOOLEAN /\ link'.requested \in BOOLEAN
  BY OptionsAssumption DEF Shapes, Shaped, ShapedLog, ShapedLink, OptionRecords
<1>1. CASE Rests
  BY <1>1 DEF PreferInv, Rests
<1>2. CASE Ends
  BY <1>0, <1>2 DEF PreferInv, Ends, LogGrows, Ahead
<1>3. CASE Moves
  <2>1. /\ conn'.wait_ssl_try = conn.wait_ssl_try
        /\ \/ conn'.allow_ssl_try = conn.allow_ssl_try
           \/ conn'.allow_ssl_try = FALSE /\ log'.declined
    BY <1>0, <1>3, SameFallbacks DEF Moves, ConnFields
  <2>2. /\ log'.clear = log.clear /\ (log.declined => log'.declined)
        /\ link'.requested = link.requested
    BY <1>3 DEF Moves, LogKept, LogGrows, SocketKept
  <2>3. conn'.status = "AWAITING_RESPONSE" =>
          conn.status = "AWAITING_RESPONSE" \/ link.requested
    BY <1>3 DEF Moves, Asking
  <2> QED BY <1>0, <2>1, <2>2, <2>3 DEF PreferInv
<1>4. CASE Retries
  <2>1. /\ conn'.wait_ssl_try = conn.wait_ssl_try
        /\ \/ conn'.allow_ssl_try = conn.allow_ssl_try
           \/ conn'.allow_ssl_try = FALSE /\ log'.declined
    BY <1>0, <1>4, SameFallbacks DEF Retries, ConnFields
  <2>2. /\ log'.clear = log.clear /\ (log.declined => log'.declined)
        /\ conn'.status = "NEEDED"
    BY <1>4 DEF Retries, LogKept, LogGrows, CleanNow
  <2> QED BY <1>0, <2>1, <2>2 DEF PreferInv
<1>5. CASE Skips
  <2>1. conn'.allow_ssl_try = conn.allow_ssl_try /\ conn'.wait_ssl_try = conn.wait_ssl_try
    BY <1>5, SameFallbacks DEF Skips
  <2> QED BY <1>0, <1>5, <2>1 DEF PreferInv, Skips, LogGrows, CleanNow
<1>6. CASE Connects
  <2>1. conn'.allow_ssl_try = conn.allow_ssl_try /\ conn'.wait_ssl_try = conn.wait_ssl_try
    BY <1>6, SameFallbacks DEF Connects
  <2> QED BY <1>0, <1>6, <2>1 DEF PreferInv, Connects, LogGrows
<1>7. CASE Asks
  <2>1. conn'.ssl_in_use = conn.ssl_in_use /\ (conn.ssl_in_use => link.requested)
    BY <1>7 DEF Asks, Asking, Ahead
  <2> QED BY <1>0, <1>7, <2>1 DEF PreferInv, Asks
<1>8. CASE Begins
  BY <1>0, <1>8 DEF PreferInv, Begins, CleanNow
<1> QED BY <1>1, <1>2, <1>3, <1>4, <1>5, <1>6, <1>7, <1>8 DEF Changes

LEMMA ChangesKeepAllow ==
  ASSUME Shapes, Shapes', Clean, Asking, Changes, opt' = opt, opt \in OptionRecords,
         ~opt.unix, opt.sslmode = "allow", AllowInv
  PROVE  AllowInv'
<1>0. /\ conn.allow_ssl_try \in BOOLEAN /\ conn.wait_ssl_try \in BOOLEAN
      /\ conn'.allow_ssl_try \in BOOLEAN /\ conn'.wait_ssl_try \in BOOLEAN
      /\ DOMAIN conn = ConnFields /\ conn.ssl_in_use \in BOOLEAN
      /\ UseSSL \in BOOLEAN /\ opt.unix \in BOOLEAN
      /\ log.requested \in BOOLEAN /\ log.refused \in BOOLEAN
      /\ log'.requested \in BOOLEAN /\ log'.refused \in BOOLEAN
  BY OptionsAssumption DEF Shapes, Shaped, ShapedLog, OptionRecords
<1>1. CASE Rests
  BY <1>1 DEF AllowInv, Rests
<1>2. CASE Ends
  BY <1>0, <1>2 DEF AllowInv, Ends, LogGrows
<1>3. CASE Moves
  <2>1. /\ conn'.wait_ssl_try = conn.wait_ssl_try /\ log'.requested = log.requested
        /\ log.refused => log'.refused
        /\ conn.status \in Ahead
    BY <1>0, <1>3, SameFallbacks DEF Moves, ConnFields, LogKept, LogGrows
  <2> QED BY <1>0, <2>1 DEF AllowInv
<1>4. CASE Retries
  <2>1. /\ log'.requested = log.requested /\ log.refused => log'.refused
    BY <1>4 DEF Retries, LogKept, LogGrows
  <2>2. conn.status \in Ahead /\ (log.refused => log'.refused)
    BY <1>4 DEF Retries, LogKept, LogGrows
  <2>3. conn'.wait_ssl_try = conn.wait_ssl_try \/ (conn'.wait_ssl_try = FALSE /\ log'.refused)
    BY <1>0, <1>4, SameFallbacks DEF Retries, ConnFields
  <2>4. log'.requested = log.requested
    BY <1>4 DEF Retries, LogKept, LogGrows
  <2> QED BY <1>0, <2>2, <2>3, <2>4 DEF AllowInv
<1>5. CASE Skips
  <2>1. conn'.wait_ssl_try = conn.wait_ssl_try
    BY <1>5, SameFallbacks DEF Skips
  <2> QED BY <1>0, <1>5, <2>1 DEF AllowInv, Skips, LogGrows, Ahead
<1>6. CASE Connects
  <2>1. conn'.wait_ssl_try = conn.wait_ssl_try
    BY <1>6, SameFallbacks DEF Connects
  <2> QED BY <1>0, <1>6, <2>1 DEF AllowInv, Connects, LogGrows, Ahead
<1>7. CASE Asks
  <2>1. conn.status \in Ahead /\ (conn.allow_ssl_try => UseSSL)
    BY <1>7 DEF Asks, Asking, Ahead
  <2> QED BY <1>0, <1>7, <2>1 DEF AllowInv, Asks
<1>8. CASE Begins
  BY <1>0, <1>8 DEF AllowInv, Begins
<1> QED BY <1>1, <1>2, <1>3, <1>4, <1>5, <1>6, <1>7, <1>8 DEF Changes

LEMMA ChangesKeepMode ==
  ASSUME Shapes, Shapes', Clean, Asking, Changes, opt' = opt, opt \in OptionRecords, ModeInv
  PROVE  ModeInv'
<1> SUFFICES ASSUME ~opt.unix
             PROVE  /\ opt.sslmode = "require" => RequireInv'
                    /\ opt.sslmode = "disable" => DisableInv'
                    /\ opt.sslmode = "prefer" => PreferInv'
                    /\ opt.sslmode = "allow" => AllowInv'
  BY DEF ModeInv
<1> QED BY ChangesKeepRequire, ChangesKeepDisable, ChangesKeepPrefer, ChangesKeepAllow
        DEF ModeInv

LEMMA LeftBounds ==
  ASSUME NEW c, Shaped(c)
  PROVE  AddrsLeft(c) \in Nat /\ SSLLeft(c) \in 0..1 /\ Left(c) \in Nat
BY NumAddrsAssumption DEF Shaped, Left, AddrsLeft, SSLLeft, One

LEMMA ChangesKeepCount ==
  ASSUME Shapes, Shapes', Clean, Asking, ModeInv, Changes, opt' = opt, opt \in OptionRecords,
         Counted
  PROVE  Counted'
<1>0. /\ log.opened \in Nat /\ log'.opened \in Nat /\ NumAddrs \in Nat /\ NumAddrs > 0
      /\ conn.addr_cur \in 0..NumAddrs /\ conn'.addr_cur \in 0..NumAddrs
      /\ conn.pversion \in {2, 3} /\ conn'.pversion \in {2, 3}
      /\ conn.allow_ssl_try \in BOOLEAN /\ conn.wait_ssl_try \in BOOLEAN
      /\ conn'.allow_ssl_try \in BOOLEAN /\ conn'.wait_ssl_try \in BOOLEAN
      /\ conn.send_appname \in BOOLEAN /\ conn'.send_appname \in BOOLEAN
      /\ DOMAIN conn = ConnFields
      /\ AddrsLeft(conn) \in Nat /\ SSLLeft(conn) \in 0..1 /\ Left(conn) \in Nat
  BY NumAddrsAssumption, LeftBounds DEF Shapes, Shaped, ShapedLog
<1>1. CASE Rests
  BY <1>1 DEF Counted, Left, AddrsLeft, SSLLeft, Rests
<1>2. CASE Ends
  BY <1>0, <1>2 DEF Counted, Ends
<1>3. CASE Moves
  <2>1. /\ conn'.pversion = conn.pversion /\ conn'.send_appname = conn.send_appname
        /\ conn'.wait_ssl_try = conn.wait_ssl_try
        /\ conn'.allow_ssl_try => conn.allow_ssl_try
    BY <1>0, <1>3, SameFallbacks DEF Moves, ConnFields
  <2>2. /\ conn'.addr_cur = conn.addr_cur /\ log'.opened = log.opened
        /\ conn.status \in Ahead /\ conn.status # "NEEDED" /\ conn'.status # "NEEDED"
    BY <1>3 DEF Moves, LogKept
  <2>3. AddrsLeft(conn') = AddrsLeft(conn)
    BY <2>2 DEF AddrsLeft
  <2>4. SSLLeft(conn)' \in 0..1 /\ SSLLeft(conn)' <= SSLLeft(conn)
    BY <1>0, <2>1 DEF SSLLeft, One
  <2>5. Left(conn)' <= Left(conn) /\ Left(conn)' \in Nat
    BY <1>0, <2>1, <2>2, <2>4 DEF Left, One, AddrsLeft
  <2> QED BY <1>0, <2>2, <2>5 DEF Counted
<1>4. CASE Retries
  <2>1. /\ log'.opened = log.opened /\ conn.status \in Ahead
        /\ conn.status # "NEEDED" /\ conn'.status = "NEEDED"
    BY <1>4 DEF Retries, LogKept, CleanNow
  <2>2. CASE conn'.addr_cur = conn.addr_cur + 1 /\ Fallbacks(conn') = Fallbacks(conn)
    <3>1. /\ conn'.pversion = conn.pversion /\ conn'.send_appname = conn.send_appname
          /\ conn'.wait_ssl_try = conn.wait_ssl_try /\ conn'.allow_ssl_try = conn.allow_ssl_try
      BY <2>2, SameFallbacks
    <3>2. SSLLeft(conn)' = SSLLeft(conn)
      BY <3>1 DEF SSLLeft
    <3>3. AddrsLeft(conn)' = AddrsLeft(conn)
      BY <1>0, <2>1, <2>2 DEF AddrsLeft, One, Counted
    <3> QED BY <1>0, <2>1, <3>1, <3>2, <3>3 DEF Counted, Left, One
  <2> DEFINE fewer == SSLLeft(conn)' + One(conn'.pversion = 3) + One(conn'.send_appname)
  <2>3. CASE /\ conn'.addr_cur = conn.addr_cur
             /\ ~(conn'.addr_cur = conn.addr_cur + 1 /\ Fallbacks(conn') = Fallbacks(conn))
    <3>1. /\ fewer + 1 = SSLLeft(conn) + One(conn.pversion = 3) + One(conn.send_appname)
          /\ SSLLeft(conn)' \in 0..1
      BY <1>0, <1>4, <2>3, SameFallbacks DEF Retries, ConnFields, SSLLeft, One
    <3>2. AddrsLeft(conn)' \in Nat /\ AddrsLeft(conn)' <= AddrsLeft(conn) + 1
      BY <1>0, <2>1, <2>3 DEF AddrsLeft, One
    <3> QED BY <1>0, <2>1, <3>1, <3>2 DEF Counted, Left, One
  <2> QED BY <1>4, <2>2, <2>3 DEF Retries
<1>5. CASE Skips
  <2>1. /\ conn'.pversion = conn.pversion /\ conn'.send_appname = conn.send_appname
        /\ conn'.wait_ssl_try = conn.wait_ssl_try /\ conn'.allow_ssl_try = conn.allow_ssl_try
    BY <1>5, SameFallbacks DEF Skips
  <2>2. SSLLeft(conn)' = SSLLeft(conn)
    BY <2>1 DEF SSLLeft
  <2>3. AddrsLeft(conn)' + 1 = AddrsLeft(conn) /\ AddrsLeft(conn)' \in Nat
    BY SMTT(30), <1>0, <1>5 DEF AddrsLeft, One, Skips, CleanNow
  <2>4. log'.opened <= log.opened + 1 /\ conn.status \in Ahead /\ conn'.status = "NEEDED"
    BY <1>0, <1>5 DEF Skips, Ahead, CleanNow
  <2> QED BY <1>0, <2>1, <2>2, <2>3, <2>4 DEF Counted, Left, One
<1>6. CASE Connects
  <2>1. /\ conn'.pversion = conn.pversion /\ conn'.send_appname = conn.send_appname
        /\ conn'.wait_ssl_try = conn.wait_ssl_try /\ conn'.allow_ssl_try = conn.allow_ssl_try
    BY <1>6, SameFallbacks DEF Connects
  <2>2. SSLLeft(conn)' = SSLLeft(conn)
    BY <2>1 DEF SSLLeft
  <2>3. AddrsLeft(conn)' + 1 = AddrsLeft(conn) /\ AddrsLeft(conn)' \in Nat
    BY <1>0, <1>6 DEF AddrsLeft, One, Connects
  <2>4. log'.opened = log.opened + 1 /\ conn.status \in Ahead /\ conn'.addr_cur # 0
    BY <1>0, <1>6 DEF Connects, Ahead
  <2> QED BY <1>0, <2>1, <2>2, <2>3, <2>4 DEF Counted, Left, One
<1>7. CASE Asks
  <2>1. /\ conn'.pversion = conn.pversion /\ conn'.send_appname = conn.send_appname
        /\ conn'.wait_ssl_try = conn.wait_ssl_try
        /\ conn'.allow_ssl_try => conn.allow_ssl_try
    BY <1>7 DEF Asks
  <2>2. /\ conn'.addr_cur = conn.addr_cur /\ log'.opened = log.opened
        /\ conn.status \in Ahead /\ conn.status # "NEEDED" /\ conn'.status # "NEEDED"
    BY <1>7 DEF Asks, Ahead
  <2>4. SSLLeft(conn)' \in 0..1 /\ SSLLeft(conn)' <= SSLLeft(conn)
    BY <1>0, <2>1 DEF SSLLeft, One
  <2>5. Left(conn)' <= Left(conn) /\ Left(conn)' \in Nat
    BY <1>0, <2>1, <2>2, <2>4 DEF Left, One, AddrsLeft
  <2> QED BY <1>0, <2>2, <2>5 DEF Counted
<1>8. CASE Begins
  <2>1. log'.opened = 0 /\ conn'.addr_cur = 1 /\ conn'.status = "NEEDED"
    BY <1>8 DEF Begins, CleanNow
  <2>2. AddrsLeft(conn)' = NumAddrs /\ SSLLeft(conn)' \in 0..1
    BY <1>0, <2>1 DEF AddrsLeft, SSLLeft, One
  <2> QED BY <1>0, <2>1, <2>2 DEF Counted, Left, One
<1> QED BY <1>1, <1>2, <1>3, <1>4, <1>5, <1>6, <1>7, <1>8 DEF Changes

-----------------------------------------------------------------------------
(* The helpers of Connect. *)

LEMMA Dropped ==
  ASSUME NEW c, Shaped(c), NEW f \in BOOLEAN
  PROVE  LET d == pqDropConnection(c, f)
         IN  /\ Shaped(d) /\ d.sock = 0 /\ d.ssl_in_use = FALSE
             /\ d.status = c.status /\ d.addr_cur = c.addr_cur /\ d.addrlist = c.addrlist
             /\ Fallbacks(d) = Fallbacks(c)
             /\ f => d.in = <<>> /\ d.half = FALSE
BY DEF pqDropConnection, Shaped, ConnFields, Fallbacks

LEMMA Retried ==
  ASSUME NEW c, Shaped(c)
  PROVE  /\ Shaped(Retry(c)) /\ Retry(c).sock = 0 /\ Retry(c).ssl_in_use = FALSE
         /\ Retry(c).status = "NEEDED" /\ Retry(c).in = <<>> /\ Retry(c).half = FALSE
         /\ Retry(c).addr_cur = c.addr_cur /\ Retry(c).addrlist = c.addrlist
         /\ Fallbacks(Retry(c)) = Fallbacks(c)
<1> DEFINE d == pqDropConnection(c, TRUE)
<1>1. /\ Shaped(d) /\ d.sock = 0 /\ d.ssl_in_use = FALSE
      /\ d.addr_cur = c.addr_cur /\ d.addrlist = c.addrlist
      /\ Fallbacks(d) = Fallbacks(c) /\ d.in = <<>> /\ d.half = FALSE
  BY Dropped
<1>2. Retry(c) = [d EXCEPT !.status = "NEEDED"]
  BY DEF Retry
<1> HIDE DEF d
<1> QED BY <1>1, <1>2 DEF Shaped, ConnFields, Statuses, Fallbacks

LEMMA Failed ==
  ASSUME NEW c, Shaped(c), opt \in OptionRecords, first \in BOOLEAN
  PROVE  LET d == AfterFailure(c)
         IN  /\ Shaped(d) /\ d.sock \in {0, c.sock}
             /\ Fallbacks(d) = Fallbacks(c)
             /\ \/ d.status = "BAD"
                \/ d = c
<1> DEFINE d == pqDropConnection(c, TRUE)
<1>1. Shaped(d) /\ d.sock = 0 /\ Fallbacks(d) = Fallbacks(c)
  BY Dropped
<1> HIDE DEF d
<1>2. AfterFailure(c) \in {[d EXCEPT !.status = "BAD"], c, [c EXCEPT !.status = "BAD"]}
  BY DEF AfterFailure, d
<1>3. CASE AfterFailure(c) = [d EXCEPT !.status = "BAD"]
  BY <1>1, <1>3 DEF Shaped, ConnFields, Statuses, Fallbacks
<1>4. CASE AfterFailure(c) = [c EXCEPT !.status = "BAD"]
  BY <1>4 DEF Shaped, ConnFields, Statuses, Fallbacks
<1> QED BY <1>2, <1>3, <1>4

LEMMA Closed ==
  ASSUME NEW c, Shaped(c)
  PROVE  LET d == closePGconn(c)
         IN  /\ Shaped(d) /\ d.sock = 0 /\ d.ssl_in_use = FALSE /\ d.status = "BAD"
             /\ Fallbacks(d) = Fallbacks(c)
<1> DEFINE d == pqDropConnection(c, TRUE)
<1>1. Shaped(d) /\ d.sock = 0 /\ d.ssl_in_use = FALSE /\ Fallbacks(d) = Fallbacks(c)
  BY Dropped
<1>2. closePGconn(c) = [d EXCEPT !.status = "BAD", !.asyncStatus = "IDLE",
                                 !.addrlist = FALSE, !.addr_cur = 0]
  BY DEF closePGconn
<1> HIDE DEF d
<1> QED BY <1>1, <1>2, NumAddrsAssumption DEF Shaped, ConnFields, Statuses, Fallbacks

LEMMA ReadShaped ==
  ASSUME Shapes, NEW r \in ReadOutcomes
  PROVE  LET c == pqReadData(r)
         IN  /\ Shaped(c) /\ Fallbacks(c) = Fallbacks(conn)
             /\ c.sock \in {0, conn.sock}
             /\ c.addr_cur = conn.addr_cur /\ c.addrlist = conn.addrlist
             /\ r.n # -1 => /\ c.sock = conn.sock /\ c.status = conn.status
                            /\ c.ssl_in_use = conn.ssl_in_use
<1>1. r.half \in BOOLEAN
  BY DEF ReadOutcomes
<1>2. Shaped(conn)
  BY DEF Shapes
<1>3. CASE r.n = -1
  <2> DEFINE d == pqDropConnection(conn, FALSE)
  <2>1. /\ Shaped(d) /\ d.sock = 0 /\ Fallbacks(d) = Fallbacks(conn)
        /\ d.addr_cur = conn.addr_cur /\ d.addrlist = conn.addrlist
    BY <1>2, Dropped
  <2>2. pqReadData(r) = [d EXCEPT !.status = "BAD"]
    BY <1>3 DEF pqReadData
  <2> HIDE DEF d
  <2> QED BY <1>3, <2>1, <2>2 DEF Shaped, ConnFields, Statuses, Fallbacks
<1>4. CASE r.n # -1
  BY <1>1, <1>2, <1>4 DEF pqReadData, Shaped, ConnFields, Fallbacks
<1> QED BY <1>3, <1>4

LEMMA LinkReadShaped ==
  ASSUME Shapes, NEW r
  PROVE  ShapedLink(LinkAfter(r)) /\ LinkAfter(r).requested = link.requested
BY DEF Shapes, ShapedLink, LinkFields, LinkAfter

LEMMA NoLinkShaped == ShapedLink(NoLink) /\ NoLink.requested = FALSE
BY DEF ShapedLink, NoLink, LinkFields, Nets

\* What Become does to the socket and the network.
SocketFollows ==
  IF conn.sock # 0 /\ conn'.sock = 0
    THEN fds' = fds \ {conn.sock} /\ link' = NoLink
    ELSE UNCHANGED <<fds, link>>

LEMMA SocketsFollow ==
  ASSUME Shapes, Clean, Asking, SocketFollows, conn'.sock \in {0, conn.sock}
  PROVE  /\ ShapedLink(link)'
         /\ conn'.sock = 0 => SocketGone
         /\ SocketKept \/ SocketGone
<1>1. CASE conn.sock # 0 /\ conn'.sock = 0
  BY <1>1, NoLinkShaped DEF SocketFollows, SocketGone, Clean
<1>2. CASE ~(conn.sock # 0 /\ conn'.sock = 0)
  <2>1. UNCHANGED <<fds, link>> /\ conn'.sock = conn.sock
    BY <1>2 DEF SocketFollows
  <2>2. conn'.sock = 0 => fds = {} /\ link.requested = FALSE
    BY <2>1 DEF Clean, Asking, Shapes, ShapedLink
  <2> QED BY <2>1, <2>2 DEF SocketKept, SocketGone, Shapes, ShapedLink
<1> QED BY <1>1, <1>2

\* A note in the log that does not count.
LEMMA Noted ==
  ASSUME Shapes,
         log' \in {log, [log EXCEPT !.broke = TRUE], [log EXCEPT !.declined = TRUE],
                   [log EXCEPT !.refused = @ \/ ~link.requested],
                   [log EXCEPT !.refused = @ \/ ~link.requested,
                               !.declined = @ \/ link.requested]}
  PROVE  ShapedLog(log') /\ LogKept
<1>1. ShapedLog(log) /\ link.requested \in BOOLEAN
  BY DEF Shapes, ShapedLink
<1>2. CASE log' = log
  BY <1>1, <1>2 DEF LogKept, LogGrows
<1>3. CASE log' = [log EXCEPT !.broke = TRUE]
  BY <1>1, <1>3 DEF ShapedLog, LogFields, LogKept, LogGrows
<1>4. CASE log' = [log EXCEPT !.declined = TRUE]
  BY <1>1, <1>4 DEF ShapedLog, LogFields, LogKept, LogGrows
<1>5. CASE log' = [log EXCEPT !.refused = @ \/ ~link.requested]
  BY <1>1, <1>5 DEF ShapedLog, LogFields, LogKept, LogGrows
<1>6. CASE log' = [log EXCEPT !.refused = @ \/ ~link.requested,
                              !.declined = @ \/ link.requested]
  BY <1>1, <1>6 DEF ShapedLog, LogFields, LogKept, LogGrows
<1> QED BY <1>2, <1>3, <1>4, <1>5, <1>6

\* Fail(c), whatever the PGconn c was at that point.
LEMMA GivesUp ==
  ASSUME Shapes, Clean, Asking, Around, NEW c, Shaped(c), c.sock \in {0, conn.sock},
         c.wait_ssl_try = conn.wait_ssl_try,
         c.allow_ssl_try = conn.allow_ssl_try \/ (opt.unix /\ ~c.allow_ssl_try),
         conn' = AfterFailure([c EXCEPT !.status = "BAD"]), SocketFollows,
         ShapedLog(log'), LogKept
  PROVE  Changes /\ Shapes'
<1> DEFINE b == [c EXCEPT !.status = "BAD"]
<1>1. /\ Shaped(b) /\ b.sock = c.sock /\ b.status = "BAD"
      /\ b.wait_ssl_try = c.wait_ssl_try /\ b.allow_ssl_try = c.allow_ssl_try
  BY DEF Shaped, ConnFields, Statuses
<1> HIDE DEF b
<1>2. conn' = AfterFailure(b)
  BY DEF b
<1>3. opt \in OptionRecords /\ first \in BOOLEAN
  BY OptionsAssumption DEF Around
<1>4. /\ Shaped(conn') /\ conn'.sock \in {0, c.sock} /\ conn'.status = "BAD"
      /\ Fallbacks(conn') = Fallbacks(b)
  BY <1>1, <1>2, <1>3, Failed
<1>5. conn'.wait_ssl_try = conn.wait_ssl_try
      /\ (conn'.allow_ssl_try = conn.allow_ssl_try \/ (opt.unix /\ ~conn'.allow_ssl_try))
  BY <1>1, <1>4, SameFallbacks
<1>6. ShapedLink(link') /\ (SocketKept \/ SocketGone)
  BY <1>4, SocketsFollow
<1>7. Ends
  BY <1>4, <1>5, <1>6 DEF Ends, Ahead, LogKept
<1> QED BY <1>4, <1>6, <1>7 DEF Changes, Shapes

LEMMA OptFacts ==
  ASSUME Around
  PROVE  /\ opt \in OptionRecords /\ first \in BOOLEAN /\ UseSSL \in BOOLEAN
         /\ opt.sslmode \in SSLModes /\ opt.unix \in BOOLEAN
BY OptionsAssumption DEF Around, OptionRecords

\* connectDBStart(c), for the PGconn c of a new connection or of PQreset.
LEMMA Starts ==
  ASSUME Shapes, Clean, Asking, Around, NEW c, Shaped(c), c.sock = 0, c.ssl_in_use = FALSE,
         c.wait_ssl_try = conn.wait_ssl_try, c.allow_ssl_try = conn.allow_ssl_try,
         UseSSL \/ opt.sslmode # "require" \/ log.starts > 0,
         SocketFollows,
         \/ /\ conn' = [pqDropConnection(c, TRUE) EXCEPT !.status = "BAD",
                                                         !.options_valid = FALSE]
            /\ log' = [log EXCEPT !.starts = @ + 1, !.opened = 0, !.broke = TRUE]
         \/ /\ conn' = [c EXCEPT !.in = <<>>, !.half = FALSE,
                 !.allow_ssl_try = IF opt.sslmode = "disable" THEN FALSE ELSE @,
                 !.wait_ssl_try = IF UseSSL /\ opt.sslmode = "allow" THEN TRUE ELSE @,
                 !.addrlist = TRUE, !.addr_cur = 1, !.pversion = 3,
                 !.send_appname = TRUE, !.status = "NEEDED"]
            /\ log' = [log EXCEPT !.starts = @ + 1, !.opened = 0, !.tried = {},
                                  !.talked = FALSE, !.broke = FALSE, !.clear = FALSE,
                                  !.requested = FALSE, !.refused = FALSE]
  PROVE  Changes /\ Shapes'
<1>0. ShapedLog(log) /\ NumAddrs \in Nat /\ NumAddrs > 0 /\ UseSSL \in BOOLEAN
  BY NumAddrsAssumption, OptFacts DEF Shapes
<1>1. CASE /\ conn' = [pqDropConnection(c, TRUE) EXCEPT !.status = "BAD",
                                                         !.options_valid = FALSE]
           /\ log' = [log EXCEPT !.starts = @ + 1, !.opened = 0, !.broke = TRUE]
  <2> DEFINE d == pqDropConnection(c, TRUE)
  <2>1. Shaped(d) /\ d.sock = 0 /\ Fallbacks(d) = Fallbacks(c)
    BY Dropped, ZenonT(30)
  <2>3. conn' = [d EXCEPT !.status = "BAD", !.options_valid = FALSE]
    BY <1>1
  <2> HIDE DEF d
  <2>2. d.wait_ssl_try = c.wait_ssl_try /\ d.allow_ssl_try = c.allow_ssl_try
    BY <2>1, SameFallbacks
  <2>4. /\ Shaped(conn') /\ conn'.sock = 0 /\ conn'.status = "BAD"
        /\ conn'.wait_ssl_try = conn.wait_ssl_try /\ conn'.allow_ssl_try = conn.allow_ssl_try
    BY <2>1, <2>2, <2>3 DEF Shaped, ConnFields, Statuses
  <2>5. ShapedLink(link') /\ SocketGone
    BY <2>4, SocketsFollow
  <2>6. /\ ShapedLog(log') /\ LogGrows /\ log'.opened = 0 /\ log'.starts = log.starts + 1
    BY <1>0, <1>1 DEF ShapedLog, LogFields, LogGrows
  <2>7. Ends
    BY <2>4, <2>5, <2>6 DEF Ends, Ahead
  <2> QED BY <2>4, <2>5, <2>6, <2>7 DEF Changes, Shapes
<1>2. CASE /\ conn' = [c EXCEPT !.in = <<>>, !.half = FALSE,
                 !.allow_ssl_try = IF opt.sslmode = "disable" THEN FALSE ELSE @,
                 !.wait_ssl_try = IF UseSSL /\ opt.sslmode = "allow" THEN TRUE ELSE @,
                 !.addrlist = TRUE, !.addr_cur = 1, !.pversion = 3,
                 !.send_appname = TRUE, !.status = "NEEDED"]
           /\ log' = [log EXCEPT !.starts = @ + 1, !.opened = 0, !.tried = {},
                                 !.talked = FALSE, !.broke = FALSE, !.clear = FALSE,
                                 !.requested = FALSE, !.refused = FALSE]
  <2>1. /\ Shaped(conn') /\ conn'.sock = 0 /\ CleanNow
        /\ conn'.addrlist = TRUE /\ conn'.addr_cur = 1
        /\ conn'.allow_ssl_try = (conn.allow_ssl_try /\ opt.sslmode # "disable")
        /\ conn'.wait_ssl_try = (conn.wait_ssl_try \/ (UseSSL /\ opt.sslmode = "allow"))
    <3>1. /\ DOMAIN conn' = ConnFields /\ conn'.sock = 0 /\ CleanNow
          /\ conn'.addrlist = TRUE /\ conn'.addr_cur = 1 /\ conn'.pversion = 3
          /\ conn'.send_appname = TRUE /\ conn'.asyncStatus = c.asyncStatus
          /\ conn'.setenv_state = c.setenv_state
          /\ conn'.allow_ssl_try = IF opt.sslmode = "disable" THEN FALSE ELSE c.allow_ssl_try
          /\ conn'.wait_ssl_try = IF UseSSL /\ opt.sslmode = "allow" THEN TRUE
                                  ELSE c.wait_ssl_try
      BY <1>2 DEF Shaped, ConnFields, CleanNow
    <3>2. /\ c.allow_ssl_try \in BOOLEAN /\ c.wait_ssl_try \in BOOLEAN
          /\ conn.allow_ssl_try \in BOOLEAN /\ conn.wait_ssl_try \in BOOLEAN
      BY DEF Shaped, Shapes
    <3>3. conn'.allow_ssl_try = (conn.allow_ssl_try /\ opt.sslmode # "disable")
      <4>1. CASE opt.sslmode = "disable"
        BY <3>1, <4>1
      <4>2. CASE opt.sslmode # "disable"
        BY <3>1, <3>2, <4>2
      <4> QED BY <4>1, <4>2
    <3>4. conn'.wait_ssl_try = (conn.wait_ssl_try \/ (UseSSL /\ opt.sslmode = "allow"))
      <4>1. CASE UseSSL /\ opt.sslmode = "allow"
        BY <3>1, <4>1
      <4>2. CASE ~(UseSSL /\ opt.sslmode = "allow")
        BY <3>1, <3>2, <4>2
      <4> QED BY <4>1, <4>2
    <3>5. Shaped(conn')
      <4>1. conn'.allow_ssl_try \in BOOLEAN /\ conn'.wait_ssl_try \in BOOLEAN
        BY <3>3, <3>4
      <4>2. /\ c.asyncStatus \in {"IDLE", "BUSY"}
            /\ c.setenv_state \in SetenvSending \union SetenvWaiting \union {"IDLE"}
        BY DEF Shaped
      <4>3. /\ conn'.status = "NEEDED" /\ conn'.half = FALSE /\ conn'.ssl_in_use = FALSE
            /\ conn'.addr_cur \in 0..NumAddrs
        BY <1>0, <3>1 DEF CleanNow
      <4>4. /\ DOMAIN conn' = ConnFields /\ conn'.sock \in Nat /\ conn'.pversion \in {2, 3}
            /\ conn'.send_appname \in BOOLEAN /\ conn'.addrlist \in BOOLEAN
        <5>1. 0 \in Nat /\ 3 \in {2, 3} /\ TRUE \in BOOLEAN
          OBVIOUS
        <5> QED BY <3>1, <5>1, Zenon
      <4>5. conn'.asyncStatus = c.asyncStatus /\ conn'.setenv_state = c.setenv_state
        BY <3>1
      <4>6. /\ conn'.status \in Statuses
            /\ conn'.half \in BOOLEAN /\ conn'.ssl_in_use \in BOOLEAN
        BY <4>3 DEF Statuses
      <4> QED BY <4>1, <4>2, <4>3, <4>4, <4>5, <4>6 DEF Shaped
    <3> QED BY <3>1, <3>3, <3>4, <3>5
  <2>2. ShapedLink(link') /\ SocketGone
    BY <2>1, SocketsFollow
  <2>3. /\ ShapedLog(log') /\ log'.opened = 0 /\ log'.starts = log.starts + 1
        /\ log'.clear = FALSE /\ log'.requested = FALSE /\ log'.refused = FALSE
        /\ log'.declined = log.declined
    BY <1>0, <1>2 DEF ShapedLog, LogFields
  <2>4. Begins
    BY <2>1, <2>2, <2>3 DEF Begins
  <2> QED BY <2>1, <2>2, <2>3, <2>4 DEF Changes, Shapes
<1> QED BY <1>1, <1>2

LEMMA LoginChanges ==
  ASSUME IInv, PQsetdbLogin
  PROVE  Changes /\ Shapes'
<1>1. Shapes /\ Clean /\ Asking /\ Around /\ pc = "new" /\ conn = makeEmptyPGconn
  BY DEF IInv, Around, PQsetdbLogin
<1>2. CASE connectOptions2Fails
  BY <1>1, <1>2 DEF PQsetdbLogin, Changes, Rests, Shapes
<1>3. CASE ~connectOptions2Fails
  <2> DEFINE c == [conn EXCEPT !.options_valid = TRUE]
  <2>1. /\ Shaped(c) /\ c.sock = 0 /\ c.ssl_in_use = FALSE
        /\ c.wait_ssl_try = conn.wait_ssl_try /\ c.allow_ssl_try = conn.allow_ssl_try
    <3>1. Shaped(conn) /\ conn.sock = 0 /\ conn.ssl_in_use = FALSE
      BY <1>1 DEF Shapes, makeEmptyPGconn
    <3> QED BY <3>1 DEF Shaped, ConnFields
  <2>2. /\ SocketFollows
        /\ \/ /\ conn' = [pqDropConnection(c, TRUE) EXCEPT !.status = "BAD",
                                                         !.options_valid = FALSE]
              /\ log' = [log EXCEPT !.starts = @ + 1, !.opened = 0, !.broke = TRUE]
           \/ /\ conn' = [c EXCEPT !.in = <<>>, !.half = FALSE,
                 !.allow_ssl_try = IF opt.sslmode = "disable" THEN FALSE ELSE @,
                 !.wait_ssl_try = IF UseSSL /\ opt.sslmode = "allow" THEN TRUE ELSE @,
                 !.addrlist = TRUE, !.addr_cur = 1, !.pversion = 3,
                 !.send_appname = TRUE, !.status = "NEEDED"]
              /\ log' = [log EXCEPT !.starts = @ + 1, !.opened = 0, !.tried = {},
                                  !.talked = FALSE, !.broke = FALSE, !.clear = FALSE,
                                  !.requested = FALSE, !.refused = FALSE]
    BY <1>3 DEF PQsetdbLogin, connectDBStart, StartFails, Become, SocketFollows
  <2>3. UseSSL \/ opt.sslmode # "require"
    BY <1>3 DEF connectOptions2Fails
  <2> HIDE DEF c
  <2> QED BY <1>1, <2>1, <2>2, <2>3, Starts
<1> QED BY <1>2, <1>3

LEMMA ResetChanges ==
  ASSUME IInv, PQreset
  PROVE  Changes /\ Shapes'
<1>1. Shapes /\ Clean /\ Asking /\ Around /\ Shaped(conn)
  BY DEF IInv, Shapes
<1> DEFINE c == closePGconn(conn)
<1>2. Shaped(c) /\ c.sock = 0 /\ c.ssl_in_use = FALSE /\ Fallbacks(c) = Fallbacks(conn)
  BY <1>1, Closed
<1>3. /\ SocketFollows
      /\ \/ /\ conn' = [pqDropConnection(c, TRUE) EXCEPT !.status = "BAD",
                                                         !.options_valid = FALSE]
            /\ log' = [log EXCEPT !.starts = @ + 1, !.opened = 0, !.broke = TRUE]
         \/ /\ conn' = [c EXCEPT !.in = <<>>, !.half = FALSE,
                 !.allow_ssl_try = IF opt.sslmode = "disable" THEN FALSE ELSE @,
                 !.wait_ssl_try = IF UseSSL /\ opt.sslmode = "allow" THEN TRUE ELSE @,
                 !.addrlist = TRUE, !.addr_cur = 1, !.pversion = 3,
                 !.send_appname = TRUE, !.status = "NEEDED"]
            /\ log' = [log EXCEPT !.starts = @ + 1, !.opened = 0, !.tried = {},
                                  !.talked = FALSE, !.broke = FALSE, !.clear = FALSE,
                                  !.requested = FALSE, !.refused = FALSE]
  BY DEF PQreset, connectDBStart, StartFails, Become, SocketFollows
<1>4. log.starts > 0
  BY <1>1 DEF PQreset, Shapes, ShapedLog
<1> HIDE DEF c
<1>5. c.wait_ssl_try = conn.wait_ssl_try /\ c.allow_ssl_try = conn.allow_ssl_try
  BY <1>2, SameFallbacks
<1> QED BY <1>1, <1>2, <1>3, <1>4, <1>5, Starts

LEMMA FinishChanges ==
  ASSUME IInv, PQfinish
  PROVE  Changes /\ Shapes'
<1>1. Shapes /\ Clean /\ Asking /\ Around /\ Shaped(conn)
  BY DEF IInv, Shapes
<1>2. conn' = closePGconn(conn) /\ SocketFollows /\ log' = log
  BY DEF PQfinish, Become, SocketFollows
<1>3. /\ Shaped(conn') /\ conn'.sock = 0 /\ conn'.status = "BAD"
      /\ Fallbacks(conn') = Fallbacks(conn)
  BY <1>1, <1>2, Closed
<1>4. conn'.wait_ssl_try = conn.wait_ssl_try /\ conn'.allow_ssl_try = conn.allow_ssl_try
  BY <1>3, SameFallbacks
<1>5. ShapedLink(link') /\ SocketGone
  BY <1>1, <1>2, <1>3, SocketsFollow
<1>6. ShapedLog(log') /\ LogKept
  BY <1>1, <1>2, Noted
<1>7. Ends
  BY <1>3, <1>4, <1>5, <1>6 DEF Ends, Ahead, LogKept
<1> QED BY <1>3, <1>5, <1>6, <1>7 DEF Changes, Shapes

LEMMA WaitChanges ==
  ASSUME IInv, Wake \/ TimedOut \/ ConnectionEnds \/ ServerAnswers \/ ServerCloses \/ Tick
  PROVE  Changes /\ Shapes'
<1>1. /\ Shapes /\ Clean /\ Asking /\ Around /\ Shaped(conn) /\ ShapedLink(link)
      /\ ShapedLog(log)
  BY DEF IInv, Shapes
<1>2. CASE TimedOut
  <2>1. /\ conn' = [conn EXCEPT !.status = "BAD"] /\ SocketFollows
        /\ log' = [log EXCEPT !.broke = TRUE]
    BY <1>2 DEF TimedOut, Become, SocketFollows
  <2>2. /\ Shaped(conn') /\ conn'.sock = conn.sock /\ conn'.status = "BAD"
        /\ conn'.wait_ssl_try = conn.wait_ssl_try /\ conn'.allow_ssl_try = conn.allow_ssl_try
    BY <1>1, <2>1 DEF Shaped, ConnFields, Statuses
  <2>3. ShapedLink(link') /\ (SocketKept \/ SocketGone)
    BY <1>1, <2>1, <2>2, SocketsFollow
  <2>4. ShapedLog(log') /\ LogKept
    BY <1>1, <2>1, Noted
  <2>5. Ends
    BY <2>2, <2>3, <2>4 DEF Ends, Ahead, LogKept
  <2> QED BY <2>2, <2>3, <2>4, <2>5 DEF Changes, Shapes
<1>3. CASE Wake \/ Tick
  BY <1>1, <1>3 DEF Wake, Tick, Changes, Rests, Shapes
<1>4. CASE ConnectionEnds \/ ServerAnswers \/ ServerCloses
  <2>1. UNCHANGED <<conn, fds, log>>
    BY <1>4 DEF ConnectionEnds, ServerAnswers, ServerCloses
  <2>2. ShapedLink(link') /\ link'.requested = link.requested
    <3>1. CASE ConnectionEnds
      <4>1. PICK net \in {"up", "refused"} : link' = [link EXCEPT !.net = net]
        BY <3>1 DEF ConnectionEnds
      <4> QED BY <1>1, <4>1 DEF ShapedLink, LinkFields, Nets
    <3>2. CASE ServerAnswers
      <4>1. PICK a : link' = [link EXCEPT !.wire = @ \o a, !.asked = "nothing",
                                          !.welcomed = @ \/ a[Len(a)] = "Z"]
        BY <3>2 DEF ServerAnswers
      <4> QED BY <1>1, <4>1 DEF ShapedLink, LinkFields
    <3>3. CASE ServerCloses
      <4>1. PICK w : link' = [link EXCEPT !.net = "closed", !.wire = w]
        BY <3>3 DEF ServerCloses
      <4> QED BY <1>1, <4>1 DEF ShapedLink, LinkFields, Nets
    <3> QED BY <1>4, <3>1, <3>2, <3>3
  <2> QED BY <1>1, <2>1, <2>2 DEF Changes, Rests, Shapes
<1> QED BY <1>2, <1>3, <1>4

\* The steps that read: the PGconn keeps its place and its fallbacks.
LEMMA ReadMoves ==
  ASSUME Shapes, conn.status \in Ahead \ {"NEEDED"}, Shaped(conn'), ShapedLink(link'),
         conn'.sock = conn.sock, conn'.status = conn.status,
         conn'.addr_cur = conn.addr_cur, conn'.addrlist = conn.addrlist,
         Fallbacks(conn') = Fallbacks(conn), conn'.ssl_in_use = conn.ssl_in_use,
         link'.requested = link.requested, fds' = fds, log' = log
  PROVE  Changes /\ Shapes'
<1>1. ShapedLog(log') /\ LogKept
  BY Noted
<1>2. Moves
  BY <1>1 DEF Moves, SocketKept, Shapes, Shaped
<1> QED BY <1>1, <1>2 DEF Changes, Shapes

LEMMA EntryChanges ==
  ASSUME IInv, PollEntry
  PROVE  Changes /\ Shapes'
<1>1. /\ Shapes /\ Clean /\ Asking /\ Around /\ Shaped(conn) /\ ShapedLink(link)
      /\ ShapedLog(log) /\ log' = log
  BY DEF IInv, Shapes, PollEntry
<1>2. CASE conn.status \in {"AWAITING_RESPONSE", "AUTH_OK"}
  <2>1. PICK r \in ReadOutcomes :
          \/ /\ r.n = -1 /\ SocketFollows
             /\ conn' = AfterFailure([pqReadData(r) EXCEPT !.status = "BAD"])
          \/ /\ r.n \in {0, 1}
             /\ conn' = pqReadData(r) /\ link' = LinkAfter(r) /\ fds' = fds
    BY <1>2 DEF PollEntry, Fail, Become, SocketFollows, ReadOutcomes
  <2> DEFINE c == pqReadData(r)
  <2>2. /\ Shaped(c) /\ Fallbacks(c) = Fallbacks(conn) /\ c.sock \in {0, conn.sock}
        /\ c.addr_cur = conn.addr_cur /\ c.addrlist = conn.addrlist
        /\ r.n # -1 => /\ c.sock = conn.sock /\ c.status = conn.status
                       /\ c.ssl_in_use = conn.ssl_in_use
    BY <1>1, ReadShaped
  <2>3. ShapedLink(LinkAfter(r)) /\ LinkAfter(r).requested = link.requested
    BY <1>1, LinkReadShaped
  <2>4. ShapedLog(log') /\ LogKept
    BY <1>1, Noted
  <2>5. CASE r.n = -1
    <3>1. SocketFollows /\ conn' = AfterFailure([c EXCEPT !.status = "BAD"])
      BY <2>1, <2>5
    <3> HIDE DEF c
    <3>2. c.wait_ssl_try = conn.wait_ssl_try /\ c.allow_ssl_try = conn.allow_ssl_try
      BY <2>2, SameFallbacks
    <3> QED BY <1>1, <2>2, <2>4, <3>1, <3>2, GivesUp
  <2>6. CASE r.n # -1
    <3>1. conn' = c /\ link' = LinkAfter(r) /\ fds' = fds
      BY <2>1, <2>6
    <3>2. conn.status \in Ahead \ {"NEEDED"}
      BY <1>2 DEF Ahead
    <3> HIDE DEF c
    <3> QED BY <1>1, <2>2, <2>3, <2>6, <3>1, <3>2, ReadMoves
  <2> QED BY <2>5, <2>6
<1>3. CASE conn.status \notin {"AWAITING_RESPONSE", "AUTH_OK"}
  BY <1>1, <1>3 DEF PollEntry, Changes, Rests, Shapes
<1> QED BY <1>2, <1>3

LEMMA NeededChanges ==
  ASSUME IInv, \/ NeededNoSocket \/ NeededRefused \/ NeededNoMore
               \/ \E net \in {"up", "connecting"} : NeededConnects(net)
  PROVE  Changes /\ Shapes'
<1>1. /\ Shapes /\ Clean /\ Asking /\ Around /\ Shaped(conn) /\ ShapedLink(link)
      /\ ShapedLog(log) /\ conn.addr_cur \in 0..NumAddrs /\ NumAddrs \in Nat
      /\ conn.status = "NEEDED" /\ conn.sock = 0 /\ conn.ssl_in_use = FALSE
      /\ conn.in = <<>> /\ conn.half = FALSE /\ fds = {} /\ link.requested = FALSE
  <2>1. /\ Shapes /\ Clean /\ Asking /\ Around /\ conn.status = "NEEDED" /\ Shaped(conn)
    BY DEF IInv, Shapes, NeededNoSocket, NeededRefused, NeededNoMore, NeededConnects, In
  <2>2. link.requested \in BOOLEAN
    BY <2>1 DEF Shapes, ShapedLink
  <2> QED BY <2>1, <2>2, NumAddrsAssumption DEF Shapes, Shaped, Clean, Asking
<1>2. CASE NeededNoSocket
  <2>1. log' = [log EXCEPT !.broke = TRUE]
    BY <1>2 DEF NeededNoSocket
  <2>2. ShapedLog(log') /\ LogKept
    BY <1>1, <2>1, Noted
  <2>3. CASE NextAddr(conn.addr_cur) # 0
    <3>1. /\ conn' = [conn EXCEPT !.addr_cur = NextAddr(@)] /\ SocketFollows
          /\ conn.addr_cur # 0
      BY <1>2, <2>3 DEF NeededNoSocket, Become, SocketFollows
    <3>2. NextAddr(conn.addr_cur) \in 0..NumAddrs
      BY <1>1 DEF NextAddr
    <3>3. /\ Shaped(conn') /\ conn'.sock = 0 /\ CleanNow /\ conn'.addrlist = conn.addrlist
          /\ Fallbacks(conn') = Fallbacks(conn)
          /\ conn'.addr_cur = NextAddr(conn.addr_cur)
      BY <1>1, <3>1, <3>2 DEF Shaped, ConnFields, CleanNow, Fallbacks
    <3>4. ShapedLink(link') /\ SocketGone
      BY <1>1, <3>1, <3>3, SocketsFollow
    <3>5. Skips
      BY <1>1, <2>2, <3>1, <3>3, <3>4 DEF Skips, LogKept, NextAddr
    <3> QED BY <2>2, <3>3, <3>4, <3>5 DEF Changes, Shapes
  <2>4. CASE NextAddr(conn.addr_cur) = 0
    <3>1. conn' = AfterFailure([conn EXCEPT !.status = "BAD"]) /\ SocketFollows
      BY <1>2, <2>4 DEF NeededNoSocket, Fail, Become, SocketFollows
    <3> QED BY <1>1, <2>2, <3>1, GivesUp
  <2> QED BY <2>3, <2>4
<1>3. CASE NeededRefused
  <2> DEFINE d == pqDropConnection(conn, TRUE)
  <2>1. /\ Shaped(d) /\ d.sock = 0 /\ d.ssl_in_use = FALSE /\ d.status = "NEEDED"
        /\ d.addr_cur = conn.addr_cur /\ d.addrlist = conn.addrlist
        /\ Fallbacks(d) = Fallbacks(conn) /\ d.in = <<>> /\ d.half = FALSE
    BY <1>1, Dropped
  <2>2. /\ conn' = [d EXCEPT !.addr_cur = NextAddr(@)] /\ SocketFollows /\ conn.addr_cur # 0
        /\ log' = [log EXCEPT !.opened = @ + 1, !.tried = @ \union {conn.addr_cur}]
    BY <1>3 DEF NeededRefused, Become, SocketFollows
  <2> HIDE DEF d
  <2>3. NextAddr(conn.addr_cur) \in 0..NumAddrs
    BY <1>1 DEF NextAddr
  <2>4. /\ Shaped(conn') /\ conn'.sock = 0 /\ CleanNow /\ conn'.addrlist = conn.addrlist
        /\ Fallbacks(conn') = Fallbacks(conn) /\ conn'.addr_cur = NextAddr(conn.addr_cur)
    BY <2>1, <2>2, <2>3 DEF Shaped, ConnFields, CleanNow, Fallbacks
  <2>5. ShapedLink(link') /\ SocketGone
    BY <1>1, <2>2, <2>4, SocketsFollow
  <2>6. ShapedLog(log') /\ LogGrows /\ log'.starts = log.starts /\ log'.opened = log.opened + 1
    BY <1>1, <2>2 DEF ShapedLog, LogFields, LogGrows
  <2>7. Skips
    BY <1>1, <2>2, <2>4, <2>5, <2>6 DEF Skips, NextAddr
  <2> QED BY <2>4, <2>5, <2>6, <2>7 DEF Changes, Shapes
<1>4. CASE NeededNoMore
  <2>1. /\ conn' = AfterFailure([conn EXCEPT !.status = "BAD"]) /\ SocketFollows
        /\ log' = log
    BY <1>4 DEF NeededNoMore, Fail, Become, SocketFollows
  <2>2. ShapedLog(log') /\ LogKept
    BY <1>1, <2>1, Noted
  <2> QED BY <1>1, <2>1, <2>2, GivesUp
<1>5. CASE \E net \in {"up", "connecting"} : NeededConnects(net)
  <2>1. NewSocket = 1
    <3>1. Cardinality(fds) + 1 = 1
      BY <1>1, FS_EmptySet
    <3> QED BY <1>1, <3>1 DEF NewSocket
  <2>2. PICK net \in {"up", "connecting"} :
          /\ conn' = [conn EXCEPT !.sock = 1, !.status = "STARTED"]
          /\ fds' = fds \union {1} /\ link' = [NoLink EXCEPT !.net = net]
          /\ log' = [log EXCEPT !.opened = @ + 1, !.tried = @ \union {conn.addr_cur}]
          /\ conn.addr_cur # 0
    BY <1>5, <2>1 DEF NeededConnects
  <2>3. /\ Shaped(conn') /\ conn'.sock = 1 /\ conn'.status = "STARTED"
        /\ conn'.ssl_in_use = FALSE /\ conn'.addr_cur = conn.addr_cur
        /\ conn'.addrlist = conn.addrlist /\ Fallbacks(conn') = Fallbacks(conn)
    BY <1>1, <2>2 DEF Shaped, ConnFields, Statuses, Fallbacks
  <2>4. ShapedLink(link') /\ link'.requested = FALSE
    BY <2>2 DEF ShapedLink, LinkFields, Nets, NoLink
  <2>5. ShapedLog(log') /\ LogGrows /\ log'.starts = log.starts /\ log'.opened = log.opened + 1
    BY <1>1, <2>2 DEF ShapedLog, LogFields, LogGrows
  <2>6. Connects
    BY <1>1, <2>2, <2>3, <2>4, <2>5 DEF Connects
  <2> QED BY <2>3, <2>4, <2>5, <2>6 DEF Changes, Shapes
<1> QED BY <1>2, <1>3, <1>4, <1>5

LEMMA Facts ==
  ASSUME IInv
  PROVE  /\ Shapes /\ Clean /\ Asking /\ ModeInv /\ Counted /\ Around /\ Shaped(conn)
         /\ ShapedLink(link) /\ ShapedLog(log)
BY DEF IInv, Shapes

LEMMA StartedChanges ==
  ASSUME IInv, Started
  PROVE  Changes /\ Shapes'
<1>1. /\ Shapes /\ Clean /\ Asking /\ Around /\ Counted /\ Shaped(conn)
      /\ conn.status = "STARTED" /\ conn.addr_cur \in 0..NumAddrs /\ NumAddrs \in Nat
  BY Facts, NumAddrsAssumption DEF Started, In, Shaped
<1> DEFINE d == pqDropConnection(conn, TRUE)
<1>2. /\ Shaped(d) /\ d.sock = 0 /\ d.ssl_in_use = FALSE /\ d.addrlist = conn.addrlist
      /\ Fallbacks(d) = Fallbacks(conn) /\ d.in = <<>> /\ d.half = FALSE
      /\ d.addr_cur = conn.addr_cur
  BY <1>1, Dropped
<1>3. log' = log \/ log' = [log EXCEPT !.broke = TRUE]
  BY DEF Started
<1>4. ShapedLog(log') /\ LogKept
  BY <1>1, <1>3, Noted
<1>5. /\ SocketFollows
      /\ \/ conn' = [conn EXCEPT !.status = "MADE"]
         \/ conn' = AfterFailure([conn EXCEPT !.status = "BAD"])
         \/ /\ NextAddr(conn.addr_cur) # 0
            /\ conn' = [d EXCEPT !.addr_cur = NextAddr(@), !.status = "NEEDED"]
         \/ conn' = AfterFailure([d EXCEPT !.status = "BAD"])
  BY DEF Started, Fail, Become, SocketFollows
<1> HIDE DEF d
<1>6. CASE conn' = [conn EXCEPT !.status = "MADE"]
  <2>1. /\ Shaped(conn') /\ conn'.sock = conn.sock /\ conn'.status = "MADE"
        /\ conn'.addr_cur = conn.addr_cur /\ conn'.addrlist = conn.addrlist
        /\ Fallbacks(conn') = Fallbacks(conn) /\ conn'.ssl_in_use = conn.ssl_in_use
    BY <1>1, <1>6 DEF Shaped, ConnFields, Statuses, Fallbacks
  <2>2. conn.sock # 0
    BY <1>1 DEF Asking, Ahead
  <2>3. SocketKept /\ ShapedLink(link')
    BY <1>1, <1>5, <2>1, <2>2 DEF SocketFollows, SocketKept, Shapes
  <2>4. Moves
    BY <1>1, <1>4, <2>1, <2>3 DEF Moves, Ahead
  <2> QED BY <1>4, <2>1, <2>3, <2>4 DEF Changes, Shapes
<1>7. CASE conn' = AfterFailure([conn EXCEPT !.status = "BAD"])
  BY <1>1, <1>4, <1>5, <1>7, GivesUp
<1>8. CASE /\ NextAddr(conn.addr_cur) # 0
           /\ conn' = [d EXCEPT !.addr_cur = NextAddr(@), !.status = "NEEDED"]
  <2>1. NextAddr(conn.addr_cur) \in 0..NumAddrs /\ NextAddr(conn.addr_cur) = conn.addr_cur + 1
    BY <1>1, <1>8 DEF NextAddr
  <2>2. /\ Shaped(conn') /\ conn'.sock = 0 /\ CleanNow /\ conn'.addrlist = conn.addrlist
        /\ Fallbacks(conn') = Fallbacks(conn) /\ conn'.addr_cur = conn.addr_cur + 1
    BY <1>2, <1>8, <2>1 DEF Shaped, ConnFields, Statuses, Fallbacks, CleanNow
  <2>3. ShapedLink(link') /\ SocketGone
    BY <1>1, <1>5, <2>2, SocketsFollow
  <2>4. Retries
    BY <1>1, <1>4, <2>2, <2>3 DEF Retries, Ahead
  <2> QED BY <1>4, <2>2, <2>3, <2>4 DEF Changes, Shapes
<1>9. CASE conn' = AfterFailure([d EXCEPT !.status = "BAD"])
  <2>1. d.wait_ssl_try = conn.wait_ssl_try /\ d.allow_ssl_try = conn.allow_ssl_try
    BY <1>2, SameFallbacks
  <2> QED BY <1>1, <1>2, <1>4, <1>5, <1>9, <2>1, GivesUp
<1> QED BY <1>5, <1>6, <1>7, <1>8, <1>9

LEMMA MadeChanges ==
  ASSUME IInv, Made
  PROVE  Changes /\ Shapes'
<1>1. /\ Shapes /\ Clean /\ Asking /\ Around /\ Shaped(conn) /\ ShapedLog(log)
      /\ ShapedLink(link) /\ conn.status = "MADE"
  BY Facts DEF Made, In
<1>2. /\ opt.unix \in BOOLEAN /\ conn.allow_ssl_try \in BOOLEAN
      /\ conn.wait_ssl_try \in BOOLEAN /\ conn.ssl_in_use \in BOOLEAN
      /\ log.requested \in BOOLEAN /\ log.clear \in BOOLEAN /\ link.requested \in BOOLEAN
  BY <1>1, OptFacts DEF Shaped, ShapedLog, ShapedLink
<1> DEFINE c == [conn EXCEPT !.allow_ssl_try = @ /\ ~opt.unix]
           ssl == AsksForSSL(c)
<1>3. /\ Shaped(c) /\ c.sock = conn.sock /\ c.addr_cur = conn.addr_cur
      /\ c.addrlist = conn.addrlist /\ c.pversion = conn.pversion
      /\ c.send_appname = conn.send_appname /\ c.wait_ssl_try = conn.wait_ssl_try
      /\ c.ssl_in_use = conn.ssl_in_use
      /\ c.allow_ssl_try = (conn.allow_ssl_try /\ ~opt.unix)
  BY <1>1, <1>2 DEF Shaped, ConnFields
<1>4. ssl \in BOOLEAN /\ (ssl <=> c.allow_ssl_try /\ ~c.wait_ssl_try /\ ~c.ssl_in_use)
  BY <1>2, <1>3 DEF AsksForSSL
<1>5. \/ /\ conn' = AfterFailure([c EXCEPT !.status = "BAD"]) /\ SocketFollows
         /\ log' = [log EXCEPT !.broke = TRUE]
      \/ /\ conn' = [c EXCEPT !.status = IF ssl THEN "SSL_STARTUP" ELSE "AWAITING_RESPONSE"]
         /\ Sent(IF ssl THEN "ssl" ELSE "startup") /\ fds' = fds
         /\ log' = [log EXCEPT !.talked = TRUE, !.requested = @ \/ ssl,
                               !.clear = @ \/ (~ssl /\ ~c.ssl_in_use)]
  BY DEF Made, Fail, Become, SocketFollows
<1>6. /\ link' = [link EXCEPT
                    !.asked = IF link.net = "up" THEN (IF ssl THEN "ssl" ELSE "startup") ELSE @,
                    !.requested = @ \/ ssl]
      \/ ~Sent(IF ssl THEN "ssl" ELSE "startup")
  <2>1. CASE ssl
    BY <1>2, <2>1 DEF Sent
  <2>2. CASE ~ssl
    BY <1>2, <2>2 DEF Sent
  <2> QED BY <1>4, <2>1, <2>2
<1> HIDE DEF c, ssl
<1>7. CASE /\ conn' = AfterFailure([c EXCEPT !.status = "BAD"]) /\ SocketFollows
           /\ log' = [log EXCEPT !.broke = TRUE]
  <2>1. ShapedLog(log') /\ LogKept
    BY <1>1, <1>7, Noted
  <2>2. c.allow_ssl_try = conn.allow_ssl_try \/ (opt.unix /\ ~c.allow_ssl_try)
    BY <1>2, <1>3
  <2> QED BY <1>1, <1>3, <1>7, <2>1, <2>2, GivesUp
<1>8. CASE /\ conn' = [c EXCEPT !.status = IF ssl THEN "SSL_STARTUP" ELSE "AWAITING_RESPONSE"]
           /\ Sent(IF ssl THEN "ssl" ELSE "startup") /\ fds' = fds
           /\ log' = [log EXCEPT !.talked = TRUE, !.requested = @ \/ ssl,
                                 !.clear = @ \/ (~ssl /\ ~c.ssl_in_use)]
  <2>1. link' = [link EXCEPT
                    !.asked = IF link.net = "up" THEN (IF ssl THEN "ssl" ELSE "startup") ELSE @,
                    !.requested = @ \/ ssl]
    BY <1>6, <1>8
  <2>2. /\ Shaped(conn') /\ conn'.sock = c.sock /\ conn'.addr_cur = c.addr_cur
        /\ conn'.addrlist = c.addrlist /\ conn'.pversion = c.pversion
        /\ conn'.send_appname = c.send_appname /\ conn'.wait_ssl_try = c.wait_ssl_try
        /\ conn'.ssl_in_use = c.ssl_in_use /\ conn'.allow_ssl_try = c.allow_ssl_try
        /\ conn'.status = IF ssl THEN "SSL_STARTUP" ELSE "AWAITING_RESPONSE"
    BY <1>3, <1>8 DEF Shaped, ConnFields, Statuses
  <2>3. /\ ShapedLink(link') /\ link'.requested = (link.requested \/ ssl)
    BY <1>1, <1>2, <1>4, <2>1 DEF ShapedLink, LinkFields
  <2>4. /\ DOMAIN log' = LogFields /\ log'.starts = log.starts /\ log'.opened = log.opened
        /\ log'.declined = log.declined /\ log'.refused = log.refused
        /\ log'.requested = (log.requested \/ ssl)
        /\ log'.clear = (log.clear \/ (~ssl /\ ~c.ssl_in_use))
    BY <1>1, <1>8 DEF ShapedLog, LogFields
  <2>5. ShapedLog(log')
    BY <1>1, <2>4 DEF ShapedLog
  <2>6. CASE ssl
    <3>1. /\ link'.requested = TRUE /\ log'.requested = TRUE /\ log'.clear = log.clear
      BY <1>2, <2>3, <2>4, <2>6
    <3>2. conn'.allow_ssl_try /\ ~conn.wait_ssl_try /\ ~conn.ssl_in_use
      BY <1>3, <1>4, <2>2, <2>6
    <3> QED BY <1>1, <1>3, <1>8, <2>2, <2>3, <2>4, <2>5, <2>6, <3>1, <3>2
            DEF Asks, Changes, Shapes
  <2>7. CASE ~ssl
    <3>1. /\ link'.requested = link.requested /\ log'.requested = log.requested
          /\ log'.clear = (log.clear \/ ~conn.ssl_in_use)
      BY <1>2, <1>3, <2>3, <2>4, <2>7
    <3>2. ~(conn'.allow_ssl_try /\ ~conn.wait_ssl_try /\ ~conn.ssl_in_use)
      BY <1>3, <1>4, <2>2, <2>7
    <3> QED BY <1>1, <1>3, <1>8, <2>2, <2>3, <2>4, <2>5, <2>7, <3>1, <3>2
            DEF Asks, Changes, Shapes
  <2> QED BY <1>4, <2>6, <2>7
<1> QED BY <1>5, <1>7, <1>8

\* Retry(c) with one fallback less.
LEMMA TriesAgain ==
  ASSUME Shapes, Clean, Asking, conn.status \in Ahead \ {"NEEDED"},
         NEW c, Shaped(c), c.addr_cur = conn.addr_cur, c.addrlist = conn.addrlist,
         Fallbacks(c) = Fallbacks(conn), SocketFollows, ShapedLog(log'), LogKept,
         \/ conn.pversion = 3 /\ conn' = [Retry(c) EXCEPT !.pversion = 2]
         \/ conn.send_appname /\ conn' = [Retry(c) EXCEPT !.send_appname = FALSE]
         \/ opt.sslmode = "prefer" /\ conn.allow_ssl_try /\ (log'.declined \/ opt.unix)
            /\ conn' = [Retry(c) EXCEPT !.allow_ssl_try = FALSE]
         \/ opt.sslmode = "allow" /\ conn.allow_ssl_try /\ conn.wait_ssl_try /\ (log'.refused \/ opt.unix)
            /\ conn' = [Retry(c) EXCEPT !.wait_ssl_try = FALSE]
  PROVE  Changes /\ Shapes'
<1> DEFINE d == Retry(c)
<1>1. /\ Shaped(d) /\ d.sock = 0 /\ d.ssl_in_use = FALSE
      /\ d.status = "NEEDED" /\ d.in = <<>> /\ d.half = FALSE
      /\ d.addr_cur = conn.addr_cur /\ d.addrlist = conn.addrlist
      /\ Fallbacks(d) = Fallbacks(conn)
  BY Retried
<1>2. \/ conn.pversion = 3 /\ conn' = [d EXCEPT !.pversion = 2]
      \/ conn.send_appname /\ conn' = [d EXCEPT !.send_appname = FALSE]
      \/ opt.sslmode = "prefer" /\ conn.allow_ssl_try /\ (log'.declined \/ opt.unix)
         /\ conn' = [d EXCEPT !.allow_ssl_try = FALSE]
      \/ opt.sslmode = "allow" /\ conn.allow_ssl_try /\ conn.wait_ssl_try /\ (log'.refused \/ opt.unix)
         /\ conn' = [d EXCEPT !.wait_ssl_try = FALSE]
  OBVIOUS
<1> HIDE DEF d
<1>3. DOMAIN conn = ConnFields
  BY DEF Shapes, Shaped
<1> DEFINE Again == /\ Shaped(conn') /\ conn'.sock = 0 /\ CleanNow
                    /\ conn'.addr_cur = conn.addr_cur /\ conn'.addrlist = conn.addrlist
           Fewer ==
             \/ conn.pversion = 3
                /\ Fallbacks(conn') = Fallbacks([conn EXCEPT !.pversion = 2])
             \/ conn.send_appname
                /\ Fallbacks(conn') = Fallbacks([conn EXCEPT !.send_appname = FALSE])
             \/ opt.sslmode = "prefer" /\ conn.allow_ssl_try /\ (log'.declined \/ opt.unix)
                /\ Fallbacks(conn') = Fallbacks([conn EXCEPT !.allow_ssl_try = FALSE])
             \/ opt.sslmode = "allow" /\ conn.allow_ssl_try /\ conn.wait_ssl_try /\ (log'.refused \/ opt.unix)
                /\ Fallbacks(conn') = Fallbacks([conn EXCEPT !.wait_ssl_try = FALSE])
<1>4. Again /\ Fewer
  <2>1. /\ d.pversion = conn.pversion /\ d.send_appname = conn.send_appname
        /\ d.allow_ssl_try = conn.allow_ssl_try /\ d.wait_ssl_try = conn.wait_ssl_try
    BY <1>1, SameFallbacks
  <2>2. CASE conn.pversion = 3 /\ conn' = [d EXCEPT !.pversion = 2]
    <3>1. Again
      BY <1>1, <2>2 DEF Shaped, ConnFields, CleanNow
    <3>2. Fallbacks(conn') = Fallbacks([conn EXCEPT !.pversion = 2])
      BY <1>1, <1>3, <2>1, <2>2 DEF Fallbacks, Shaped, ConnFields
    <3> QED BY <2>2, <3>1, <3>2
  <2>3. CASE conn.send_appname /\ conn' = [d EXCEPT !.send_appname = FALSE]
    <3>1. Again
      BY <1>1, <2>3 DEF Shaped, ConnFields, CleanNow
    <3>2. Fallbacks(conn') = Fallbacks([conn EXCEPT !.send_appname = FALSE])
      BY <1>1, <1>3, <2>1, <2>3 DEF Fallbacks, Shaped, ConnFields
    <3> QED BY <2>3, <3>1, <3>2
  <2>4. CASE /\ opt.sslmode = "prefer" /\ conn.allow_ssl_try /\ (log'.declined \/ opt.unix)
             /\ conn' = [d EXCEPT !.allow_ssl_try = FALSE]
    <3>1. Again
      BY <1>1, <2>4 DEF Shaped, ConnFields, CleanNow
    <3>2. Fallbacks(conn') = Fallbacks([conn EXCEPT !.allow_ssl_try = FALSE])
      BY <1>1, <1>3, <2>1, <2>4 DEF Fallbacks, Shaped, ConnFields
    <3> QED BY <2>4, <3>1, <3>2
  <2>5. CASE /\ opt.sslmode = "allow" /\ conn.allow_ssl_try /\ conn.wait_ssl_try /\ (log'.refused \/ opt.unix)
             /\ conn' = [d EXCEPT !.wait_ssl_try = FALSE]
    <3>1. Again
      BY <1>1, <2>5 DEF Shaped, ConnFields, CleanNow
    <3>2. Fallbacks(conn') = Fallbacks([conn EXCEPT !.wait_ssl_try = FALSE])
      BY <1>1, <1>3, <2>1, <2>5 DEF Fallbacks, Shaped, ConnFields
    <3> QED BY <2>5, <3>1, <3>2
  <2> QED BY <1>2, <2>2, <2>3, <2>4, <2>5
<1>6. ShapedLink(link') /\ SocketGone
  BY <1>4, SocketsFollow
<1>7. Retries
  BY <1>4, <1>6 DEF Retries
<1> QED BY <1>4, <1>6, <1>7 DEF Changes, Shapes

\* A PGconn that keeps its socket and goes to another state of the attempt.
LEMMA GoesOn ==
  ASSUME Shapes, Clean, Asking, conn.status \in Ahead \ {"NEEDED"},
         Shaped(conn'), conn'.status \in Ahead \ {"NEEDED"}, conn'.sock = conn.sock,
         conn'.addr_cur = conn.addr_cur, conn'.addrlist = conn.addrlist,
         \/ Fallbacks(conn') = Fallbacks(conn)
         \/ /\ conn'.allow_ssl_try = FALSE /\ log'.declined /\ opt.sslmode # "require"
            /\ Fallbacks(conn') = Fallbacks([conn EXCEPT !.allow_ssl_try = FALSE]),
         conn'.status = "AWAITING_RESPONSE" =>
           conn.status \in {"AWAITING_RESPONSE", "SSL_STARTUP"},
         conn'.status = "SSL_STARTUP" => conn.status = "SSL_STARTUP",
         conn'.ssl_in_use => conn.ssl_in_use \/ conn.status = "SSL_STARTUP",
         ShapedLink(link'), link'.requested = link.requested, fds' = fds,
         ShapedLog(log'), LogKept
  PROVE  Changes /\ Shapes'
BY DEF Moves, SocketKept, Changes, Shapes

LEMMA HandshakeEnds ==
  ASSUME Shapes, Clean, Asking, Around, conn.status = "SSL_STARTUP",
         NEW c, Shaped(c), c.sock = conn.sock, c.status = "SSL_STARTUP",
         c.addr_cur = conn.addr_cur, c.addrlist = conn.addrlist,
         Fallbacks(c) = Fallbacks(conn), log' = [log EXCEPT !.declined = TRUE], SocketFollows,
         \/ opt.sslmode = "prefer" /\ c.allow_ssl_try
            /\ conn' = [Retry(c) EXCEPT !.allow_ssl_try = FALSE]
         \/ conn' = AfterFailure(c)
  PROVE  Changes /\ Shapes'
<1>1. ShapedLog(log') /\ LogKept
  BY Noted
<1>2. log'.declined
  BY DEF Shapes, ShapedLog, LogFields
<1>3. /\ c.wait_ssl_try = conn.wait_ssl_try /\ c.allow_ssl_try = conn.allow_ssl_try
  BY SameFallbacks
<1>4. conn.status \in Ahead \ {"NEEDED"}
  BY DEF Ahead
<1>5. CASE /\ opt.sslmode = "prefer" /\ c.allow_ssl_try
           /\ conn' = [Retry(c) EXCEPT !.allow_ssl_try = FALSE]
  BY <1>1, <1>2, <1>3, <1>4, <1>5, TriesAgain
<1>6. CASE conn' = AfterFailure(c)
  <2>1. /\ Shaped(conn') /\ conn'.sock \in {0, c.sock}
        /\ Fallbacks(conn') = Fallbacks(c)
        /\ conn'.status = "BAD" \/ conn' = c
    BY <1>6, Failed, OptFacts
  <2>2. ShapedLink(link') /\ (SocketKept \/ SocketGone)
    BY <2>1, SocketsFollow
  <2>3. CASE conn'.status = "BAD"
    <3>1. conn'.wait_ssl_try = conn.wait_ssl_try /\ conn'.allow_ssl_try = conn.allow_ssl_try
      BY <1>3, <2>1, SameFallbacks
    <3>2. Ends
      BY <1>1, <2>2, <2>3, <3>1 DEF Ends, Ahead, LogKept
    <3> QED BY <1>1, <2>1, <2>2, <3>2 DEF Changes, Shapes
  <2>4. CASE conn' = c
    <3>1. conn.sock # 0
      BY <1>4 DEF Asking
    <3>2. UNCHANGED <<fds, link>>
      BY <2>4, <3>1 DEF SocketFollows
    <3> QED BY <1>1, <1>4, <2>1, <2>2, <2>4, <3>2, GoesOn
  <2> QED BY <2>1, <2>3, <2>4
<1> QED BY <1>5, <1>6

\* What becomes of the answer to the request for SSL.
AnswerRest(r) == [pqReadData(r) EXCEPT !.in = Tail(@)]
FirstByte(r) ==
  IF pqReadData(r).in # <<>> THEN Head(pqReadData(r).in) ELSE LinkAfter(r).wire[1]
AnswerLost(r) ==
  /\ conn' = AfterFailure([pqReadData(r) EXCEPT !.status = "BAD"])
  /\ SocketFollows /\ log' = log
AnswerRefused(r) ==
  /\ FirstByte(r) \in {"S", "N"}
  /\ conn' = AfterFailure([AnswerRest(r) EXCEPT !.status = "BAD"]) /\ SocketFollows
  /\ log' \in {[log EXCEPT !.broke = TRUE], [log EXCEPT !.declined = TRUE]}
NoHandshake(r) ==
  /\ FirstByte(r) \in {"S", "N"}
  /\ log' = [log EXCEPT !.declined = TRUE] /\ SocketFollows
  /\ \/ opt.sslmode = "prefer" /\ AnswerRest(r).allow_ssl_try
        /\ conn' = [Retry(AnswerRest(r)) EXCEPT !.allow_ssl_try = FALSE]
     \/ conn' = AfterFailure(AnswerRest(r))
HandshakeBegun(r) ==
  /\ FirstByte(r) \in {"S", "N"}
  /\ conn' = [AnswerRest(r) EXCEPT !.ssl_in_use = TRUE] /\ log' = log /\ fds' = fds
  /\ \E a : link' = [LinkAfter(r) EXCEPT !.asked = a]
Plain(r) ==
  /\ FirstByte(r) \in {"S", "N"}
  /\ opt.sslmode # "require" /\ log' = [log EXCEPT !.declined = TRUE]
  /\ conn' = [AnswerRest(r) EXCEPT !.allow_ssl_try = FALSE, !.status = "MADE"]
  /\ link' = LinkAfter(r) /\ fds' = fds
ErrorComes(r) ==
  /\ FirstByte(r) \in {"E", "Eold"}
  /\ conn' = [pqReadData(r) EXCEPT !.status = "AWAITING_RESPONSE"] /\ log' = log
  /\ link' = LinkAfter(r) /\ fds' = fds

LEMMA AnswerWays ==
  ASSUME ~conn.ssl_in_use, NEW r \in ReadOutcomes, SSLAnswer(r)
  PROVE  \/ AnswerLost(r)
         \/ /\ r.n = 1
            /\ \/ AnswerRefused(r) \/ NoHandshake(r) \/ HandshakeBegun(r)
               \/ Plain(r) \/ ErrorComes(r)
<1> DEFINE c == pqReadData(r)
           rest == [c EXCEPT !.in = Tail(@)]
           next == IF c.in # <<>> THEN Head(c.in) ELSE LinkAfter(r).wire[1]
<1>0. r.n = -1 \/ r.n = 1
  BY DEF ReadOutcomes
<1>1. CASE r.n = -1
  BY <1>1 DEF SSLAnswer, Fail, Become, SocketFollows, AnswerLost
<1>2. CASE r.n = 1 /\ next = "S"
  <2> DEFINE Answered == \E f \in {"READING", "WRITING"} :
               /\ conn' = [rest EXCEPT !.ssl_in_use = TRUE]
               /\ link' = [LinkAfter(r) EXCEPT
                             !.asked = IF f = "READING" /\ link.net = "up"
                                       THEN "hello" ELSE @]
               /\ Return(f) /\ UNCHANGED <<fds, log>>
  <2>1. \/ Fail(rest) /\ log' = [log EXCEPT !.broke = TRUE]
        \/ HandshakeFails(rest)
        \/ Answered
    <3>1. r.n # -1
      BY <1>2
    <3> QED BY <1>2, <3>1, Zenon DEF SSLAnswer
  <2>2. ASSUME Fail(rest), log' = [log EXCEPT !.broke = TRUE] PROVE AnswerRefused(r)
    BY <1>2, <2>2 DEF Fail, Become, SocketFollows, AnswerRefused, AnswerRest, FirstByte
  <2>3. ASSUME HandshakeFails(rest) PROVE NoHandshake(r)
    BY <1>2, <2>3 DEF HandshakeFails, Become, SocketFollows, NoHandshake, AnswerRest, FirstByte
  <2>4. ASSUME Answered PROVE HandshakeBegun(r)
    <3>1. PICK f \in {"READING", "WRITING"} :
               /\ conn' = [rest EXCEPT !.ssl_in_use = TRUE]
               /\ link' = [LinkAfter(r) EXCEPT
                             !.asked = IF f = "READING" /\ link.net = "up"
                                       THEN "hello" ELSE @]
               /\ UNCHANGED <<fds, log>>
      BY <2>4
    <3> QED BY <1>2, <3>1 DEF HandshakeBegun, AnswerRest, FirstByte
  <2> QED BY <1>2, <2>1, <2>2, <2>3, <2>4
<1>3. CASE r.n = 1 /\ next = "N"
  <2>1. /\ log' = [log EXCEPT !.declined = TRUE]
        /\ IF opt.sslmode = "require" THEN Fail(rest)
           ELSE /\ conn' = [rest EXCEPT !.allow_ssl_try = FALSE, !.status = "MADE"]
                /\ link' = LinkAfter(r) /\ UNCHANGED fds /\ Return("WRITING")
    <3>1. r.n # -1 /\ next # "S"
      BY <1>3
    <3> QED BY <1>3, <3>1, Zenon DEF SSLAnswer
  <2>2. CASE opt.sslmode = "require"
    BY <1>3, <2>1, <2>2 DEF Fail, Become, SocketFollows, AnswerRefused, AnswerRest, FirstByte
  <2>3. CASE opt.sslmode # "require"
    BY <1>3, <2>1, <2>3 DEF Plain, AnswerRest, FirstByte
  <2> QED BY <2>2, <2>3
<1>4. CASE r.n = 1 /\ next \in {"E", "Eold"}
  BY <1>4 DEF SSLAnswer, ErrorComes, FirstByte
<1>5. CASE r.n = 1 /\ next \notin {"S", "N", "E", "Eold"}
  BY <1>5 DEF SSLAnswer, Fail, Become, SocketFollows, AnswerLost
<1> QED BY <1>0, <1>1, <1>2, <1>3, <1>4, <1>5

LEMMA AnswerChanges ==
  ASSUME IInv, conn.status = "SSL_STARTUP", ~conn.ssl_in_use,
         NEW r \in ReadOutcomes, SSLAnswer(r)
  PROVE  Changes /\ Shapes'
<1>1. /\ Shapes /\ Clean /\ Asking /\ Around /\ Shaped(conn) /\ ShapedLog(log)
      /\ conn.status \in Ahead \ {"NEEDED"} /\ DOMAIN conn = ConnFields
  BY Facts DEF Ahead, Shaped
<1> DEFINE c == pqReadData(r)
           rest == AnswerRest(r)
<1>2. /\ Shaped(c) /\ Fallbacks(c) = Fallbacks(conn) /\ c.sock \in {0, conn.sock}
      /\ c.addr_cur = conn.addr_cur /\ c.addrlist = conn.addrlist
      /\ r.n # -1 => /\ c.sock = conn.sock /\ c.status = conn.status
                     /\ c.ssl_in_use = conn.ssl_in_use
  BY <1>1, ReadShaped
<1>3. ShapedLink(LinkAfter(r)) /\ LinkAfter(r).requested = link.requested
  BY <1>1, LinkReadShaped
<1>4. rest = [c EXCEPT !.in = Tail(@)]
  BY DEF AnswerRest
<1>5. \/ AnswerLost(r)
      \/ r.n = 1 /\ (AnswerRefused(r) \/ NoHandshake(r) \/ HandshakeBegun(r)
                     \/ Plain(r) \/ ErrorComes(r))
  BY AnswerWays
<1> HIDE DEF c
<1>6. /\ Shaped(rest) /\ Fallbacks(rest) = Fallbacks(conn) /\ rest.sock = c.sock
      /\ rest.addr_cur = conn.addr_cur /\ rest.addrlist = conn.addrlist
      /\ rest.status = c.status /\ rest.ssl_in_use = c.ssl_in_use
  BY <1>2, <1>4 DEF Shaped, ConnFields, Fallbacks
<1> HIDE DEF rest
<1>7. /\ c.wait_ssl_try = conn.wait_ssl_try /\ c.allow_ssl_try = conn.allow_ssl_try
      /\ rest.wait_ssl_try = conn.wait_ssl_try /\ rest.allow_ssl_try = conn.allow_ssl_try
  BY <1>2, <1>6, SameFallbacks
<1>8. ASSUME AnswerLost(r) PROVE Changes /\ Shapes'
  <2>1. /\ conn' = AfterFailure([c EXCEPT !.status = "BAD"]) /\ SocketFollows
        /\ log' = log
    BY <1>8 DEF AnswerLost, c
  <2>2. ShapedLog(log') /\ LogKept
    BY <1>1, <2>1, Noted
  <2> QED BY <1>1, <1>2, <1>7, <2>1, <2>2, GivesUp
<1>9. ASSUME r.n = 1, AnswerRefused(r) PROVE Changes /\ Shapes'
  <2>1. /\ conn' = AfterFailure([rest EXCEPT !.status = "BAD"]) /\ SocketFollows
        /\ log' \in {[log EXCEPT !.broke = TRUE], [log EXCEPT !.declined = TRUE]}
    BY <1>9 DEF AnswerRefused, rest
  <2>2. ShapedLog(log') /\ LogKept
    BY <1>1, <2>1, Noted
  <2> QED BY <1>1, <1>2, <1>6, <1>7, <1>9, <2>1, <2>2, GivesUp
<1>10. ASSUME r.n = 1, NoHandshake(r) PROVE Changes /\ Shapes'
  <2>1. /\ log' = [log EXCEPT !.declined = TRUE] /\ SocketFollows
        /\ \/ opt.sslmode = "prefer" /\ rest.allow_ssl_try
              /\ conn' = [Retry(rest) EXCEPT !.allow_ssl_try = FALSE]
           \/ conn' = AfterFailure(rest)
    BY <1>10 DEF NoHandshake, rest
  <2> QED BY <1>1, <1>2, <1>6, <1>10, <2>1, HandshakeEnds
<1>11. ASSUME r.n = 1, HandshakeBegun(r) PROVE Changes /\ Shapes'
  <2>0. /\ conn' = [rest EXCEPT !.ssl_in_use = TRUE] /\ log' = log /\ fds' = fds
        /\ \E a : link' = [LinkAfter(r) EXCEPT !.asked = a]
    BY <1>11 DEF HandshakeBegun, rest
  <2>1. ShapedLog(log') /\ LogKept
    BY <1>1, <1>11, <2>0, Noted
  <2>2. /\ Shaped(conn') /\ Fallbacks(conn') = Fallbacks(conn) /\ conn'.sock = conn.sock
        /\ conn'.addr_cur = conn.addr_cur /\ conn'.addrlist = conn.addrlist
        /\ conn'.status = conn.status
    BY <1>2, <1>6, <1>11, <2>0 DEF Shaped, ConnFields, Fallbacks
  <2>3. ShapedLink(link') /\ link'.requested = link.requested
    BY <1>3, <1>11, <2>0 DEF ShapedLink, LinkFields
  <2> QED BY <1>1, <1>11, <2>0, <2>1, <2>2, <2>3, GoesOn
<1>12. ASSUME r.n = 1, Plain(r) PROVE Changes /\ Shapes'
  <2>0. /\ opt.sslmode # "require" /\ log' = [log EXCEPT !.declined = TRUE]
        /\ conn' = [rest EXCEPT !.allow_ssl_try = FALSE, !.status = "MADE"]
        /\ link' = LinkAfter(r) /\ fds' = fds
    BY <1>12 DEF Plain, rest
  <2>1. ShapedLog(log') /\ LogKept
    BY <1>1, <1>12, <2>0, Noted
  <2>2. log'.declined
    BY <1>1, <1>12, <2>0 DEF ShapedLog, LogFields
  <2>3. /\ Shaped(conn') /\ conn'.sock = conn.sock /\ conn'.status = "MADE"
        /\ conn'.addr_cur = conn.addr_cur /\ conn'.addrlist = conn.addrlist
        /\ conn'.ssl_in_use = conn.ssl_in_use /\ conn'.allow_ssl_try = FALSE
        /\ conn'.pversion = rest.pversion /\ conn'.send_appname = rest.send_appname
        /\ conn'.wait_ssl_try = rest.wait_ssl_try
    BY <1>2, <1>6, <1>12, <2>0 DEF Shaped, ConnFields, Statuses
  <2>4. Fallbacks(conn') = Fallbacks([conn EXCEPT !.allow_ssl_try = FALSE])
    <3>1. rest.pversion = conn.pversion /\ rest.send_appname = conn.send_appname
      BY <1>6, SameFallbacks
    <3> QED BY <1>1, <1>7, <2>3, <3>1 DEF Fallbacks, ConnFields
  <2>5. conn'.status \in Ahead \ {"NEEDED"} /\ conn'.ssl_in_use = conn.ssl_in_use
    BY <2>3 DEF Ahead
  <2> QED BY <1>1, <1>3, <1>12, <2>0, <2>1, <2>2, <2>3, <2>4, <2>5, GoesOn
<1>13. ASSUME r.n = 1, ErrorComes(r) PROVE Changes /\ Shapes'
  <2>0. /\ conn' = [c EXCEPT !.status = "AWAITING_RESPONSE"] /\ log' = log
        /\ link' = LinkAfter(r) /\ fds' = fds
    BY <1>13 DEF ErrorComes, c
  <2>1. ShapedLog(log') /\ LogKept
    BY <1>1, <1>13, <2>0, Noted
  <2>2. /\ Shaped(conn') /\ Fallbacks(conn') = Fallbacks(conn) /\ conn'.sock = conn.sock
        /\ conn'.addr_cur = conn.addr_cur /\ conn'.addrlist = conn.addrlist
        /\ conn'.status = "AWAITING_RESPONSE" /\ conn'.ssl_in_use = conn.ssl_in_use
    BY <1>2, <1>13, <2>0 DEF Shaped, ConnFields, Statuses, Fallbacks
  <2>3. conn'.status \in Ahead \ {"NEEDED"}
    BY <2>2 DEF Ahead
  <2> QED BY <1>1, <1>3, <1>13, <2>0, <2>1, <2>2, <2>3, GoesOn
<1> QED BY <1>5, <1>8, <1>9, <1>10, <1>11, <1>12, <1>13

LEMMA SSLChanges ==
  ASSUME IInv, SSLStartup
  PROVE  Changes /\ Shapes'
<1>1. /\ Shapes /\ Clean /\ Asking /\ Around /\ Shaped(conn) /\ ShapedLog(log)
      /\ ShapedLink(link) /\ conn.status = "SSL_STARTUP" /\ conn.sock # 0
      /\ conn.status \in Ahead \ {"NEEDED"} /\ conn.ssl_in_use \in BOOLEAN
  <2>1. /\ Shapes /\ Clean /\ Asking /\ Around /\ Shaped(conn) /\ ShapedLog(log)
        /\ ShapedLink(link) /\ conn.status = "SSL_STARTUP"
    BY Facts DEF SSLStartup, In
  <2> QED BY <2>1 DEF Asking, Ahead, Shaped
<1>2. CASE ~conn.ssl_in_use
  <2>1. PICK r \in ReadOutcomes : SSLAnswer(r)
    BY <1>2 DEF SSLStartup
  <2> QED BY <1>1, <1>2, <2>1, AnswerChanges
<1>3. CASE conn.ssl_in_use
  <2> DEFINE c == [conn EXCEPT !.ssl_in_use = FALSE]
             Retried4 == \/ opt.sslmode = "prefer" /\ c.allow_ssl_try
                            /\ conn' = [Retry(c) EXCEPT !.allow_ssl_try = FALSE]
                         \/ conn' = AfterFailure(c)
  <2>1. \/ Sent("hello") /\ UNCHANGED <<conn, fds, log>>
        \/ /\ conn' = [conn EXCEPT !.status = "MADE"]
           /\ link' = [link EXCEPT !.wire = Tail(@), !.tls = TRUE]
           /\ UNCHANGED <<fds, log>>
        \/ HandshakeFails(c)
    BY <1>3 DEF SSLStartup, Handshake
  <2>2. CASE Sent("hello") /\ UNCHANGED <<conn, fds, log>>
    <3>1. ShapedLink(link') /\ link'.requested = link.requested
      BY <1>1, <2>2 DEF Sent, ShapedLink, LinkFields
    <3> QED BY <1>1, <2>2, <3>1 DEF Changes, Rests, Shapes
  <2>3. CASE /\ conn' = [conn EXCEPT !.status = "MADE"]
             /\ link' = [link EXCEPT !.wire = Tail(@), !.tls = TRUE]
             /\ UNCHANGED <<fds, log>>
    <3>1. ShapedLog(log') /\ LogKept
      BY <1>1, <2>3, Noted
    <3>2. /\ Shaped(conn') /\ Fallbacks(conn') = Fallbacks(conn) /\ conn'.sock = conn.sock
          /\ conn'.addr_cur = conn.addr_cur /\ conn'.addrlist = conn.addrlist
          /\ conn'.status = "MADE" /\ conn'.ssl_in_use = conn.ssl_in_use
      BY <1>1, <2>3 DEF Shaped, ConnFields, Statuses, Fallbacks
    <3>3. ShapedLink(link') /\ link'.requested = link.requested
      BY <1>1, <2>3 DEF ShapedLink, LinkFields
    <3>4. conn'.status \in Ahead \ {"NEEDED"}
      BY <3>2 DEF Ahead
    <3> QED BY <1>1, <2>3, <3>1, <3>2, <3>3, <3>4, GoesOn
  <2>4. CASE HandshakeFails(c)
    <3>1. log' = [log EXCEPT !.declined = TRUE] /\ SocketFollows /\ Retried4
      BY <2>4 DEF HandshakeFails, Become, SocketFollows
    <3>2. /\ Shaped(c) /\ Fallbacks(c) = Fallbacks(conn) /\ c.sock = conn.sock
          /\ c.addr_cur = conn.addr_cur /\ c.addrlist = conn.addrlist
          /\ c.status = "SSL_STARTUP" /\ c.ssl_in_use = FALSE
      BY <1>1 DEF Shaped, ConnFields, Fallbacks
    <3> HIDE DEF c
    <3> QED BY <1>1, <3>1, <3>2, HandshakeEnds
  <2> QED BY <2>1, <2>2, <2>3, <2>4
<1> QED BY <1>1, <1>2, <1>3

LEMMA ConsumedShaped ==
  ASSUME Shaped(conn)
  PROVE  /\ Shaped(Consumed) /\ Fallbacks(Consumed) = Fallbacks(conn)
         /\ Consumed.sock = conn.sock /\ Consumed.addr_cur = conn.addr_cur
         /\ Consumed.addrlist = conn.addrlist /\ Consumed.status = conn.status
         /\ Consumed.ssl_in_use = conn.ssl_in_use
         /\ Consumed.wait_ssl_try = conn.wait_ssl_try
         /\ Consumed.allow_ssl_try = conn.allow_ssl_try
         /\ Consumed.pversion = conn.pversion /\ Consumed.send_appname = conn.send_appname
BY DEF Consumed, Shaped, ConnFields, Fallbacks

LEMMA AwaitingChanges ==
  ASSUME IInv, \/ AwaitingIncomplete \/ AwaitingNotPostgres \/ AwaitingOldError
               \/ AwaitingError \/ AwaitingRequest
  PROVE  Changes /\ Shapes'
<1>1. /\ Shapes /\ Clean /\ Asking /\ Around /\ ModeInv /\ Shaped(conn) /\ ShapedLog(log)
      /\ ShapedLink(link) /\ conn.status = "AWAITING_RESPONSE"
      /\ conn.status \in Ahead \ {"NEEDED"}
  <2>1. /\ Shapes /\ Clean /\ Asking /\ Around /\ ModeInv /\ Shaped(conn) /\ ShapedLog(log)
        /\ ShapedLink(link) /\ conn.status = "AWAITING_RESPONSE"
    BY Facts DEF AwaitingIncomplete, AwaitingNotPostgres, AwaitingOldError,
                 AwaitingError, AwaitingRequest, In
  <2> QED BY <2>1 DEF Ahead
<1> DEFINE c == Consumed
<1>2. /\ Shaped(c) /\ Fallbacks(c) = Fallbacks(conn)
      /\ c.sock = conn.sock /\ c.addr_cur = conn.addr_cur
      /\ c.addrlist = conn.addrlist /\ c.status = conn.status
      /\ c.ssl_in_use = conn.ssl_in_use /\ c.wait_ssl_try = conn.wait_ssl_try
      /\ c.allow_ssl_try = conn.allow_ssl_try /\ c.pversion = conn.pversion
  BY <1>1, ConsumedShaped
<1>3. CASE AwaitingIncomplete
  BY <1>1, <1>3 DEF AwaitingIncomplete, Changes, Rests, Shapes
<1>4. CASE AwaitingNotPostgres
  <2>1. conn' = AfterFailure([conn EXCEPT !.status = "BAD"]) /\ SocketFollows /\ log' = log
    BY <1>4 DEF AwaitingNotPostgres, Fail, Become, SocketFollows
  <2>2. ShapedLog(log') /\ LogKept
    BY <1>1, <2>1, Noted
  <2> QED BY <1>1, <2>1, <2>2, GivesUp
<1>5. CASE AwaitingOldError
  <2>1. /\ SocketFollows /\ log' = [log EXCEPT !.refused = @ \/ ~link.requested]
        /\ \/ conn.pversion = 3 /\ conn' = [Retry(c) EXCEPT !.pversion = 2]
           \/ conn' = AfterFailure([c EXCEPT !.status = "BAD"])
    BY <1>5 DEF AwaitingOldError, Fail, Become, SocketFollows
  <2>2. ShapedLog(log') /\ LogKept
    BY <1>1, <2>1, Noted
  <2> HIDE DEF c
  <2>3. CASE conn.pversion = 3 /\ conn' = [Retry(c) EXCEPT !.pversion = 2]
    BY <1>1, <1>2, <2>1, <2>2, <2>3, TriesAgain
  <2>4. CASE conn' = AfterFailure([c EXCEPT !.status = "BAD"])
    BY <1>1, <1>2, <2>1, <2>2, <2>4, GivesUp
  <2> QED BY <2>1, <2>3, <2>4
<1>6. CASE AwaitingError
  <2>1. log' = [log EXCEPT !.refused = @ \/ ~link.requested,
                           !.declined = @ \/ link.requested]
    BY <1>6 DEF AwaitingError
  <2>2. ShapedLog(log') /\ LogKept
    BY <1>1, <2>1, Noted
  <2>3. /\ SocketFollows
        /\ \/ /\ opt.sslmode = "allow" /\ ~c.ssl_in_use /\ c.allow_ssl_try /\ c.wait_ssl_try
              /\ conn' = [Retry(c) EXCEPT !.wait_ssl_try = FALSE]
           \/ /\ opt.sslmode = "prefer" /\ c.allow_ssl_try /\ ~c.wait_ssl_try
              /\ conn' = [Retry(c) EXCEPT !.allow_ssl_try = FALSE]
           \/ conn' = AfterFailure([c EXCEPT !.status = "BAD"])
    <3>1. CASE /\ opt.sslmode = "allow" /\ ~c.ssl_in_use /\ c.allow_ssl_try /\ c.wait_ssl_try
      BY <1>6, <3>1 DEF AwaitingError, Fail, Become, SocketFollows
    <3>2. CASE /\ opt.sslmode = "prefer" /\ c.allow_ssl_try /\ ~c.wait_ssl_try
      BY <1>6, <3>2 DEF AwaitingError, Fail, Become, SocketFollows
    <3>3. CASE /\ ~(opt.sslmode = "allow" /\ ~c.ssl_in_use /\ c.allow_ssl_try /\ c.wait_ssl_try)
               /\ ~(opt.sslmode = "prefer" /\ c.allow_ssl_try /\ ~c.wait_ssl_try)
      BY <1>6, <3>3 DEF AwaitingError, Fail, Become, SocketFollows
    <3> QED BY <3>1, <3>2, <3>3
  <2>4. /\ log'.refused = (log.refused \/ ~link.requested)
        /\ log'.declined = (log.declined \/ link.requested)
        /\ link.requested \in BOOLEAN
    BY <1>1, <2>1 DEF ShapedLog, LogFields, ShapedLink
  <2> HIDE DEF c
  <2>5. CASE /\ opt.sslmode = "allow" /\ ~c.ssl_in_use /\ c.allow_ssl_try /\ c.wait_ssl_try
             /\ conn' = [Retry(c) EXCEPT !.wait_ssl_try = FALSE]
    <3>1. log'.refused \/ opt.unix
      <4>1. ~opt.unix => AllowInv
        BY <1>1, <2>5 DEF ModeInv
      <4>2. UseSSL /\ conn.wait_ssl_try
        BY <1>1, <1>2, <2>5 DEF Asking
      <4>3. ~opt.unix => ~log.requested
        BY <1>1, <4>1, <4>2 DEF AllowInv
      <4>4. link.requested => log.requested
        BY <1>1 DEF Asking
      <4> QED BY <2>4, <4>3, <4>4
    <3> QED BY <1>1, <1>2, <2>2, <2>3, <2>5, <3>1, TriesAgain
  <2>6. CASE /\ opt.sslmode = "prefer" /\ c.allow_ssl_try /\ ~c.wait_ssl_try
             /\ conn' = [Retry(c) EXCEPT !.allow_ssl_try = FALSE]
    <3>1. log'.declined \/ opt.unix
      <4>1. ~opt.unix => PreferInv
        BY <1>1, <2>6 DEF ModeInv
      <4>2. ~opt.unix => link.requested
        BY <1>1, <1>2, <2>6, <4>1 DEF PreferInv
      <4> QED BY <2>4, <4>2
    <3> QED BY <1>1, <1>2, <2>2, <2>3, <2>6, <3>1, TriesAgain
  <2>7. CASE conn' = AfterFailure([c EXCEPT !.status = "BAD"])
    BY <1>1, <1>2, <2>2, <2>3, <2>7, GivesUp
  <2> QED BY <2>3, <2>5, <2>6, <2>7
<1>7. CASE AwaitingRequest
  <2> DEFINE q == [c EXCEPT !.auth_req_received = TRUE,
                            !.password_needed = @ \/ Answer = "md5"]
  <2>1. /\ log' = log
        /\ \/ conn' = Authenticated(q) /\ UNCHANGED <<fds, link>>
           \/ conn' = AfterFailure([q EXCEPT !.status = "BAD"]) /\ SocketFollows
           \/ conn' = q /\ Sent("password") /\ fds' = fds
    <3>1. CASE Answer = "ok"
      BY <1>7, <3>1 DEF AwaitingRequest
    <3>2. CASE Answer = "unsupported" \/ (Answer = "md5" /\ ~opt.password)
      <4>1. Answer # "ok"
        BY <3>2
      <4> QED BY <1>7, <3>2, <4>1 DEF AwaitingRequest, Fail, Become, SocketFollows
    <3>3. CASE Answer = "md5" /\ opt.password
      <4>1. Answer # "ok" /\ ~(Answer = "unsupported" \/ (Answer = "md5" /\ ~opt.password))
        BY <3>3
      <4> QED BY <1>7, <3>3, <4>1 DEF AwaitingRequest, Fail, Become, SocketFollows
    <3> QED BY <1>7, <3>1, <3>2, <3>3 DEF AwaitingRequest
  <2>2. ShapedLog(log') /\ LogKept
    BY <1>1, <2>1, Noted
  <2> HIDE DEF c
  <2>3. /\ Shaped(q) /\ Fallbacks(q) = Fallbacks(conn)
        /\ q.sock = conn.sock /\ q.addr_cur = conn.addr_cur
        /\ q.addrlist = conn.addrlist /\ q.status = conn.status
        /\ q.ssl_in_use = conn.ssl_in_use
        /\ q.wait_ssl_try = conn.wait_ssl_try /\ q.allow_ssl_try = conn.allow_ssl_try
    BY <1>2 DEF Shaped, ConnFields, Fallbacks
  <2> HIDE DEF q
  <2>4. CASE conn' = Authenticated(q) /\ UNCHANGED <<fds, link>>
    <3>1. /\ Shaped(conn') /\ Fallbacks(conn') = Fallbacks(conn) /\ conn'.sock = conn.sock
          /\ conn'.addr_cur = conn.addr_cur /\ conn'.addrlist = conn.addrlist
          /\ conn'.status = "AUTH_OK" /\ conn'.ssl_in_use = conn.ssl_in_use
      BY <2>3, <2>4 DEF Authenticated, Shaped, ConnFields, Statuses, Fallbacks
    <3>2. conn'.status \in Ahead \ {"NEEDED"}
      BY <3>1 DEF Ahead
    <3> QED BY <1>1, <2>2, <2>4, <3>1, <3>2, GoesOn
  <2>5. CASE conn' = AfterFailure([q EXCEPT !.status = "BAD"]) /\ SocketFollows
    BY <1>1, <2>2, <2>3, <2>5, GivesUp
  <2>6. CASE conn' = q /\ Sent("password") /\ fds' = fds
    <3>1. ShapedLink(link') /\ link'.requested = link.requested
      BY <1>1, <2>6 DEF Sent, ShapedLink, LinkFields
    <3> QED BY <1>1, <2>2, <2>3, <2>6, <3>1, GoesOn
  <2> QED BY <2>1, <2>4, <2>5, <2>6
<1> QED BY <1>3, <1>4, <1>5, <1>6, <1>7

\* A PGconn that keeps its socket when its attempt is over.
LEMMA IsOver ==
  ASSUME Shapes, Clean, Asking, Shaped(conn'), conn'.status \notin Ahead,
         conn'.wait_ssl_try = conn.wait_ssl_try, conn'.allow_ssl_try = conn.allow_ssl_try,
         conn'.sock = conn.sock, fds' = fds, ShapedLink(link'),
         link'.requested = link.requested, log' = log
  PROVE  Changes /\ Shapes'
<1>1. ShapedLog(log') /\ LogKept
  BY Noted
<1> QED BY <1>1 DEF Ends, SocketKept, LogKept, Changes, Shapes

LEMMA AuthOkChanges ==
  ASSUME IInv, AuthOkBusy \/ AuthOkAsynchronous \/ AuthOkResult \/ AuthOkReady
  PROVE  Changes /\ Shapes'
<1>1. /\ Shapes /\ Clean /\ Asking /\ Around /\ Shaped(conn) /\ ShapedLog(log)
      /\ ShapedLink(link) /\ conn.status = "AUTH_OK" /\ log' = log
      /\ conn.status \in Ahead \ {"NEEDED"}
  <2>1. /\ Shapes /\ Clean /\ Asking /\ Around /\ Shaped(conn) /\ ShapedLog(log)
        /\ ShapedLink(link) /\ conn.status = "AUTH_OK" /\ log' = log
    BY Facts DEF AuthOkBusy, AuthOkAsynchronous, AuthOkResult, AuthOkReady, In
  <2> QED BY <2>1 DEF Ahead
<1>2. ShapedLog(log') /\ LogKept
  BY <1>1, Noted
<1> DEFINE c == Consumed
<1>3. /\ Shaped(c) /\ Fallbacks(c) = Fallbacks(conn)
      /\ c.sock = conn.sock /\ c.addr_cur = conn.addr_cur
      /\ c.addrlist = conn.addrlist /\ c.status = conn.status
      /\ c.ssl_in_use = conn.ssl_in_use /\ c.wait_ssl_try = conn.wait_ssl_try
      /\ c.allow_ssl_try = conn.allow_ssl_try /\ c.send_appname = conn.send_appname
  BY <1>1, ConsumedShaped
<1>4. CASE AuthOkBusy
  BY <1>1, <1>4 DEF AuthOkBusy, Changes, Rests, Shapes
<1>5. CASE AuthOkAsynchronous
  <2>1. conn' = c /\ UNCHANGED <<fds, link>>
    BY <1>5 DEF AuthOkAsynchronous
  <2> HIDE DEF c
  <2> QED BY <1>1, <1>2, <1>3, <2>1, GoesOn
<1>6. CASE AuthOkResult
  <2>1. /\ SocketFollows
        /\ \/ conn.send_appname /\ conn' = [Retry(c) EXCEPT !.send_appname = FALSE]
           \/ conn' = AfterFailure([c EXCEPT !.status = "BAD"])
    BY <1>6 DEF AuthOkResult, Fail, Become, SocketFollows
  <2> HIDE DEF c
  <2>2. CASE conn.send_appname /\ conn' = [Retry(c) EXCEPT !.send_appname = FALSE]
    BY <1>1, <1>2, <1>3, <2>1, <2>2, TriesAgain
  <2>3. CASE conn' = AfterFailure([c EXCEPT !.status = "BAD"])
    BY <1>1, <1>2, <1>3, <2>1, <2>3, GivesUp
  <2> QED BY <2>1, <2>2, <2>3
<1>7. CASE AuthOkReady
  <2> DEFINE d == [c EXCEPT !.asyncStatus = "IDLE", !.addrlist = FALSE, !.addr_cur = 0]
  <2>1. /\ UNCHANGED <<fds, link>>
        /\ \/ conn' = [d EXCEPT !.status = "SETENV", !.setenv_state = "CLIENT_ENCODING_SEND",
                                !.next_eo = opt.settings]
           \/ conn' = [d EXCEPT !.status = "OK"]
    BY <1>7 DEF AuthOkReady
  <2> HIDE DEF c
  <2>2. /\ Shaped(d) /\ d.sock = conn.sock /\ d.wait_ssl_try = conn.wait_ssl_try
        /\ d.allow_ssl_try = conn.allow_ssl_try
    BY <1>3, NumAddrsAssumption DEF Shaped, ConnFields
  <2> HIDE DEF d
  <2>3. /\ Shaped(conn') /\ conn'.status \in {"SETENV", "OK"} /\ conn'.sock = conn.sock
        /\ conn'.wait_ssl_try = conn.wait_ssl_try /\ conn'.allow_ssl_try = conn.allow_ssl_try
    <3>1. CASE conn' = [d EXCEPT !.status = "SETENV", !.setenv_state = "CLIENT_ENCODING_SEND",
                                 !.next_eo = opt.settings]
      BY <2>2, <3>1 DEF Shaped, ConnFields, Statuses, SetenvSending, Waits
    <3>2. CASE conn' = [d EXCEPT !.status = "OK"]
      BY <2>2, <3>2 DEF Shaped, ConnFields, Statuses
    <3> QED BY <2>1, <3>1, <3>2
  <2>4. conn'.status \notin Ahead
    BY <2>3 DEF Ahead
  <2> QED BY <1>1, <2>1, <2>3, <2>4, IsOver
<1> QED BY <1>4, <1>5, <1>6, <1>7

LEMMA SetenvStates ==
  /\ \A w \in SetenvSending : Waits[w] \in SetenvWaiting
  /\ {"CLIENT_ENCODING_SEND", "OPTION_SEND", "QUERY1_SEND", "QUERY2_SEND", "IDLE"}
       \subseteq SetenvSending \union SetenvWaiting \union {"IDLE"}
BY DEF SetenvSending, SetenvWaiting, Waits

LEMMA SetenvEntryChanges ==
  ASSUME IInv, SetenvEntry \/ SetenvLost
  PROVE  Changes /\ Shapes'
<1>1. /\ Shapes /\ Clean /\ Asking /\ Around /\ Shaped(conn) /\ ShapedLink(link)
      /\ ShapedLog(log) /\ conn.status = "SETENV" /\ log' = log
  BY Facts DEF SetenvEntry, SetenvLost, In
<1>2. ShapedLog(log') /\ LogKept
  BY <1>1, Noted
<1>3. CASE SetenvEntry
  <2>1. CASE conn' = [conn EXCEPT !.status = "OK"] /\ UNCHANGED <<fds, link>>
    <3>1. /\ Shaped(conn') /\ conn'.status = "OK" /\ conn'.sock = conn.sock
          /\ conn'.wait_ssl_try = conn.wait_ssl_try
          /\ conn'.allow_ssl_try = conn.allow_ssl_try
      BY <1>1, <2>1 DEF Shaped, ConnFields, Statuses
    <3>2. conn'.status \notin Ahead
      BY <3>1 DEF Ahead
    <3> QED BY <1>1, <2>1, <3>1, <3>2, IsOver
  <2>2. ASSUME NEW r \in ReadOutcomes, r.n # -1, link' = LinkAfter(r), fds' = fds,
               \/ conn' = pqReadData(r)
               \/ conn' = [pqReadData(r) EXCEPT !.status = "OK"]
        PROVE  Changes /\ Shapes'
    <3> DEFINE c == pqReadData(r)
    <3>1. /\ Shaped(c) /\ Fallbacks(c) = Fallbacks(conn) /\ c.sock = conn.sock
          /\ c.status = "SETENV"
      BY <1>1, <2>2, ReadShaped
    <3>2. ShapedLink(link') /\ link'.requested = link.requested
      BY <1>1, <2>2, LinkReadShaped
    <3> HIDE DEF c
    <3>3. c.wait_ssl_try = conn.wait_ssl_try /\ c.allow_ssl_try = conn.allow_ssl_try
      BY <3>1, SameFallbacks
    <3>4. conn' = c \/ conn' = [c EXCEPT !.status = "OK"]
      BY <2>2 DEF c
    <3>5. /\ Shaped(conn') /\ conn'.status \in {"OK", "SETENV"} /\ conn'.sock = conn.sock
          /\ conn'.wait_ssl_try = conn.wait_ssl_try
          /\ conn'.allow_ssl_try = conn.allow_ssl_try
      BY <3>1, <3>3, <3>4 DEF Shaped, ConnFields, Statuses
    <3>6. conn'.status \notin Ahead
      BY <3>5 DEF Ahead
    <3> QED BY <1>1, <2>2, <3>2, <3>5, <3>6, IsOver
  <2> QED BY <1>3, <2>1, <2>2 DEF SetenvEntry
<1>4. CASE SetenvLost
  <2>1. PICK r \in ReadOutcomes :
          /\ r.n = -1 /\ SocketFollows
          /\ conn' = AfterFailure([[pqReadData(r) EXCEPT !.setenv_state = "IDLE"]
                                     EXCEPT !.status = "BAD"])
    BY <1>4 DEF SetenvLost, SetenvFails, Fail, Become, SocketFollows
  <2> DEFINE d == pqReadData(r)
             c == [d EXCEPT !.setenv_state = "IDLE"]
  <2>2. Shaped(d) /\ Fallbacks(d) = Fallbacks(conn) /\ d.sock \in {0, conn.sock}
    BY <1>1, ReadShaped
  <2> HIDE DEF d
  <2>3. conn' = AfterFailure([c EXCEPT !.status = "BAD"])
    BY <2>1 DEF d
  <2>4. /\ Shaped(c) /\ c.sock \in {0, conn.sock} /\ Fallbacks(c) = Fallbacks(conn)
    BY <2>2 DEF Shaped, ConnFields, Fallbacks
  <2> HIDE DEF c
  <2>5. c.wait_ssl_try = conn.wait_ssl_try /\ c.allow_ssl_try = conn.allow_ssl_try
    BY <2>4, SameFallbacks
  <2> QED BY <1>1, <1>2, <2>1, <2>3, <2>4, <2>5, GivesUp
<1> QED BY <1>3, <1>4

LEMMA SetenvChanges ==
  ASSUME IInv, \/ SetenvSkip \/ SetenvSend \/ SetenvBusy \/ SetenvResult \/ SetenvDone
  PROVE  Changes /\ Shapes'
<1>1. /\ Shapes /\ Clean /\ Asking /\ Around /\ Shaped(conn) /\ ShapedLink(link)
      /\ ShapedLog(log) /\ conn.status = "OK" /\ log' = log
  <2>1. pc = "setenv" /\ log' = log
    BY DEF SetenvSkip, SetenvSend, SetenvBusy, SetenvResult, SetenvDone, Setenv
  <2> QED BY <2>1, Facts DEF Around
<1>2. ShapedLog(log') /\ LogKept
  BY <1>1, Noted
<1>3. /\ Shaped(Consumed) /\ Consumed.sock = conn.sock /\ Consumed.status = "OK"
      /\ Consumed.wait_ssl_try = conn.wait_ssl_try
      /\ Consumed.allow_ssl_try = conn.allow_ssl_try
  BY <1>1, ConsumedShaped
<1>4. ASSUME NEW c, c \in {conn, Consumed},
             conn' = AfterFailure([[c EXCEPT !.setenv_state = "IDLE"] EXCEPT !.status = "BAD"]),
             SocketFollows
      PROVE  Changes /\ Shapes'
  <2> DEFINE d == [c EXCEPT !.setenv_state = "IDLE"]
  <2>1. /\ Shaped(d) /\ d.sock = conn.sock /\ d.wait_ssl_try = conn.wait_ssl_try
        /\ d.allow_ssl_try = conn.allow_ssl_try
    <3>1. /\ Shaped(c) /\ c.sock = conn.sock /\ c.wait_ssl_try = conn.wait_ssl_try
          /\ c.allow_ssl_try = conn.allow_ssl_try
      BY <1>1, <1>3, <1>4
    <3> QED BY <3>1 DEF Shaped, ConnFields
  <2>2. conn' = AfterFailure([d EXCEPT !.status = "BAD"])
    BY <1>4
  <2> HIDE DEF d
  <2> QED BY <1>1, <1>2, <1>4, <2>1, <2>2, GivesUp
<1>5. ASSUME Shaped(conn'), conn'.status \in {"OK", "SETENV"}, conn'.sock = conn.sock,
             conn'.wait_ssl_try = conn.wait_ssl_try, conn'.allow_ssl_try = conn.allow_ssl_try,
             fds' = fds, ShapedLink(link'), link'.requested = link.requested
      PROVE  Changes /\ Shapes'
  <2>1. conn'.status \notin Ahead
    BY <1>5 DEF Ahead
  <2> QED BY <1>1, <1>5, <2>1, IsOver
<1>6. CASE SetenvSkip
  <2>1. PICK state \in {"OPTION_SEND", "QUERY1_SEND"} :
          conn' = [conn EXCEPT !.setenv_state = state]
    BY <1>6 DEF SetenvSkip
  <2>2. /\ Shaped(conn') /\ conn'.status = "OK" /\ conn'.sock = conn.sock
        /\ conn'.wait_ssl_try = conn.wait_ssl_try
        /\ conn'.allow_ssl_try = conn.allow_ssl_try
    BY <1>1, <2>1, SetenvStates DEF Shaped, ConnFields
  <2>3. UNCHANGED <<fds, link>>
    BY <1>6 DEF SetenvSkip
  <2> QED BY <1>1, <1>5, <2>2, <2>3
<1>7. CASE SetenvSend
  <2> DEFINE c == [conn EXCEPT !.setenv_state = Waits[@], !.asyncStatus = "BUSY"]
  <2>1. \/ /\ SocketFollows
           /\ conn' = AfterFailure([[conn EXCEPT !.setenv_state = "IDLE"]
                                      EXCEPT !.status = "BAD"])
        \/ /\ \E q \in {"set", "version", "encoding"} : Sent(q)
           /\ conn' = c \/ conn' = [c EXCEPT !.status = "SETENV"]
           /\ fds' = fds
    BY <1>7 DEF SetenvSend, SetenvFails, Fail, Become, SocketFollows
  <2>2. CASE /\ \E q \in {"set", "version", "encoding"} : Sent(q)
             /\ conn' = c \/ conn' = [c EXCEPT !.status = "SETENV"]
             /\ fds' = fds
    <3>1. conn.setenv_state \in SetenvSending
      BY <1>7 DEF SetenvSend
    <3>2. Waits[conn.setenv_state] \in SetenvWaiting
      BY <3>1, SetenvStates
    <3>3. /\ Shaped(c) /\ c.sock = conn.sock /\ c.status = "OK"
          /\ c.wait_ssl_try = conn.wait_ssl_try /\ c.allow_ssl_try = conn.allow_ssl_try
      BY <1>1, <3>2 DEF Shaped, ConnFields
    <3> HIDE DEF c
    <3>4. /\ Shaped(conn') /\ conn'.status \in {"OK", "SETENV"} /\ conn'.sock = conn.sock
          /\ conn'.wait_ssl_try = conn.wait_ssl_try
          /\ conn'.allow_ssl_try = conn.allow_ssl_try
      BY <2>2, <3>3 DEF Shaped, ConnFields, Statuses
    <3>5. ShapedLink(link') /\ link'.requested = link.requested
      <4>1. PICK q \in {"set", "version", "encoding"} :
              link' = [link EXCEPT !.asked = IF link.net = "up" THEN q ELSE @,
                                   !.requested = @ \/ q = "ssl"]
        BY <2>2 DEF Sent
      <4> QED BY <1>1, <4>1 DEF ShapedLink, LinkFields
    <3> QED BY <1>5, <2>2, <3>4, <3>5
  <2> QED BY <1>4, <2>1, <2>2
<1>8. CASE SetenvBusy
  <2>1. conn' = [conn EXCEPT !.status = "SETENV"] /\ UNCHANGED <<fds, link>>
    BY <1>8 DEF SetenvBusy
  <2>2. /\ Shaped(conn') /\ conn'.status = "SETENV" /\ conn'.sock = conn.sock
        /\ conn'.wait_ssl_try = conn.wait_ssl_try
        /\ conn'.allow_ssl_try = conn.allow_ssl_try
    BY <1>1, <2>1 DEF Shaped, ConnFields, Statuses
  <2> QED BY <1>1, <1>5, <2>1, <2>2
<1>9. CASE SetenvResult
  <2>1. \/ /\ SocketFollows
           /\ conn' = AfterFailure([[Consumed EXCEPT !.setenv_state = "IDLE"]
                                      EXCEPT !.status = "BAD"])
        \/ conn' = Consumed /\ UNCHANGED <<fds, link>>
    BY <1>9 DEF SetenvResult, SetenvFails, Fail, Become, SocketFollows
  <2> QED BY <1>1, <1>3, <1>4, <1>5, <2>1
<1>10. CASE SetenvDone
  <2> DEFINE c == [Consumed EXCEPT !.asyncStatus = "IDLE"]
  <2>1. /\ UNCHANGED <<fds, link>>
        /\ \/ conn' = [c EXCEPT !.setenv_state = "OPTION_SEND"]
           \/ conn' = [c EXCEPT !.setenv_state = "OPTION_SEND", !.next_eo = @ - 1]
           \/ conn' = [c EXCEPT !.setenv_state = "QUERY2_SEND"]
           \/ conn' = [c EXCEPT !.setenv_state = "IDLE"]
    <3>1. /\ UNCHANGED <<fds, link>> /\ conn.setenv_state \in SetenvWaiting
      BY <1>10 DEF SetenvDone
    <3>2. CASE conn.setenv_state = "CLIENT_ENCODING_WAIT"
      BY <1>10, <3>1, <3>2 DEF SetenvDone
    <3>3. CASE conn.setenv_state = "OPTION_WAIT"
      BY <1>10, <3>1, <3>3 DEF SetenvDone
    <3>4. CASE conn.setenv_state = "QUERY1_WAIT"
      BY <1>10, <3>1, <3>4 DEF SetenvDone
    <3>5. CASE conn.setenv_state = "QUERY2_WAIT"
      BY <1>10, <3>1, <3>5 DEF SetenvDone
    <3> QED BY <3>1, <3>2, <3>3, <3>4, <3>5 DEF SetenvWaiting, SetenvSending, Waits
  <2>2. /\ Shaped(c) /\ c.sock = conn.sock /\ c.status = "OK"
        /\ c.wait_ssl_try = conn.wait_ssl_try /\ c.allow_ssl_try = conn.allow_ssl_try
    BY <1>3 DEF Shaped, ConnFields
  <2> HIDE DEF c
  <2>3. /\ Shaped(conn') /\ conn'.status = "OK" /\ conn'.sock = conn.sock
        /\ conn'.wait_ssl_try = conn.wait_ssl_try
        /\ conn'.allow_ssl_try = conn.allow_ssl_try
    <3>1. PICK s \in SetenvSending \union SetenvWaiting \union {"IDLE"} :
             \/ conn' = [c EXCEPT !.setenv_state = s]
             \/ conn' = [c EXCEPT !.setenv_state = s, !.next_eo = @ - 1]
      BY <2>1, SetenvStates, Zenon
    <3>2. CASE conn' = [c EXCEPT !.setenv_state = s]
      BY <2>2, <3>2 DEF Shaped, ConnFields
    <3>3. CASE conn' = [c EXCEPT !.setenv_state = s, !.next_eo = @ - 1]
      BY <2>2, <3>3 DEF Shaped, ConnFields
    <3> QED BY <3>1, <3>2, <3>3
  <2> QED BY <1>1, <1>5, <2>1, <2>3
<1> QED BY <1>6, <1>7, <1>8, <1>9, <1>10

-----------------------------------------------------------------------------
(* What is around the PGconn, and the whole. *)

\* Where a step leaves the caller.
Returned ==
  /\ opt' = opt /\ pc # "new"
  /\ \/ /\ pc' \in Places \ {"new", "setenv"}
        /\ flag' \in {flag, "READING", "WRITING", "OK", "FAILED"}
        /\ first' \in {first, FALSE} /\ late' = late
     \/ pc' = "setenv" /\ conn'.status = "OK" /\ flag' = flag /\ first' = first /\ late' = late

LEMMA ReturnedAround ==
  ASSUME Around, Returned
  PROVE  Around'
BY DEF Around, Returned, Places

LEMMA PollReturns ==
  ASSUME IInv, Poll
  PROVE  Returned
<1>1. Around /\ Shaped(conn)
  BY Facts
<1>2. CASE PollEntry
  <2>1. pc = "entry"
    BY <1>2 DEF PollEntry
  <2>2. Return("FAILED") \/ Return("READING") \/ KeepGoing
    <3>1. CASE conn.status \notin {"AWAITING_RESPONSE", "AUTH_OK"}
      BY <1>2, <3>1 DEF PollEntry
    <3>2. CASE conn.status \in {"AWAITING_RESPONSE", "AUTH_OK"}
      <4>1. PICK r \in ReadOutcomes :
              CASE r.n = -1 -> Fail(pqReadData(r))
                [] r.n = 0 -> /\ conn' = pqReadData(r) /\ link' = LinkAfter(r)
                              /\ Return("READING") /\ UNCHANGED fds
                [] r.n = 1 -> /\ conn' = pqReadData(r) /\ link' = LinkAfter(r)
                              /\ KeepGoing /\ UNCHANGED fds
        BY <1>2, <3>2 DEF PollEntry
      <4>2. r.n \in {-1, 0, 1}
        BY <4>1 DEF ReadOutcomes
      <4>3. CASE r.n = -1
        <5>1. Fail(pqReadData(r))
          BY <4>1, <4>3
        <5> QED BY <5>1 DEF Fail
      <4>4. CASE r.n = 0
        BY <4>1, <4>4
      <4>5. CASE r.n = 1
        BY <4>1, <4>5
      <4> QED BY <4>2, <4>3, <4>4, <4>5
    <3> QED BY <3>1, <3>2
  <2> QED BY <2>1, <2>2 DEF Return, KeepGoing, Returned, Places
<1>3. CASE NeededNoSocket \/ NeededRefused \/ NeededNoMore
  BY <1>3 DEF NeededNoSocket, NeededRefused, NeededNoMore, In, Fail, Return, KeepGoing,
              Returned, Places
<1>4. CASE \E net \in {"up", "connecting"} : NeededConnects(net)
  BY <1>4 DEF NeededConnects, In, Return, KeepGoing, Returned, Places
<1>5. CASE Started \/ Made
  BY <1>5 DEF Started, Made, In, Fail, Return, KeepGoing, Returned, Places
<1>6. CASE SSLStartup
  <2>1. pc = "going" /\ conn.status = "SSL_STARTUP"
    BY <1>6 DEF SSLStartup, In
  <2>2. CASE conn.ssl_in_use
    BY <1>6, <2>1, <2>2 DEF SSLStartup, Handshake, HandshakeFails, Return, KeepGoing,
                            Returned, Places
  <2>3. CASE ~conn.ssl_in_use
    <3>1. PICK r \in ReadOutcomes : SSLAnswer(r)
      BY <1>6, <2>3 DEF SSLStartup
    <3>2. r.n = -1 \/ r.n = 1
      BY <2>3, <3>1 DEF ReadOutcomes
    <3> DEFINE next == IF pqReadData(r).in # <<>> THEN Head(pqReadData(r).in)
                       ELSE LinkAfter(r).wire[1]
    <3>3. CASE r.n = -1
      <4>1. Fail(pqReadData(r))
        BY <3>1, <3>3 DEF SSLAnswer
      <4>2. Return("FAILED")
        BY <4>1 DEF Fail
      <4> QED BY <2>1, <4>2 DEF Return, Returned, Places
    <3>4. CASE r.n = 1 /\ next = "S"
      BY <2>1, <3>1, <3>4 DEF SSLAnswer, HandshakeFails, Fail, Return, KeepGoing,
                              Returned, Places
    <3>5. CASE r.n = 1 /\ next = "N"
      BY <2>1, <3>1, <3>5 DEF SSLAnswer, Fail, Return, Returned, Places
    <3>6. CASE r.n = 1 /\ next \in {"E", "Eold"}
      <4>1. KeepGoing
        BY <3>1, <3>6 DEF SSLAnswer
      <4> QED BY <2>1, <4>1 DEF KeepGoing, Returned, Places
    <3>7. CASE r.n = 1 /\ next \notin {"S", "N", "E", "Eold"}
      BY <2>1, <3>1, <3>7 DEF SSLAnswer, Fail, Return, Returned, Places
    <3> QED BY <3>2, <3>3, <3>4, <3>5, <3>6, <3>7
  <2> QED BY <1>1, <2>2, <2>3 DEF Shaped
<1>7. CASE AwaitingIncomplete \/ AwaitingNotPostgres \/ AwaitingOldError
  BY <1>7 DEF AwaitingIncomplete, AwaitingNotPostgres, AwaitingOldError, In, Fail, Return,
              KeepGoing, Returned, Places
<1>8. CASE AwaitingError
  BY <1>8 DEF AwaitingError, In, Fail, Return, KeepGoing, Returned, Places
<1>9. CASE AwaitingRequest
  <2>1. pc = "going" /\ Answer \in {"md5", "ok", "unsupported"}
    BY <1>9 DEF AwaitingRequest, In
  <2>2. CASE Answer = "ok"
    BY <1>9, <2>1, <2>2 DEF AwaitingRequest, KeepGoing, Returned, Places
  <2>3. CASE Answer = "unsupported" \/ (Answer = "md5" /\ ~opt.password)
    BY <1>9, <2>1, <2>3 DEF AwaitingRequest, Fail, Return, Returned, Places
  <2>4. CASE Answer = "md5" /\ opt.password
    <3>1. Answer # "ok" /\ ~(Answer = "unsupported" \/ (Answer = "md5" /\ ~opt.password))
      BY <2>4
    <3> QED BY <1>9, <2>1, <2>4, <3>1 DEF AwaitingRequest, Fail, Return, KeepGoing,
                                          Returned, Places
  <2> QED BY <2>1, <2>2, <2>3, <2>4
<1>10. CASE AuthOkBusy \/ AuthOkAsynchronous \/ AuthOkResult \/ AuthOkReady
  BY <1>10 DEF AuthOkBusy, AuthOkAsynchronous, AuthOkResult, AuthOkReady, In, Fail, Return,
               KeepGoing, Returned, Places
<1>11. CASE SetenvEntry \/ SetenvLost
  <2>1. pc = "going" /\ conn.status = "SETENV"
    BY <1>11 DEF SetenvEntry, SetenvLost, In
  <2>2. CASE SetenvLost
    BY <2>1, <2>2 DEF SetenvLost, SetenvFails, Fail, Return, Returned, Places
  <2>3. CASE SetenvEntry
    <3>1. CASE conn' = [conn EXCEPT !.status = "OK"] /\ InSetenv
      <4>1. conn'.status = "OK"
        BY <1>1, <3>1 DEF Shaped, ConnFields
      <4> QED BY <2>1, <3>1, <4>1 DEF InSetenv, Returned
    <3>2. CASE Return("READING")
      BY <2>1, <3>2 DEF Return, Returned, Places
    <3>3. ASSUME NEW r \in ReadOutcomes, InSetenv,
                 conn' = [pqReadData(r) EXCEPT !.status = "OK"]
          PROVE  Returned
      <4>1. Shapes
        BY Facts
      <4>2. Shaped(pqReadData(r))
        BY <4>1, ReadShaped
      <4>3. conn'.status = "OK"
        BY <3>3, <4>2 DEF Shaped, ConnFields
      <4> QED BY <2>1, <3>3, <4>3 DEF InSetenv, Returned
    <3> QED BY <2>3, <3>1, <3>2, <3>3 DEF SetenvEntry
  <2> QED BY <1>11, <2>2, <2>3
<1>12. CASE SetenvSkip \/ SetenvSend \/ SetenvBusy \/ SetenvResult \/ SetenvDone
  <2>1. pc = "setenv" /\ conn.status = "OK" /\ DOMAIN conn = ConnFields
    BY <1>1, <1>12 DEF SetenvSkip, SetenvSend, SetenvBusy, SetenvResult, SetenvDone, Setenv,
                       Around, Shaped
  <2>2. Shaped(Consumed) /\ Consumed.status = "OK" /\ DOMAIN Consumed = ConnFields
    BY <1>1, <2>1, ConsumedShaped DEF Shaped
  <2>3. CASE SetenvSkip
    <3>1. InSetenv /\ \E w : conn' = [conn EXCEPT !.setenv_state = w]
      BY <2>3 DEF SetenvSkip
    <3> QED BY <2>1, <3>1 DEF InSetenv, Returned, ConnFields
  <2>4. CASE SetenvSend
    <3>1. \/ \E f \in {"READING", "FAILED"} : Return(f)
          \/ InSetenv /\ conn' = [conn EXCEPT !.setenv_state = Waits[@], !.asyncStatus = "BUSY"]
      BY <2>4 DEF SetenvSend, SetenvFails, Fail
    <3> QED BY <2>1, <3>1 DEF InSetenv, Return, Returned, Places, ConnFields
  <2>5. CASE SetenvBusy
    BY <2>1, <2>5 DEF SetenvBusy, Return, Returned, Places
  <2>6. CASE SetenvResult
    BY <2>1, <2>2, <2>6 DEF SetenvResult, SetenvFails, Fail, Return, InSetenv, Returned, Places
  <2>7. CASE SetenvDone
    <3> DEFINE c == [Consumed EXCEPT !.asyncStatus = "IDLE"]
    <3>1. conn.setenv_state \in SetenvWaiting
      BY <2>7 DEF SetenvDone
    <3>2. CASE conn.setenv_state = "CLIENT_ENCODING_WAIT"
      <4>1. InSetenv /\ conn' = [c EXCEPT !.setenv_state = "OPTION_SEND"]
        BY <2>7, <3>2 DEF SetenvDone
      <4> QED BY <2>1, <2>2, <4>1 DEF InSetenv, Returned, ConnFields
    <3>3. CASE conn.setenv_state = "OPTION_WAIT"
      <4>1. InSetenv /\ conn' = [c EXCEPT !.setenv_state = "OPTION_SEND", !.next_eo = @ - 1]
        BY <2>7, <3>3 DEF SetenvDone
      <4> QED BY <2>1, <2>2, <4>1 DEF InSetenv, Returned, ConnFields
    <3>4. CASE conn.setenv_state = "QUERY1_WAIT"
      <4>1. InSetenv /\ conn' = [c EXCEPT !.setenv_state = "QUERY2_SEND"]
        BY <2>7, <3>4 DEF SetenvDone
      <4> QED BY <2>1, <2>2, <4>1 DEF InSetenv, Returned, ConnFields
    <3>5. CASE conn.setenv_state = "QUERY2_WAIT"
      BY <2>1, <2>7, <3>5 DEF SetenvDone, Return, Returned, Places
    <3> QED BY <3>1, <3>2, <3>3, <3>4, <3>5 DEF SetenvWaiting, SetenvSending, Waits
  <2> QED BY <1>12, <2>3, <2>4, <2>5, <2>6, <2>7
<1> QED BY <1>2, <1>3, <1>4, <1>5, <1>6, <1>7, <1>8, <1>9, <1>10, <1>11, <1>12 DEF Poll

LEMMA StartedSomewhere ==
  ASSUME IInv, PQsetdbLogin \/ PQreset \/ PQfinish
  PROVE  Around'
<1>1. Around
  BY Facts
<1>2. CASE PQsetdbLogin
  BY <1>1, <1>2 DEF PQsetdbLogin, connectDBStart, StartFails, Around, Places
<1>3. CASE PQreset
  BY <1>1, <1>3 DEF PQreset, CallerHasIt, connectDBStart, StartFails, Around, Places
<1>4. CASE PQfinish
  BY <1>1, <1>4 DEF PQfinish, CallerHasIt, Around, Places
<1> QED BY <1>2, <1>3, <1>4

LEMMA OthersAround ==
  ASSUME IInv, Wake \/ TimedOut \/ ConnectionEnds \/ ServerAnswers \/ ServerCloses \/ Tick
  PROVE  Around'
<1>1. Around
  BY Facts
<1>2. CASE Wake \/ TimedOut \/ Tick
  BY <1>1, <1>2 DEF Wake, TimedOut, Tick, Around, Places
<1>3. CASE ConnectionEnds \/ ServerAnswers \/ ServerCloses
  <2>1. pc # "new"
    <3>1. link.net # "none"
      BY <1>3 DEF ConnectionEnds, ServerAnswers, ServerCloses
    <3> QED BY <1>1, <3>1 DEF Around, NoLink
  <2>2. UNCHANGED <<opt, conn, pc, flag, first, late, fds, log>>
    BY <1>3 DEF ConnectionEnds, ServerAnswers, ServerCloses
  <2> QED BY <1>1, <2>1, <2>2 DEF Around
<1> QED BY <1>2, <1>3

LEMMA InitEstablishes == Init => IInv
<1> SUFFICES ASSUME Init PROVE IInv
  OBVIOUS
<1>1. /\ conn.status = "BAD" /\ conn.sock = 0 /\ conn.ssl_in_use = FALSE
      /\ conn.allow_ssl_try = UseSSL /\ conn.wait_ssl_try = FALSE
      /\ log.starts = 0 /\ log.opened = 0 /\ log.clear = FALSE /\ log.requested = FALSE
      /\ link.requested = FALSE /\ UseSSL \in BOOLEAN /\ NumAddrs \in Nat
  BY OptionsAssumption, NumAddrsAssumption DEF Init, makeEmptyPGconn, NewLog, NoLink
<1>2. Shapes
  <2>1. Shaped(conn)
    BY <1>1, NumAddrsAssumption DEF Init, makeEmptyPGconn, Shaped, ConnFields, Statuses
  <2>2. ShapedLog(log)
    BY DEF Init, NewLog, ShapedLog, LogFields
  <2> QED BY <2>1, <2>2, NoLinkShaped DEF Shapes, Init
<1>3. Around
  BY DEF Init, Around, Places
<1>4. Clean /\ Asking
  BY <1>1 DEF Init, Clean, Asking, Ahead
<1>5. ModeInv
  BY <1>1 DEF ModeInv, RequireInv, DisableInv, PreferInv, AllowInv, Ahead
<1>6. Counted
  BY <1>1 DEF Counted, Ahead
<1> QED BY <1>2, <1>3, <1>4, <1>5, <1>6 DEF IInv

LEMMA NextKeeps == IInv /\ [Next]_vars => IInv'
<1> SUFFICES ASSUME IInv, [Next]_vars PROVE IInv'
  OBVIOUS
<1>1. /\ Shapes /\ Clean /\ Asking /\ ModeInv /\ Counted /\ Around /\ opt \in OptionRecords
  BY Facts, OptFacts
<1>2. CASE UNCHANGED vars
  <2>1. /\ opt' = opt /\ conn' = conn /\ pc' = pc /\ flag' = flag /\ first' = first
        /\ late' = late /\ fds' = fds /\ link' = link /\ log' = log
    BY <1>2 DEF vars
  <2>2. Shapes' /\ Around'
    BY <1>1, <2>1 DEF Shapes, Around
  <2>3. Clean' /\ Asking'
    BY <1>1, <2>1 DEF Clean, Asking
  <2>4. /\ RequireInv => RequireInv'
        /\ DisableInv => DisableInv'
        /\ PreferInv => PreferInv'
        /\ AllowInv => AllowInv'
    BY <2>1 DEF RequireInv, DisableInv, PreferInv, AllowInv
  <2>5. Counted'
    BY <1>1, <2>1 DEF Counted, Left, AddrsLeft, SSLLeft
  <2>6. ModeInv'
    BY <1>1, <2>1, <2>4 DEF ModeInv
  <2> QED BY <2>2, <2>3, <2>5, <2>6 DEF IInv
<1>3. CASE Next
  <2>1. Changes /\ Shapes'
    BY <1>3, LoginChanges, ResetChanges, FinishChanges, WaitChanges, EntryChanges,
       NeededChanges, StartedChanges, MadeChanges, SSLChanges, AwaitingChanges,
       AuthOkChanges, SetenvEntryChanges, SetenvChanges
    DEF Next, Client, User, Environment, Poll
  <2>2. Around'
    BY <1>1, <1>3, PollReturns, ReturnedAround, StartedSomewhere, OthersAround
    DEF Next, Client, User, Environment
  <2>3. opt' = opt
    <3>1. CASE Poll
      BY <3>1, PollReturns DEF Returned
    <3>2. CASE PQsetdbLogin \/ PQreset \/ PQfinish
      BY <3>2 DEF PQsetdbLogin, PQreset, PQfinish, connectDBStart, StartFails
    <3>3. CASE Wake \/ TimedOut \/ Tick \/ Environment
      BY <3>3 DEF Wake, TimedOut, Tick, Environment, ConnectionEnds, ServerAnswers, ServerCloses
    <3> QED BY <1>3, <3>1, <3>2, <3>3 DEF Next, Client, User
  <2>4. Clean' /\ Asking' /\ ModeInv' /\ Counted'
    BY <1>1, <2>1, <2>3, ChangesKeepClean, ChangesKeepAsking, ChangesKeepMode,
       ChangesKeepCount
  <2> QED BY <2>1, <2>2, <2>4 DEF IInv
<1> QED BY <1>2, <1>3

LEMMA IInvHolds == Spec => []IInv
BY InitEstablishes, NextKeeps, PTL DEF Spec

-----------------------------------------------------------------------------
\* However many addresses and whatever the parameters: a PGconn holds one socket
\* at most, and a retry finds nothing of the connection before.
THEOREM RetriesAlwaysBeginClean == Spec => []RetriesBeginClean
<1>1. IInv => RetriesBeginClean
  <2> SUFFICES ASSUME IInv PROVE RetriesBeginClean
    OBVIOUS
  <2>1. TypeOK
    BY DEF IInv, Shapes, Shaped, ShapedLink, Nets, Around, Places, TypeOK
  <2> QED BY <2>1 DEF IInv, Clean, Ahead, RetriesBeginClean
<1> QED BY <1>1, IInvHolds, PTL

\* Over TCP no sequence of answers and fallbacks makes the client break the
\* promise of its sslmode.
THEOREM SSLModeAlwaysKept == Spec => []SSLModeKept
<1>1. IInv => SSLModeKept
  BY DEF IInv, ModeInv, RequireInv, DisableInv, PreferInv, AllowInv, SSLModeKept
<1> QED BY <1>1, IInvHolds, PTL

\* One attempt opens at most one socket per address and one per fallback.
THEOREM AttemptsAlwaysBounded == Spec => []AttemptsBounded
<1>1. IInv => AttemptsBounded
  BY DEF IInv, Counted, AttemptsBounded
<1> QED BY <1>1, IInvHolds, PTL

-----------------------------------------------------------------------------
(* The walk along the address list.                                        *)

\* Before the first word to a server, and with no failure of its own machine, the
\* addresses tried are those before the one that is on.
Walked ==
  log.starts > 0 /\ ~log.talked /\ ~log.broke =>
    /\ conn.status \in {"NEEDED", "STARTED", "MADE", "BAD"}
    /\ conn.status = "NEEDED" =>
         log.tried = IF conn.addr_cur = 0 THEN 1..NumAddrs ELSE 1..conn.addr_cur - 1
    /\ conn.status \in {"STARTED", "MADE"} => log.tried = 1..conn.addr_cur
    /\ conn.status = "BAD" /\ pc = "user" => log.tried = 1..NumAddrs

\* What the log of an attempt never forgets.
Remembers ==
  /\ log'.starts = log.starts
  /\ log.talked => log'.talked
  /\ log.broke => log'.broke

LEMMA NotesRemembered ==
  ASSUME Shapes,
         log' \in {log, [log EXCEPT !.broke = TRUE], [log EXCEPT !.declined = TRUE],
                   [log EXCEPT !.refused = @ \/ ~link.requested],
                   [log EXCEPT !.refused = @ \/ ~link.requested,
                               !.declined = @ \/ link.requested]}
  PROVE  Remembers
<1>1. DOMAIN log = LogFields
  BY DEF Shapes, ShapedLog
<1> QED BY <1>1 DEF LogFields, Remembers

LEMMA SSLRemembered ==
  ASSUME IInv, SSLStartup
  PROVE  Remembers
<1>1. Shapes
  BY Facts
<1>2. log' \in {log, [log EXCEPT !.broke = TRUE], [log EXCEPT !.declined = TRUE]}
  <2>1. CASE conn.ssl_in_use
    <3>1. log' = log \/ HandshakeFails([conn EXCEPT !.ssl_in_use = FALSE])
      BY <2>1 DEF SSLStartup, Handshake
    <3> QED BY <3>1 DEF HandshakeFails
  <2>2. CASE ~conn.ssl_in_use
    <3>1. PICK r \in ReadOutcomes : SSLAnswer(r)
      BY <2>2 DEF SSLStartup
    <3>2. \/ AnswerLost(r) \/ AnswerRefused(r) \/ NoHandshake(r) \/ HandshakeBegun(r)
          \/ Plain(r) \/ ErrorComes(r)
      BY <2>2, <3>1, AnswerWays
    <3> QED BY <3>2 DEF AnswerLost, AnswerRefused, NoHandshake, HandshakeBegun, Plain,
                        ErrorComes
  <2> QED BY <2>1, <2>2
<1> QED BY <1>1, <1>2, NotesRemembered

\* What is noted when the connection was made: a failure, or that the server was
\* sent something.
LEMMA MadeNotes ==
  ASSUME Made
  PROVE  \/ log' = [log EXCEPT !.broke = TRUE]
         \/ \E a, b : log' = [log EXCEPT !.talked = TRUE, !.requested = a, !.clear = b]
<1> DEFINE c == [conn EXCEPT !.allow_ssl_try = @ /\ ~opt.unix]
           ssl == AsksForSSL(c)
           clear == log.clear \/ (~ssl /\ ~c.ssl_in_use)
<1>1. \/ log' = [log EXCEPT !.broke = TRUE]
      \/ log' = [log EXCEPT !.talked = TRUE, !.requested = log.requested \/ ssl, !.clear = clear]
  BY ONLY Made DEF Made
<1> HIDE DEF c, ssl, clear
<1> QED BY <1>1

LEMMA StepsRemember ==
  ASSUME IInv, Client \/ PQfinish \/ Environment \/ Tick
  PROVE  Remembers
<1>1. Shapes /\ DOMAIN log = LogFields
  BY Facts DEF ShapedLog
<1>2. CASE PQfinish \/ Environment \/ Tick \/ Wake \/ TimedOut
  <2>1. log' \in {log, [log EXCEPT !.broke = TRUE]}
    BY <1>2 DEF PQfinish, Environment, ConnectionEnds, ServerAnswers, ServerCloses, Tick, Wake,
                TimedOut
  <2> QED BY <1>1, <2>1, NotesRemembered
<1>3. CASE PollEntry \/ NeededNoSocket \/ NeededNoMore \/ Started
  <2>1. log' \in {log, [log EXCEPT !.broke = TRUE]}
    BY <1>3 DEF PollEntry, NeededNoSocket, NeededNoMore, Started
  <2> QED BY <1>1, <2>1, NotesRemembered
<1>4. CASE NeededRefused \/ \E net \in {"up", "connecting"} : NeededConnects(net)
  <2>1. log' = [log EXCEPT !.opened = @ + 1, !.tried = @ \union {conn.addr_cur}]
    BY <1>4 DEF NeededRefused, NeededConnects
  <2> QED BY <1>1, <2>1 DEF LogFields, Remembers
<1>5. CASE Made
  <2>1. \/ log' = [log EXCEPT !.broke = TRUE]
        \/ \E a, b : log' = [log EXCEPT !.talked = TRUE, !.requested = a, !.clear = b]
    BY <1>5, MadeNotes
  <2>2. CASE log' = [log EXCEPT !.broke = TRUE]
    BY <1>1, <2>2, NotesRemembered
  <2>3. CASE \E a, b : log' = [log EXCEPT !.talked = TRUE, !.requested = a, !.clear = b]
    BY <1>1, <2>3 DEF LogFields, Remembers
  <2> QED BY <2>1, <2>2, <2>3
<1>6. CASE SSLStartup
  BY <1>6, SSLRemembered
<1>7. CASE \/ AwaitingIncomplete \/ AwaitingNotPostgres \/ AwaitingOldError
           \/ AwaitingError \/ AwaitingRequest
  <2>1. log' \in {log, [log EXCEPT !.refused = @ \/ ~link.requested],
                  [log EXCEPT !.refused = @ \/ ~link.requested,
                              !.declined = @ \/ link.requested]}
    <3>1. CASE AwaitingRequest
      BY <3>1 DEF AwaitingRequest
    <3> QED BY <1>7, <3>1 DEF AwaitingIncomplete, AwaitingNotPostgres, AwaitingOldError,
                              AwaitingError
  <2> QED BY <1>1, <2>1, NotesRemembered
<1>8. CASE \/ AuthOkBusy \/ AuthOkAsynchronous \/ AuthOkResult \/ AuthOkReady
           \/ SetenvEntry \/ SetenvLost \/ SetenvSkip \/ SetenvSend \/ SetenvBusy
           \/ SetenvResult \/ SetenvDone
  <2>1. log' = log
    BY <1>8 DEF AuthOkBusy, AuthOkAsynchronous, AuthOkResult, AuthOkReady, SetenvEntry,
                SetenvLost, Setenv, SetenvSkip, SetenvSend, SetenvBusy, SetenvResult, SetenvDone
  <2> QED BY <1>1, <2>1, NotesRemembered
<1> QED BY <1>2, <1>3, <1>4, <1>5, <1>6, <1>7, <1>8 DEF Client, Poll

\* After Fail(c) the status is BAD.
LEMMA FailedBad ==
  ASSUME IInv, NEW c, Shaped(c), Fail(c)
  PROVE  conn'.status = "BAD"
<1> DEFINE b == [c EXCEPT !.status = "BAD"]
<1>1. Shaped(b) /\ b.status = "BAD"
  BY DEF Shaped, ConnFields, Statuses
<1>2. opt \in OptionRecords /\ first \in BOOLEAN
  BY Facts, OptFacts
<1>3. conn' = AfterFailure(b)
  BY DEF Fail, Become
<1> HIDE DEF b
<1> QED BY <1>1, <1>2, <1>3, Failed

\* The steps at one address.
LEMMA WalkOn ==
  ASSUME IInv, Walked, log.starts > 0, ~log'.talked, ~log'.broke, Remembers,
         \/ NeededNoSocket \/ NeededRefused \/ NeededNoMore
         \/ \E net \in {"up", "connecting"} : NeededConnects(net)
         \/ Started \/ Made
  PROVE  Walked'
<1>1. /\ Shaped(conn) /\ DOMAIN conn = ConnFields /\ DOMAIN log = LogFields /\ Counted
      /\ conn.addr_cur \in 0..NumAddrs /\ NumAddrs \in Nat
  BY Facts, NumAddrsAssumption DEF Shaped, ShapedLog
<1>2. ~log.talked /\ ~log.broke
  BY DEF Remembers
<1>3. CASE NeededNoSocket
  <2>1. log' = [log EXCEPT !.broke = TRUE]
    BY <1>3 DEF NeededNoSocket
  <2> QED BY <1>1, <2>1 DEF LogFields
<1>4. CASE NeededRefused
  <2> DEFINE d == pqDropConnection(conn, TRUE)
  <2>1. /\ conn.status = "NEEDED" /\ conn.addr_cur # 0 /\ pc' = "going"
        /\ log' = [log EXCEPT !.opened = @ + 1, !.tried = @ \union {conn.addr_cur}]
        /\ conn' = [d EXCEPT !.addr_cur = NextAddr(@)]
    BY <1>4 DEF NeededRefused, In, Become, KeepGoing
  <2>2. Shaped(d) /\ d.status = "NEEDED" /\ d.addr_cur = conn.addr_cur
    BY <1>1, <2>1, Dropped
  <2> HIDE DEF d
  <2>3. conn'.status = "NEEDED" /\ conn'.addr_cur = NextAddr(conn.addr_cur)
    BY <2>1, <2>2 DEF Shaped, ConnFields
  <2>4. log.tried = 1..conn.addr_cur - 1 /\ log'.tried = log.tried \union {conn.addr_cur}
    BY <1>1, <1>2, <2>1 DEF Walked, LogFields
  <2>5. log'.tried = 1..conn.addr_cur
    BY <1>1, <2>1, <2>4
  <2>6. conn'.addr_cur = IF conn.addr_cur < NumAddrs THEN conn.addr_cur + 1 ELSE 0
    BY <2>3 DEF NextAddr
  <2>7. log'.tried = IF conn'.addr_cur = 0 THEN 1..NumAddrs ELSE 1..conn'.addr_cur - 1
    <3>1. CASE conn.addr_cur < NumAddrs
      BY <1>1, <2>1, <2>5, <2>6, <3>1
    <3>2. CASE ~(conn.addr_cur < NumAddrs)
      <4>1. conn.addr_cur = NumAddrs
        BY <1>1, <3>2
      <4> QED BY <2>5, <2>6, <3>2, <4>1
    <3> QED BY <3>1, <3>2
  <2> QED BY <2>1, <2>3, <2>7 DEF Walked
<1>5. CASE NeededNoMore
  <2>1. conn'.status = "BAD" /\ log' = log /\ conn.status = "NEEDED" /\ conn.addr_cur = 0
    BY <1>1, <1>5, FailedBad DEF NeededNoMore, In
  <2>2. log.tried = 1..NumAddrs
    BY <1>2, <2>1 DEF Walked
  <2> QED BY <2>1, <2>2 DEF Walked
<1>6. CASE \E net \in {"up", "connecting"} : NeededConnects(net)
  <2>1. /\ conn.status = "NEEDED" /\ conn.addr_cur # 0
        /\ log' = [log EXCEPT !.opened = @ + 1, !.tried = @ \union {conn.addr_cur}]
        /\ conn' = [conn EXCEPT !.sock = NewSocket, !.status = "STARTED"]
    BY <1>6 DEF NeededConnects, In
  <2>2. conn'.status = "STARTED" /\ conn'.addr_cur = conn.addr_cur
    BY <1>1, <2>1 DEF ConnFields
  <2>3. log.tried = 1..conn.addr_cur - 1 /\ log'.tried = log.tried \union {conn.addr_cur}
    BY <1>1, <1>2, <2>1 DEF Walked, LogFields
  <2>4. log'.tried = 1..conn'.addr_cur
    BY <1>1, <2>1, <2>2, <2>3
  <2> QED BY <2>2, <2>4 DEF Walked
<1>7. CASE Started
  <2> DEFINE d == pqDropConnection(conn, TRUE)
  <2>1. /\ conn.status = "STARTED" /\ conn.addr_cur # 0 /\ log.tried = 1..conn.addr_cur
    BY <1>1, <1>2, <1>7 DEF Started, In, Walked, Counted, Ahead
  <2>2. Shaped(d) /\ d.status = "STARTED" /\ d.addr_cur = conn.addr_cur
    BY <1>1, <2>1, Dropped
  <2>3. \/ /\ conn' = [conn EXCEPT !.status = "MADE"] /\ log' = log
        \/ log' = [log EXCEPT !.broke = TRUE]
        \/ /\ log' = log /\ NextAddr(conn.addr_cur) # 0
           /\ conn' = [d EXCEPT !.addr_cur = NextAddr(@), !.status = "NEEDED"]
        \/ log' = log /\ NextAddr(conn.addr_cur) = 0 /\ Fail(d)
    BY <1>7 DEF Started, Become
  <2> HIDE DEF d
  <2>4. CASE conn' = [conn EXCEPT !.status = "MADE"] /\ log' = log
    <3>1. conn'.status = "MADE" /\ conn'.addr_cur = conn.addr_cur
      BY <1>1, <2>4 DEF ConnFields
    <3> QED BY <2>1, <2>4, <3>1 DEF Walked
  <2>5. CASE log' = [log EXCEPT !.broke = TRUE]
    BY <1>1, <2>5 DEF LogFields
  <2>6. CASE /\ log' = log /\ NextAddr(conn.addr_cur) # 0
             /\ conn' = [d EXCEPT !.addr_cur = NextAddr(@), !.status = "NEEDED"]
    <3>1. conn'.status = "NEEDED" /\ conn'.addr_cur = NextAddr(conn.addr_cur)
      BY <2>2, <2>6 DEF Shaped, ConnFields
    <3>2. NextAddr(conn.addr_cur) = conn.addr_cur + 1
      BY <2>6 DEF NextAddr
    <3>3. conn'.addr_cur - 1 = conn.addr_cur /\ conn'.addr_cur # 0
      BY <1>1, <3>1, <3>2
    <3> QED BY <2>1, <2>6, <3>1, <3>3 DEF Walked
  <2>7. CASE log' = log /\ NextAddr(conn.addr_cur) = 0 /\ Fail(d)
    <3>1. conn'.status = "BAD"
      BY <2>2, <2>7, FailedBad
    <3>2. conn.addr_cur = NumAddrs
      BY <1>1, <2>7 DEF NextAddr
    <3> QED BY <2>1, <2>7, <3>1, <3>2 DEF Walked
  <2> QED BY <2>3, <2>4, <2>5, <2>6, <2>7
<1>8. CASE Made
  <2>1. \/ log' = [log EXCEPT !.broke = TRUE]
        \/ \E a, b : log' = [log EXCEPT !.talked = TRUE, !.requested = a, !.clear = b]
    BY <1>8, MadeNotes
  <2>2. CASE log' = [log EXCEPT !.broke = TRUE]
    BY <1>1, <2>2 DEF LogFields
  <2>3. CASE \E a, b : log' = [log EXCEPT !.talked = TRUE, !.requested = a, !.clear = b]
    BY <1>1, <2>3 DEF LogFields
  <2> QED BY <2>1, <2>2, <2>3
<1> QED BY <1>3, <1>4, <1>5, <1>6, <1>7, <1>8

LEMMA WalkBegins ==
  ASSUME IInv, Walked, PQsetdbLogin \/ PQreset
  PROVE  Walked'
<1>1. Shaped(conn) /\ DOMAIN log = LogFields /\ Around
  BY Facts DEF ShapedLog
<1>2. ASSUME NEW c, DOMAIN c = ConnFields, connectDBStart(c)
      PROVE  Walked'
  <2>1. CASE StartFails(c)
    <3>1. log'.broke = TRUE
      BY <1>1, <2>1 DEF StartFails, LogFields
    <3> QED BY <3>1 DEF Walked
  <2>2. CASE ~StartFails(c)
    <3>1. log'.tried = {} /\ conn'.status = "NEEDED" /\ conn'.addr_cur = 1
      BY <1>1, <1>2, <2>2 DEF connectDBStart, Become, LogFields, ConnFields
    <3>2. {} = 1..conn'.addr_cur - 1
      BY <3>1
    <3> QED BY <3>1, <3>2 DEF Walked
  <2> QED BY <2>1, <2>2
<1>3. CASE PQsetdbLogin
  <2>1. CASE connectOptions2Fails
    <3>1. log' = log /\ log.starts = 0
      BY <1>1, <1>3, <2>1 DEF PQsetdbLogin, Around, NewLog
    <3> QED BY <3>1 DEF Walked
  <2>2. CASE ~connectOptions2Fails
    <3>1. connectDBStart([conn EXCEPT !.options_valid = TRUE])
      BY <1>3, <2>2 DEF PQsetdbLogin
    <3>2. DOMAIN [conn EXCEPT !.options_valid = TRUE] = ConnFields
      BY <1>1 DEF Shaped
    <3> QED BY <1>2, <3>1, <3>2
  <2> QED BY <2>1, <2>2
<1>4. CASE PQreset
  <2>1. connectDBStart(closePGconn(conn)) /\ Shaped(closePGconn(conn))
    BY <1>1, <1>4, Closed DEF PQreset
  <2> QED BY <1>2, <2>1 DEF Shaped
<1> QED BY <1>3, <1>4

LEMMA WalkKept == IInv /\ Walked /\ [Next]_vars => Walked'
<1> SUFFICES ASSUME IInv, Walked, [Next]_vars PROVE Walked'
  OBVIOUS
<1>1. Shaped(conn) /\ DOMAIN conn = ConnFields /\ DOMAIN log = LogFields /\ Around
  BY Facts DEF Shaped, ShapedLog
<1>2. CASE UNCHANGED vars
  BY <1>2 DEF vars, Walked
<1>3. CASE PQsetdbLogin \/ PQreset
  BY <1>3, WalkBegins
<1>4. CASE Client \/ PQfinish \/ Environment \/ Tick
  <2>1. Remembers
    BY <1>4, StepsRemember
  <2>2. CASE log'.talked \/ log'.broke \/ ~(log.starts > 0)
    BY <2>1, <2>2 DEF Walked, Remembers
  <2>3. CASE ~log'.talked /\ ~log'.broke /\ log.starts > 0
    <3>1. conn.status \in {"NEEDED", "STARTED", "MADE", "BAD"}
      BY <2>1, <2>3 DEF Walked, Remembers
    <3>2. CASE \/ NeededNoSocket \/ NeededRefused \/ NeededNoMore
               \/ \E net \in {"up", "connecting"} : NeededConnects(net)
               \/ Started \/ Made
      BY <2>1, <2>3, <3>2, WalkOn
    <3>3. CASE PollEntry \/ Wake \/ Tick \/ Environment
      <4>1. conn' = conn /\ log' = log /\ (pc' = pc \/ pc' # "user")
        BY <3>1, <3>3 DEF PollEntry, KeepGoing, Wake, Tick, Environment, ConnectionEnds,
                          ServerAnswers, ServerCloses
      <4> QED BY <4>1 DEF Walked
    <3>4. CASE TimedOut
      <4>1. log' = [log EXCEPT !.broke = TRUE]
        BY <3>4 DEF TimedOut
      <4> QED BY <1>1, <2>3, <4>1 DEF LogFields
    <3>5. CASE PQfinish
      <4>1. pc' = "freed" /\ conn' = closePGconn(conn)
        BY <3>5 DEF PQfinish, Become
      <4>2. conn'.status = "BAD"
        BY <1>1, <4>1, Closed
      <4> QED BY <4>1, <4>2 DEF Walked
    <3>6. CASE \/ SSLStartup
               \/ AwaitingIncomplete \/ AwaitingNotPostgres \/ AwaitingOldError
               \/ AwaitingError \/ AwaitingRequest
               \/ AuthOkBusy \/ AuthOkAsynchronous \/ AuthOkResult \/ AuthOkReady
               \/ SetenvEntry \/ SetenvLost
      BY <3>1, <3>6 DEF SSLStartup, AwaitingIncomplete, AwaitingNotPostgres, AwaitingOldError,
                        AwaitingError, AwaitingRequest, AuthOkBusy, AuthOkAsynchronous,
                        AuthOkResult, AuthOkReady, SetenvEntry, SetenvLost, In
    <3>7. CASE SetenvSkip \/ SetenvSend \/ SetenvBusy \/ SetenvResult \/ SetenvDone
      BY <1>1, <3>1, <3>7 DEF SetenvSkip, SetenvSend, SetenvBusy, SetenvResult, SetenvDone,
                              Setenv, Around
    <3> QED BY <1>4, <3>2, <3>3, <3>4, <3>5, <3>6, <3>7 DEF Client, Poll
  <2> QED BY <2>2, <2>3
<1> QED BY <1>2, <1>3, <1>4 DEF Next, User

\* For a list of any length: who hears that the connection failed, with no word to a
\* server and no failure of the machine, has had every address tried.
THEOREM WholeListIsTried == Spec => []EveryAddressTried
<1>1. Init => Walked
  BY DEF Init, NewLog, Walked
<1>2. Walked => EveryAddressTried
  BY DEF Walked, EveryAddressTried
<1> QED BY <1>1, <1>2, WalkKept, IInvHolds, PTL DEF Spec

-----------------------------------------------------------------------------
(* What the client heard of the server behind its socket.                  *)

Messages == {"S", "N", "E", "Eold", "Eapp", "junk", "hs", "alert", "ok", "md5",
             "unsupported", "P", "T", "C", "Z"}

SaysReady(s) == \E i \in DOMAIN s : s[i] = "Z"

\* A ReadyForQuery that is unread, or on its way, was said by the server of this socket.
Listening(c, l) ==
  /\ c.in \in Seq(Messages) /\ l.wire \in Seq(Messages)
  /\ l.welcomed \in BOOLEAN /\ l.tls \in BOOLEAN
  /\ c.sock # 0 /\ (SaysReady(c.in) \/ SaysReady(l.wire)) => l.welcomed

\* From SETENV on the startup is over, and a caller that sees OK finds no query running.
Welcomed ==
  /\ conn.status \in {"SETENV", "OK"} => conn.sock # 0 /\ link.welcomed /\ ~conn.addrlist
  /\ pc = "user" /\ conn.status = "OK" => conn.asyncStatus = "IDLE"

\* The next message is an error, or the server has gone without another word.
Refusal(c, l) ==
  \/ c.in # <<>> /\ Head(c.in) \in {"E", "Eold"}
  \/ c.in = <<>> /\ l.wire # <<>> /\ Head(l.wire) \in {"E", "Eold"}
  \/ c.in = <<>> /\ l.wire = <<>> /\ l.net = "closed"

\* Where SSL is required the client goes on without it only to read a refusal.
Secured ==
  opt.sslmode = "require" /\ ~opt.unix =>
    /\ conn.status = "STARTED" => ~conn.ssl_in_use
    /\ conn.status \in {"MADE", "AWAITING_RESPONSE"} /\ conn.ssl_in_use => link.tls
    /\ conn.status = "AWAITING_RESPONSE" /\ ~conn.ssl_in_use => Refusal(conn, link)
    /\ conn.status \in {"AUTH_OK", "SETENV", "OK"} => link.tls

Hears == Listening(conn, link) /\ Welcomed /\ Secured

\* The parts of sequences of messages say no more than the whole.
LEMMA TailSays ==
  ASSUME NEW s \in Seq(Messages), s # <<>>
  PROVE  Tail(s) \in Seq(Messages) /\ (SaysReady(Tail(s)) => SaysReady(s))
<1>1. /\ Tail(s) \in Seq(Messages) /\ DOMAIN Tail(s) = 1..Len(s) - 1
      /\ \A i \in 1..Len(s) - 1 : Tail(s)[i] = s[i + 1]
      /\ DOMAIN s = 1..Len(s) /\ Len(s) \in Nat
  OBVIOUS
<1>2. ASSUME SaysReady(Tail(s)) PROVE SaysReady(s)
  <2>1. PICK i \in 1..Len(s) - 1 : Tail(s)[i] = "Z"
    BY <1>1, <1>2 DEF SaysReady
  <2>2. i + 1 \in DOMAIN s /\ s[i + 1] = "Z"
    BY <1>1, <2>1
  <2> QED BY <2>2 DEF SaysReady
<1> QED BY <1>1, <1>2

LEMMA PartSays ==
  ASSUME NEW s \in Seq(Messages), NEW n \in 0..Len(s)
  PROVE  /\ SubSeq(s, 1, n) \in Seq(Messages) /\ SubSeq(s, n + 1, Len(s)) \in Seq(Messages)
         /\ SaysReady(SubSeq(s, 1, n)) => SaysReady(s)
         /\ SaysReady(SubSeq(s, n + 1, Len(s))) => SaysReady(s)
<1> DEFINE a == SubSeq(s, 1, n)
           b == SubSeq(s, n + 1, Len(s))
<1>1. DOMAIN s = 1..Len(s) /\ Len(s) \in Nat /\ n \in Nat /\ n <= Len(s)
      /\ \A i \in 1..Len(s) : s[i] \in Messages
  OBVIOUS
<1>2. /\ a \in Seq(Messages) /\ DOMAIN a = 1..n
      /\ \A i \in 1..n : a[i] = s[i]
  BY <1>1
<1>3. /\ b \in Seq(Messages) /\ DOMAIN b = 1..Len(s) - n
      /\ \A i \in 1..Len(s) - n : b[i] = s[n + i]
  BY <1>1
<1> HIDE DEF a, b
<1>4. SaysReady(a) => SaysReady(s)
  BY <1>1, <1>2 DEF SaysReady
<1>5. ASSUME SaysReady(b) PROVE SaysReady(s)
  <2>1. PICK i \in 1..Len(s) - n : b[i] = "Z"
    BY <1>3, <1>5 DEF SaysReady
  <2>2. n + i \in DOMAIN s /\ s[n + i] = "Z"
    BY <1>1, <1>3, <2>1
  <2> QED BY <2>2 DEF SaysReady
<1> QED BY <1>2, <1>3, <1>4, <1>5 DEF a, b

LEMMA JoinedSay ==
  ASSUME NEW s \in Seq(Messages), NEW t \in Seq(Messages)
  PROVE  /\ s \o t \in Seq(Messages)
         /\ SaysReady(s \o t) => SaysReady(s) \/ SaysReady(t)
<1>1. /\ s \o t \in Seq(Messages) /\ DOMAIN (s \o t) = 1..Len(s) + Len(t)
      /\ DOMAIN s = 1..Len(s) /\ DOMAIN t = 1..Len(t) /\ Len(s) \in Nat /\ Len(t) \in Nat
      /\ \A i \in 1..Len(s) : (s \o t)[i] = s[i]
      /\ \A i \in Len(s) + 1..Len(s) + Len(t) : (s \o t)[i] = t[i - Len(s)]
  OBVIOUS
<1>2. ASSUME SaysReady(s \o t) PROVE SaysReady(s) \/ SaysReady(t)
  <2>1. PICK i \in 1..Len(s) + Len(t) : (s \o t)[i] = "Z"
    BY <1>1, <1>2 DEF SaysReady
  <2>2. CASE i <= Len(s)
    BY <1>1, <2>1, <2>2 DEF SaysReady
  <2>3. CASE i > Len(s)
    <3>1. i - Len(s) \in DOMAIN t /\ t[i - Len(s)] = "Z"
      BY <1>1, <2>1, <2>3
    <3> QED BY <3>1 DEF SaysReady
  <2> QED BY <1>1, <2>1, <2>2, <2>3
<1> QED BY <1>1, <1>2

LEMMA NoWordsSayNothing == <<>> \in Seq(Messages) /\ ~SaysReady(<<>>)
<1>1. <<>> \in Seq(Messages) /\ DOMAIN <<>> = {}
  OBVIOUS
<1> QED BY <1>1 DEF SaysReady

\* Reading moves words from the wire to the buffer.
LEMMA ReadListens ==
  ASSUME Shapes, Listening(conn, link), NEW r \in ReadOutcomes
  PROVE  LET c == pqReadData(r)
             l == LinkAfter(r)
         IN  /\ Listening(c, link) /\ Listening(c, l)
             /\ l.welcomed = link.welcomed /\ l.tls = link.tls /\ l.net = link.net
             /\ c.asyncStatus = conn.asyncStatus
             /\ l.wire = SubSeq(link.wire, r.taken + 1, Len(link.wire))
             /\ r.n # -1 => c.in = conn.in \o SubSeq(link.wire, 1, r.taken)
<1> DEFINE c == pqReadData(r)
           l == LinkAfter(r)
           a == SubSeq(link.wire, 1, r.taken)
           b == SubSeq(link.wire, r.taken + 1, Len(link.wire))
<1>1. /\ DOMAIN conn = ConnFields /\ DOMAIN link = LinkFields /\ conn.sock \in Nat
      /\ r.taken \in 0..Len(link.wire)
  BY DEF Shapes, Shaped, ShapedLink, ReadOutcomes
<1>2. /\ a \in Seq(Messages) /\ b \in Seq(Messages)
      /\ SaysReady(a) => SaysReady(link.wire)
      /\ SaysReady(b) => SaysReady(link.wire)
  BY <1>1, PartSays DEF Listening
<1>3. /\ l.wire = b /\ l.welcomed = link.welcomed /\ l.tls = link.tls /\ l.net = link.net
  BY <1>1 DEF LinkAfter, LinkFields
<1>4. CASE r.n = -1
  <2>1. c.in = conn.in /\ c.sock = 0 /\ c.asyncStatus = conn.asyncStatus
    BY <1>1, <1>4 DEF pqReadData, pqDropConnection, ConnFields
  <2> HIDE DEF a, b, c, l
  <2> QED BY <1>2, <1>3, <1>4, <2>1 DEF Listening, b, c, l
<1>5. CASE r.n # -1
  <2>1. c.in = conn.in \o a /\ c.sock = conn.sock /\ c.asyncStatus = conn.asyncStatus
    BY <1>1, <1>5 DEF pqReadData, ConnFields
  <2> HIDE DEF a, b, c, l
  <2>2. /\ conn.in \o a \in Seq(Messages)
        /\ SaysReady(conn.in \o a) => SaysReady(conn.in) \/ SaysReady(a)
    BY <1>2, JoinedSay DEF Listening
  <2>3. Listening(c, link) /\ Listening(c, l)
    BY <1>2, <1>3, <2>1, <2>2 DEF Listening
  <2> QED BY <1>3, <1>5, <2>1, <2>3 DEF a, b, c, l
<1> QED BY <1>4, <1>5

\* A PGconn whose first message is read.
LEMMA TailListens ==
  ASSUME NEW c, NEW l, DOMAIN c = ConnFields, Listening(c, l), c.in # <<>>
  PROVE  LET d == [c EXCEPT !.in = Tail(@)]
         IN  Listening(d, l) /\ d.asyncStatus = c.asyncStatus
<1> DEFINE d == [c EXCEPT !.in = Tail(@)]
<1>1. d.in = Tail(c.in) /\ d.sock = c.sock /\ d.asyncStatus = c.asyncStatus
  BY DEF ConnFields
<1> HIDE DEF d
<1>2. Tail(c.in) \in Seq(Messages) /\ (SaysReady(Tail(c.in)) => SaysReady(c.in))
  BY TailSays DEF Listening
<1> QED BY <1>1, <1>2 DEF Listening, d

\* The socket follows the PGconn, and what was heard goes with it.
LEMMA FollowingListens ==
  ASSUME Shapes, NEW c, c.sock \in {0, conn.sock}, Listening(c, link), SocketFollows,
         conn'.sock \in {0, c.sock}, conn'.in = c.in \/ conn'.in = <<>>
  PROVE  Listening(conn', link')
<1>1. conn'.in \in Seq(Messages) /\ (SaysReady(conn'.in) => SaysReady(c.in))
  BY NoWordsSayNothing DEF Listening
<1>2. CASE conn.sock # 0 /\ conn'.sock = 0
  <2>1. link' = NoLink
    BY <1>2 DEF SocketFollows
  <2>2. link'.wire = <<>> /\ link'.welcomed = FALSE /\ link'.tls = FALSE
    BY <2>1 DEF NoLink
  <2> QED BY <1>1, <1>2, <2>2, NoWordsSayNothing DEF Listening
<1>3. CASE ~(conn.sock # 0 /\ conn'.sock = 0)
  <2>1. link' = link
    BY <1>3 DEF SocketFollows
  <2> QED BY <1>1, <2>1 DEF Listening
<1> QED BY <1>2, <1>3

\* Nothing is promised of an attempt that is over or begins again.
LEMMA NothingPromised ==
  ASSUME conn'.status \in {"BAD", "NEEDED", "SSL_STARTUP"}
  PROVE  Welcomed' /\ Secured'
BY DEF Welcomed, Secured

LEMMA FailureHears ==
  ASSUME IInv, NEW c, Shaped(c), c.sock \in {0, conn.sock}, Listening(c, link),
         c.status \in {"BAD", "SSL_STARTUP"}, conn' = AfterFailure(c), SocketFollows
  PROVE  Hears'
<1>1. Shapes /\ first \in BOOLEAN /\ opt \in OptionRecords /\ DOMAIN c = ConnFields
  BY Facts, OptFacts DEF Shaped
<1>2. /\ conn'.sock \in {0, c.sock} /\ conn'.status \in {"BAD", "SSL_STARTUP"}
      /\ conn'.in = c.in \/ conn'.in = <<>>
  BY <1>1 DEF AfterFailure, pqDropConnection, ConnFields
<1>3. Listening(conn', link')
  BY <1>1, <1>2, FollowingListens
<1> QED BY <1>2, <1>3, NothingPromised DEF Hears

\* Fail(c), where c is what the PGconn was when it failed.
LEMMA FailHears ==
  ASSUME IInv, NEW c, Shaped(c), c.sock \in {0, conn.sock}, Listening(c, link), Fail(c)
  PROVE  Hears'
<1> DEFINE b == [c EXCEPT !.status = "BAD"]
<1>1. /\ Shaped(b) /\ b.sock = c.sock /\ b.in = c.in /\ b.status = "BAD"
  BY DEF Shaped, ConnFields, Statuses
<1>2. conn' = AfterFailure(b) /\ SocketFollows
  BY DEF Fail, Become, SocketFollows
<1> HIDE DEF b
<1>3. Listening(b, link)
  BY <1>1 DEF Listening
<1> QED BY <1>1, <1>2, <1>3, FailureHears

\* An attempt that begins again.
LEMMA AgainHears ==
  ASSUME Shapes, Listening(conn, link), SocketFollows,
         conn'.status = "NEEDED", conn'.sock = 0, conn'.in = <<>>
  PROVE  Hears'
<1>1. Listening(conn', link')
  BY FollowingListens
<1> QED BY <1>1, NothingPromised DEF Hears

LEMMA RetryHears ==
  ASSUME Shapes, Listening(conn, link), NEW c, Shaped(c), SocketFollows,
         \/ conn' = [Retry(c) EXCEPT !.pversion = 2]
         \/ conn' = [Retry(c) EXCEPT !.send_appname = FALSE]
         \/ conn' = [Retry(c) EXCEPT !.allow_ssl_try = FALSE]
         \/ conn' = [Retry(c) EXCEPT !.wait_ssl_try = FALSE]
  PROVE  Hears'
<1> DEFINE d == Retry(c)
<1>1. DOMAIN d = ConnFields /\ d.status = "NEEDED" /\ d.sock = 0 /\ d.in = <<>>
  BY Retried DEF Shaped
<1> HIDE DEF d
<1>2. \/ conn' = [d EXCEPT !.pversion = 2]
      \/ conn' = [d EXCEPT !.send_appname = FALSE]
      \/ conn' = [d EXCEPT !.allow_ssl_try = FALSE]
      \/ conn' = [d EXCEPT !.wait_ssl_try = FALSE]
  BY DEF d
<1>3. conn'.status = "NEEDED" /\ conn'.sock = 0 /\ conn'.in = <<>>
  BY <1>1, <1>2 DEF ConnFields
<1> QED BY <1>3, AgainHears

\* A request leaves.
LEMMA SentListens ==
  ASSUME Shapes, Listening(conn, link), NEW q, Sent(q),
         conn'.in = conn.in, conn'.sock = conn.sock
  PROVE  /\ Listening(conn', link') /\ link'.welcomed = link.welcomed /\ link'.tls = link.tls
         /\ link'.wire = link.wire /\ link'.net = link.net
<1>1. DOMAIN link = LinkFields
  BY DEF Shapes, ShapedLink
<1>2. /\ link'.welcomed = link.welcomed /\ link'.tls = link.tls
      /\ link'.wire = link.wire /\ link'.net = link.net
  BY <1>1 DEF Sent, LinkFields
<1> QED BY <1>2 DEF Listening

LEMMA HearFacts ==
  ASSUME IInv, Hears
  PROVE  /\ Shapes /\ Clean /\ Asking /\ Around /\ Shaped(conn) /\ ShapedLink(link)
         /\ DOMAIN conn = ConnFields /\ DOMAIN link = LinkFields
         /\ Listening(conn, link) /\ Welcomed /\ Secured
BY Facts DEF Hears, Shaped, ShapedLink

\* A refusal stays the next thing to read.
LEMMA RefusalStays ==
  ASSUME Shapes, Listening(conn, link), Refusal(conn, link), NEW r \in ReadOutcomes, r.n # -1
  PROVE  Refusal(pqReadData(r), LinkAfter(r))
<1> DEFINE c == pqReadData(r)
           l == LinkAfter(r)
<1>1. /\ c.in = conn.in \o SubSeq(link.wire, 1, r.taken)
      /\ l.wire = SubSeq(link.wire, r.taken + 1, Len(link.wire)) /\ l.net = link.net
      /\ r.taken \in 0..Len(link.wire)
      /\ conn.in \in Seq(Messages) /\ link.wire \in Seq(Messages)
  BY ReadListens DEF Listening, ReadOutcomes
<1> HIDE DEF c, l
<1>2. CASE conn.in # <<>> /\ Head(conn.in) \in {"E", "Eold"}
  <2>1. SubSeq(link.wire, 1, r.taken) \in Seq(Messages)
    BY <1>1, PartSays
  <2>2. c.in # <<>> /\ Head(c.in) = Head(conn.in)
    BY <1>1, <1>2, <2>1
  <2> QED BY <1>2, <2>2 DEF Refusal, c
<1>3. CASE conn.in = <<>> /\ link.wire # <<>> /\ Head(link.wire) \in {"E", "Eold"}
  <2>1. CASE r.taken = 0
    <3>1. c.in = <<>> /\ l.wire = link.wire
      BY <1>1, <1>3, <2>1
    <3> QED BY <1>3, <3>1 DEF Refusal, c, l
  <2>2. CASE r.taken > 0
    <3>1. c.in # <<>> /\ Head(c.in) = Head(link.wire)
      BY <1>1, <1>3, <2>2
    <3> QED BY <1>3, <3>1 DEF Refusal, c
  <2> QED BY <1>1, <2>1, <2>2
<1>4. CASE conn.in = <<>> /\ link.wire = <<>> /\ link.net = "closed"
  <2>1. c.in = <<>> /\ l.wire = <<>>
    BY <1>1, <1>4
  <2> QED BY <1>1, <1>4, <2>1 DEF Refusal, c, l
<1> QED BY <1>2, <1>3, <1>4 DEF Refusal

LEMMA EntryHears ==
  ASSUME IInv, Hears, PollEntry
  PROVE  Hears'
<1>1. /\ Shapes /\ Shaped(conn) /\ Listening(conn, link) /\ Welcomed /\ Secured /\ opt' = opt
  BY HearFacts, PollReturns DEF Poll, Returned
<1>2. CASE conn.status \in {"AWAITING_RESPONSE", "AUTH_OK"}
  <2>1. PICK r \in ReadOutcomes :
          \/ r.n = -1 /\ Fail(pqReadData(r))
          \/ /\ r.n # -1
             /\ conn' = pqReadData(r) /\ link' = LinkAfter(r) /\ fds' = fds
    <3>1. PICK r \in ReadOutcomes :
            CASE r.n = -1 -> Fail(pqReadData(r))
              [] r.n = 0 -> /\ conn' = pqReadData(r) /\ link' = LinkAfter(r)
                            /\ Return("READING") /\ UNCHANGED fds
              [] r.n = 1 -> /\ conn' = pqReadData(r) /\ link' = LinkAfter(r)
                            /\ KeepGoing /\ UNCHANGED fds
      BY <1>2 DEF PollEntry
    <3>2. r.n \in {-1, 0, 1}
      BY <3>1 DEF ReadOutcomes
    <3>3. CASE r.n = -1
      <4>1. Fail(pqReadData(r))
        BY <3>1, <3>3
      <4> QED BY <3>3, <4>1
    <3>4. CASE r.n = 0
      <4>1. conn' = pqReadData(r) /\ link' = LinkAfter(r) /\ fds' = fds
        BY <3>1, <3>4
      <4> QED BY <3>4, <4>1
    <3>5. CASE r.n = 1
      <4>1. conn' = pqReadData(r) /\ link' = LinkAfter(r) /\ fds' = fds
        BY <3>1, <3>5
      <4> QED BY <3>5, <4>1
    <3> QED BY <3>2, <3>3, <3>4, <3>5
  <2> DEFINE c == pqReadData(r)
  <2>2. /\ Shaped(c) /\ c.sock \in {0, conn.sock}
        /\ r.n # -1 => c.status = conn.status /\ c.ssl_in_use = conn.ssl_in_use
    BY <1>1, ReadShaped
  <2>3. /\ Listening(c, link) /\ Listening(c, LinkAfter(r))
        /\ LinkAfter(r).tls = link.tls
    BY <1>1, ReadListens
  <2>4. CASE r.n = -1 /\ Fail(pqReadData(r))
    <3>1. Fail(c)
      BY <2>4
    <3> HIDE DEF c
    <3> QED BY <2>2, <2>3, <3>1, FailHears
  <2>5. CASE r.n # -1 /\ conn' = pqReadData(r) /\ link' = LinkAfter(r) /\ fds' = fds
    <3>1. Refusal(conn, link) => Refusal(c, LinkAfter(r))
      BY <1>1, <2>5, RefusalStays
    <3>2. conn' = c /\ link' = LinkAfter(r) /\ conn'.status = conn.status
          /\ conn'.ssl_in_use = conn.ssl_in_use /\ link'.tls = link.tls
      BY <2>2, <2>3, <2>5
    <3> HIDE DEF c
    <3>3. Listening(conn', link')
      BY <2>3, <3>2
    <3>4. Welcomed'
      BY <1>2, <3>2 DEF Welcomed
    <3>5. Secured'
      BY <1>1, <1>2, <3>1, <3>2 DEF Secured
    <3> QED BY <3>3, <3>4, <3>5 DEF Hears
  <2> QED BY <2>1, <2>4, <2>5
<1>3. CASE conn.status \notin {"AWAITING_RESPONSE", "AUTH_OK"}
  <2>1. conn' = conn /\ link' = link /\ pc' = "going"
    BY <1>3 DEF PollEntry, KeepGoing
  <2> QED BY <1>1, <2>1 DEF Hears, Welcomed, Secured
<1> QED BY <1>2, <1>3

LEMMA NeededHears ==
  ASSUME IInv, Hears, \/ NeededNoSocket \/ NeededRefused \/ NeededNoMore
                      \/ \E net \in {"up", "connecting"} : NeededConnects(net)
  PROVE  Hears'
<1>1. /\ Shapes /\ Shaped(conn) /\ Listening(conn, link) /\ DOMAIN conn = ConnFields
      /\ conn.status = "NEEDED" /\ conn.sock = 0 /\ conn.ssl_in_use = FALSE
      /\ conn.in = <<>>
  <2>1. conn.status = "NEEDED"
    BY DEF NeededNoSocket, NeededRefused, NeededNoMore, NeededConnects, In
  <2> QED BY <2>1, HearFacts DEF Clean, Shaped
<1>2. CASE NeededNoSocket
  <2>1. CASE NextAddr(conn.addr_cur) # 0
    <3>1. conn' = [conn EXCEPT !.addr_cur = NextAddr(@)] /\ SocketFollows
      BY <1>2, <2>1 DEF NeededNoSocket, Become, SocketFollows
    <3>2. conn'.status = "NEEDED" /\ conn'.sock = 0 /\ conn'.in = <<>>
      BY <1>1, <3>1 DEF ConnFields
    <3> QED BY <1>1, <3>1, <3>2, AgainHears
  <2>2. CASE NextAddr(conn.addr_cur) = 0
    <3>1. Fail(conn)
      BY <1>2, <2>2 DEF NeededNoSocket
    <3> QED BY <1>1, <3>1, FailHears
  <2> QED BY <2>1, <2>2
<1>3. CASE NeededRefused
  <2> DEFINE d == pqDropConnection(conn, TRUE)
  <2>1. conn' = [d EXCEPT !.addr_cur = NextAddr(@)] /\ SocketFollows
    BY <1>3 DEF NeededRefused, Become, SocketFollows
  <2>2. Shaped(d) /\ d.sock = 0 /\ d.status = "NEEDED" /\ d.in = <<>>
    BY <1>1, Dropped
  <2> HIDE DEF d
  <2>3. conn'.status = "NEEDED" /\ conn'.sock = 0 /\ conn'.in = <<>>
    BY <2>1, <2>2 DEF Shaped, ConnFields
  <2> QED BY <1>1, <2>1, <2>3, AgainHears
<1>4. CASE NeededNoMore
  <2>1. Fail(conn)
    BY <1>4 DEF NeededNoMore
  <2> QED BY <1>1, <2>1, FailHears
<1>5. CASE \E net \in {"up", "connecting"} : NeededConnects(net)
  <2>1. PICK net : /\ conn' = [conn EXCEPT !.sock = NewSocket, !.status = "STARTED"]
                   /\ link' = [NoLink EXCEPT !.net = net]
    BY <1>5 DEF NeededConnects
  <2>2. conn'.status = "STARTED" /\ conn'.in = <<>> /\ conn'.ssl_in_use = FALSE
    BY <1>1, <2>1 DEF ConnFields
  <2>3. link'.wire = <<>> /\ link'.welcomed = FALSE /\ link'.tls = FALSE
    BY <2>1 DEF NoLink
  <2>4. Listening(conn', link')
    BY <2>2, <2>3, NoWordsSayNothing DEF Listening
  <2>5. Welcomed' /\ Secured'
    BY <2>2 DEF Welcomed, Secured
  <2> QED BY <2>4, <2>5 DEF Hears
<1> QED BY <1>2, <1>3, <1>4, <1>5

LEMMA StartedHears ==
  ASSUME IInv, Hears, Started
  PROVE  Hears'
<1>1. /\ Shapes /\ Shaped(conn) /\ Listening(conn, link) /\ DOMAIN conn = ConnFields
      /\ conn.status = "STARTED" /\ conn.sock # 0 /\ Secured
  BY HearFacts DEF Started, In, Asking, Ahead
<1> DEFINE d == pqDropConnection(conn, TRUE)
<1>2. /\ Shaped(d) /\ d.sock = 0 /\ d.in = <<>>
  BY <1>1, Dropped
<1>3. \/ conn' = [conn EXCEPT !.status = "MADE"] /\ SocketFollows /\ opt' = opt
      \/ Fail(conn)
      \/ conn' = [d EXCEPT !.addr_cur = NextAddr(@), !.status = "NEEDED"] /\ SocketFollows
      \/ Fail(d)
  BY DEF Started, Become, SocketFollows, Return
<1> HIDE DEF d
<1>4. CASE conn' = [conn EXCEPT !.status = "MADE"] /\ SocketFollows /\ opt' = opt
  <2>1. /\ conn'.status = "MADE" /\ conn'.sock = conn.sock /\ conn'.in = conn.in
        /\ conn'.ssl_in_use = conn.ssl_in_use
    BY <1>1, <1>4 DEF ConnFields
  <2>2. link' = link
    BY <1>1, <1>4, <2>1 DEF SocketFollows
  <2>3. Listening(conn', link')
    BY <1>1, <2>1, <2>2 DEF Listening
  <2>4. Welcomed' /\ Secured'
    BY <1>1, <1>4, <2>1, <2>2 DEF Welcomed, Secured
  <2> QED BY <2>3, <2>4 DEF Hears
<1>5. CASE Fail(conn)
  BY <1>1, <1>5, FailHears
<1>6. CASE conn' = [d EXCEPT !.addr_cur = NextAddr(@), !.status = "NEEDED"] /\ SocketFollows
  <2>1. conn'.status = "NEEDED" /\ conn'.sock = 0 /\ conn'.in = <<>>
    BY <1>2, <1>6 DEF Shaped, ConnFields
  <2> QED BY <1>1, <1>6, <2>1, AgainHears
<1>7. CASE Fail(d)
  <2>1. Listening(d, link)
    BY <1>1, <1>2, NoWordsSayNothing DEF Listening
  <2> QED BY <1>2, <1>7, <2>1, FailHears
<1> QED BY <1>3, <1>4, <1>5, <1>6, <1>7

LEMMA MadeHears ==
  ASSUME IInv, Hears, Made
  PROVE  Hears'
<1>1. /\ Shapes /\ Shaped(conn) /\ Listening(conn, link) /\ DOMAIN conn = ConnFields
      /\ conn.status = "MADE" /\ Secured /\ opt \in OptionRecords /\ ShapedLog(log)
      /\ Asking /\ UseSSL \in BOOLEAN /\ opt.unix \in BOOLEAN
      /\ conn.ssl_in_use \in BOOLEAN /\ conn.allow_ssl_try \in BOOLEAN
  BY HearFacts, Facts, OptFacts DEF Made, In, Shaped
<1> DEFINE c == [conn EXCEPT !.allow_ssl_try = @ /\ ~opt.unix]
           ssl == AsksForSSL(c)
<1>2. /\ Shaped(c) /\ c.sock = conn.sock /\ c.in = conn.in /\ c.ssl_in_use = conn.ssl_in_use
      /\ c.allow_ssl_try = (conn.allow_ssl_try /\ ~opt.unix)
      /\ c.wait_ssl_try = conn.wait_ssl_try
  BY <1>1 DEF Shaped, ConnFields
<1>3. \/ Fail(c)
      \/ /\ conn' = [c EXCEPT !.status = IF ssl THEN "SSL_STARTUP" ELSE "AWAITING_RESPONSE"]
         /\ Sent(IF ssl THEN "ssl" ELSE "startup") /\ opt' = opt
  BY DEF Made, Return
<1>4. CASE Fail(c)
  <2> HIDE DEF c
  <2>1. Listening(c, link)
    BY <1>1, <1>2 DEF Listening
  <2> QED BY <1>2, <1>4, <2>1, FailHears
<1>5. CASE /\ conn' = [c EXCEPT !.status = IF ssl THEN "SSL_STARTUP" ELSE "AWAITING_RESPONSE"]
           /\ Sent(IF ssl THEN "ssl" ELSE "startup") /\ opt' = opt
  <2> HIDE DEF c
  <2>1. /\ conn'.in = conn.in /\ conn'.sock = conn.sock
        /\ conn'.ssl_in_use = conn.ssl_in_use
        /\ conn'.status = IF ssl THEN "SSL_STARTUP" ELSE "AWAITING_RESPONSE"
    BY <1>2, <1>5 DEF Shaped, ConnFields
  <2>2. Listening(conn', link') /\ link'.tls = link.tls
    BY <1>1, <1>5, <2>1, SentListens
  <2>3. ASSUME opt.sslmode = "require", ~opt.unix PROVE ssl \/ conn.ssl_in_use
    <3>1. conn.allow_ssl_try = UseSSL /\ ~conn.wait_ssl_try /\ (log.starts > 0 => UseSSL)
      BY <2>3, Facts DEF ModeInv, RequireInv
    <3>2. log.starts > 0
      BY <1>1 DEF Asking, Ahead, ShapedLog
    <3> QED BY <1>2, <2>3, <3>1, <3>2 DEF AsksForSSL
  <2>4. Secured'
    BY <1>1, <1>5, <2>1, <2>2, <2>3 DEF Secured
  <2>5. Welcomed'
    BY <2>1 DEF Welcomed
  <2> QED BY <2>2, <2>4, <2>5 DEF Hears
<1> QED BY <1>3, <1>4, <1>5

\* What a read that succeeds brings.
LEMMA SomethingRead ==
  ASSUME NEW r \in ReadOutcomes, r.n = 1
  PROVE  /\ r.taken \in 0..Len(link.wire)
         /\ r.taken > 0 \/ (r.half /\ ~conn.half)
         /\ r.half => r.taken < Len(link.wire) /\ link.wire[r.taken + 1] \notin OneByte
<1>1. /\ r \in [n : {-1, 0, 1}, taken : 0..Len(link.wire), half : BOOLEAN]
      /\ CASE r.n = -1 -> link.net = "closed" /\ link.wire = <<>> /\ r.taken = 0 /\ ~r.half
           [] r.n = 0  -> conn.ssl_in_use /\ link.wire # <<>> /\ ~conn.half
                          /\ r.taken = 0 /\ r.half
           [] r.n = 1  -> /\ r.taken > 0 \/ (r.half /\ ~conn.half)
                          /\ r.half => /\ r.taken < Len(link.wire)
                                       /\ link.wire[r.taken + 1] \notin OneByte
  BY DEF ReadOutcomes
<1>2. r.n # -1 /\ r.n # 0
  OBVIOUS
<1> QED BY <1>1, <1>2

\* An answer of one byte has come whole.
LEMMA AnswerIsWhole ==
  ASSUME IInv, Hears, NEW r \in ReadOutcomes, r.n = 1, FirstByte(r) \in {"S", "N"}
  PROVE  pqReadData(r).in # <<>>
<1> DEFINE c == pqReadData(r)
<1> SUFFICES ASSUME c.in = <<>> PROVE FALSE
  OBVIOUS
<1>1. /\ conn.in \in Seq(Messages) /\ link.wire \in Seq(Messages)
      /\ c.in = conn.in \o SubSeq(link.wire, 1, r.taken)
      /\ LinkAfter(r).wire = SubSeq(link.wire, r.taken + 1, Len(link.wire))
      /\ r.taken \in 0..Len(link.wire)
      /\ r.taken > 0 \/ (r.half /\ ~conn.half)
      /\ r.half => r.taken < Len(link.wire) /\ link.wire[r.taken + 1] \notin OneByte
  <2>1. Shapes /\ Listening(conn, link) /\ r.n # -1
    BY HearFacts
  <2>2. /\ c.in = conn.in \o SubSeq(link.wire, 1, r.taken)
        /\ LinkAfter(r).wire = SubSeq(link.wire, r.taken + 1, Len(link.wire))
    BY <2>1, ReadListens
  <2>3. /\ r.taken \in 0..Len(link.wire)
        /\ r.taken > 0 \/ (r.half /\ ~conn.half)
        /\ r.half => r.taken < Len(link.wire) /\ link.wire[r.taken + 1] \notin OneByte
    BY SomethingRead
  <2> QED BY <2>1, <2>2, <2>3 DEF Listening
<1>2. FirstByte(r) = LinkAfter(r).wire[1]
  BY DEF FirstByte
<1> HIDE DEF c
<1>3. SubSeq(link.wire, 1, r.taken) \in Seq(Messages)
      /\ Len(SubSeq(link.wire, 1, r.taken)) = r.taken
  BY <1>1, PartSays
<1>4. r.taken = 0
  <2>1. Len(c.in) = Len(conn.in) + r.taken /\ Len(conn.in) \in Nat /\ Len(c.in) = 0
    BY <1>1, <1>3
  <2> QED BY <1>1, <2>1
<1>5. 0 < Len(link.wire) /\ link.wire[1] \notin OneByte
  BY <1>1, <1>4
<1>6. LinkAfter(r).wire[1] = link.wire[1]
  BY <1>1, <1>4, <1>5
<1> QED BY <1>2, <1>5, <1>6 DEF OneByte

LEMMA AnswerHears ==
  ASSUME IInv, Hears, conn.status = "SSL_STARTUP", ~conn.ssl_in_use, opt' = opt,
         NEW r \in ReadOutcomes, SSLAnswer(r)
  PROVE  Hears'
<1> DEFINE c == pqReadData(r)
           rest == AnswerRest(r)
<1>1. /\ Shapes /\ Shaped(conn) /\ Listening(conn, link) /\ DOMAIN conn = ConnFields
      /\ conn.sock # 0
  BY HearFacts DEF Asking, Ahead
<1>2. /\ Shaped(c) /\ c.sock \in {0, conn.sock} /\ DOMAIN c = ConnFields
      /\ r.n # -1 => /\ c.sock = conn.sock /\ c.status = "SSL_STARTUP"
                     /\ c.ssl_in_use = conn.ssl_in_use
  BY <1>1, ReadShaped DEF Shaped
<1>3. /\ Listening(c, link) /\ Listening(c, LinkAfter(r)) /\ LinkAfter(r).tls = link.tls
  BY <1>1, ReadListens
<1>4. rest = [c EXCEPT !.in = Tail(@)]
  BY DEF AnswerRest
<1>5. /\ DOMAIN LinkAfter(r) = LinkFields /\ ShapedLink(LinkAfter(r))
  BY <1>1, LinkReadShaped DEF ShapedLink
<1>6. FirstByte(r) \in {"S", "N"} /\ r.n = 1 => c.in # <<>>
  BY AnswerIsWhole
<1>7. \/ AnswerLost(r)
      \/ r.n = 1 /\ (AnswerRefused(r) \/ NoHandshake(r) \/ HandshakeBegun(r)
                     \/ Plain(r) \/ ErrorComes(r))
  BY AnswerWays
<1>8. ASSUME AnswerLost(r) PROVE Hears'
  <2> DEFINE b == [c EXCEPT !.status = "BAD"]
  <2>1. conn' = AfterFailure(b) /\ SocketFollows
    BY <1>8 DEF AnswerLost
  <2> HIDE DEF c
  <2>2. Shaped(b) /\ b.sock = c.sock /\ b.in = c.in /\ b.status = "BAD"
    BY <1>2 DEF Shaped, ConnFields, Statuses
  <2> HIDE DEF b
  <2>3. Listening(b, link)
    BY <1>3, <2>2 DEF Listening
  <2> QED BY <1>2, <2>1, <2>2, <2>3, FailureHears
<1>9. ASSUME r.n = 1, c.in # <<>>
      PROVE  /\ Shaped(rest) /\ rest.sock = conn.sock /\ rest.status = "SSL_STARTUP"
             /\ rest.ssl_in_use = FALSE
             /\ Listening(rest, link) /\ Listening(rest, LinkAfter(r))
  <2> HIDE DEF c, rest
  <2>1. Shaped(rest) /\ rest.sock = c.sock /\ rest.status = c.status
        /\ rest.ssl_in_use = c.ssl_in_use
    BY <1>2, <1>4 DEF Shaped, ConnFields
  <2>2. Listening(rest, link) /\ Listening(rest, LinkAfter(r))
    BY <1>2, <1>3, <1>4, <1>9, TailListens
  <2> QED BY <1>1, <1>2, <1>9, <2>1, <2>2 DEF Shaped
<1> HIDE DEF c
<1>10. ASSUME r.n = 1, AnswerRefused(r) PROVE Hears'
  <2> DEFINE b == [rest EXCEPT !.status = "BAD"]
  <2>1. conn' = AfterFailure(b) /\ SocketFollows /\ FirstByte(r) \in {"S", "N"}
    BY <1>10 DEF AnswerRefused
  <2>2. Shaped(rest) /\ rest.sock = conn.sock /\ Listening(rest, link)
    BY <1>6, <1>9, <1>10, <2>1
  <2> HIDE DEF rest
  <2>3. Shaped(b) /\ b.sock = rest.sock /\ b.in = rest.in /\ b.status = "BAD"
    BY <2>2 DEF Shaped, ConnFields, Statuses
  <2> HIDE DEF b
  <2>4. Listening(b, link)
    BY <2>2, <2>3 DEF Listening
  <2> QED BY <2>1, <2>2, <2>3, <2>4, FailureHears
<1>11. ASSUME r.n = 1, NoHandshake(r) PROVE Hears'
  <2>1. /\ SocketFollows /\ FirstByte(r) \in {"S", "N"}
        /\ \/ conn' = [Retry(rest) EXCEPT !.allow_ssl_try = FALSE]
           \/ conn' = AfterFailure(rest)
    BY <1>11 DEF NoHandshake
  <2>2. Shaped(rest) /\ rest.sock = conn.sock /\ rest.status = "SSL_STARTUP"
        /\ Listening(rest, link)
    BY <1>6, <1>9, <1>11, <2>1
  <2> HIDE DEF rest
  <2>3. CASE conn' = [Retry(rest) EXCEPT !.allow_ssl_try = FALSE]
    BY <1>1, <2>1, <2>2, <2>3, RetryHears
  <2>4. CASE conn' = AfterFailure(rest)
    BY <2>1, <2>2, <2>4, FailureHears
  <2> QED BY <2>1, <2>3, <2>4
<1>12. ASSUME r.n = 1, HandshakeBegun(r) PROVE Hears'
  <2>1. /\ conn' = [rest EXCEPT !.ssl_in_use = TRUE] /\ FirstByte(r) \in {"S", "N"}
        /\ \E a : link' = [LinkAfter(r) EXCEPT !.asked = a]
    BY <1>12 DEF HandshakeBegun
  <2>2. /\ Shaped(rest) /\ rest.sock = conn.sock /\ rest.status = "SSL_STARTUP"
        /\ Listening(rest, LinkAfter(r))
    BY <1>6, <1>9, <1>12, <2>1
  <2> HIDE DEF rest
  <2>3. conn'.status = "SSL_STARTUP" /\ conn'.in = rest.in /\ conn'.sock = rest.sock
    BY <2>1, <2>2 DEF Shaped, ConnFields
  <2>4. /\ link'.wire = LinkAfter(r).wire /\ link'.welcomed = LinkAfter(r).welcomed
        /\ link'.tls = LinkAfter(r).tls
    BY <1>5, <2>1 DEF LinkFields
  <2>5. Listening(conn', link')
    BY <2>2, <2>3, <2>4 DEF Listening
  <2> QED BY <2>3, <2>5, NothingPromised DEF Hears
<1>13. ASSUME r.n = 1, Plain(r) PROVE Hears'
  <2>1. /\ conn' = [rest EXCEPT !.allow_ssl_try = FALSE, !.status = "MADE"]
        /\ FirstByte(r) \in {"S", "N"} /\ opt.sslmode # "require" /\ link' = LinkAfter(r)
    BY <1>13 DEF Plain
  <2>2. Shaped(rest) /\ Listening(rest, LinkAfter(r))
    BY <1>6, <1>9, <1>13, <2>1
  <2> HIDE DEF rest
  <2>3. conn'.status = "MADE" /\ conn'.in = rest.in /\ conn'.sock = rest.sock
    BY <2>1, <2>2 DEF Shaped, ConnFields
  <2>4. Listening(conn', link')
    BY <2>1, <2>2, <2>3 DEF Listening
  <2>5. Welcomed' /\ Secured'
    BY <2>1, <2>3 DEF Welcomed, Secured
  <2> QED BY <2>4, <2>5 DEF Hears
<1>14. ASSUME r.n = 1, ErrorComes(r) PROVE Hears'
  <2>1. /\ conn' = [c EXCEPT !.status = "AWAITING_RESPONSE"]
        /\ FirstByte(r) \in {"E", "Eold"} /\ link' = LinkAfter(r)
    BY <1>14 DEF ErrorComes, c
  <2>2. /\ conn'.status = "AWAITING_RESPONSE" /\ conn'.in = c.in /\ conn'.sock = c.sock
        /\ conn'.ssl_in_use = c.ssl_in_use
    BY <1>2, <2>1 DEF ConnFields
  <2>3. Listening(conn', link')
    BY <1>3, <2>1, <2>2 DEF Listening
  <2>4. Refusal(conn', link')
    <3>1. CASE c.in # <<>>
      <4>1. FirstByte(r) = Head(c.in)
        BY <3>1 DEF FirstByte, c
      <4> QED BY <2>1, <2>2, <3>1, <4>1 DEF Refusal
    <3>2. CASE c.in = <<>>
      <4>1. FirstByte(r) = LinkAfter(r).wire[1]
        BY <3>2 DEF FirstByte, c
      <4>2. /\ conn.in \in Seq(Messages) /\ link.wire \in Seq(Messages)
            /\ c.in = conn.in \o SubSeq(link.wire, 1, r.taken)
            /\ LinkAfter(r).wire = SubSeq(link.wire, r.taken + 1, Len(link.wire))
            /\ r.taken \in 0..Len(link.wire)
            /\ r.taken > 0 \/ (r.half /\ ~conn.half)
            /\ r.half => r.taken < Len(link.wire)
        <5>1. /\ c.in = conn.in \o SubSeq(link.wire, 1, r.taken)
              /\ LinkAfter(r).wire = SubSeq(link.wire, r.taken + 1, Len(link.wire))
          <6>1. r.n # -1
            BY <1>14
          <6> QED BY <1>1, <6>1, ReadListens DEF c
        <5>2. /\ r.taken \in 0..Len(link.wire)
              /\ r.taken > 0 \/ (r.half /\ ~conn.half)
              /\ r.half => r.taken < Len(link.wire) /\ link.wire[r.taken + 1] \notin OneByte
          BY <1>14, SomethingRead
        <5> QED BY <1>1, <5>1, <5>2 DEF Listening
      <4>3. r.taken = 0
        <5>1. SubSeq(link.wire, 1, r.taken) \in Seq(Messages)
              /\ Len(SubSeq(link.wire, 1, r.taken)) = r.taken
          BY <4>2, PartSays
        <5>2. Len(c.in) = Len(conn.in) + r.taken /\ Len(conn.in) \in Nat /\ Len(c.in) = 0
          BY <3>2, <4>2, <5>1
        <5> QED BY <4>2, <5>2
      <4>4. LinkAfter(r).wire = link.wire /\ link.wire # <<>>
        BY <4>2, <4>3
      <4>5. Head(link'.wire) \in {"E", "Eold"} /\ link'.wire # <<>>
        <5>1. Head(link.wire) = link.wire[1]
          BY <4>2, <4>4
        <5> QED BY <2>1, <4>1, <4>4, <5>1
      <4> QED BY <2>2, <3>2, <4>5 DEF Refusal
    <3> QED BY <3>1, <3>2
  <2>5. Welcomed' /\ Secured'
    BY <1>2, <1>14, <2>2, <2>4 DEF Welcomed, Secured
  <2> QED BY <2>3, <2>5 DEF Hears
<1> QED BY <1>7, <1>8, <1>10, <1>11, <1>12, <1>13, <1>14

LEMMA SSLHears ==
  ASSUME IInv, Hears, SSLStartup
  PROVE  Hears'
<1>1. /\ Shapes /\ Shaped(conn) /\ Listening(conn, link) /\ DOMAIN conn = ConnFields
      /\ conn.status = "SSL_STARTUP" /\ DOMAIN link = LinkFields /\ opt' = opt
      /\ conn.sock # 0
  BY HearFacts, PollReturns DEF SSLStartup, In, Poll, Returned, Asking, Ahead
<1>2. CASE ~conn.ssl_in_use
  <2>1. PICK r \in ReadOutcomes : SSLAnswer(r)
    BY <1>2 DEF SSLStartup
  <2> QED BY <1>1, <1>2, <2>1, AnswerHears
<1>3. CASE conn.ssl_in_use
  <2> DEFINE c == [conn EXCEPT !.ssl_in_use = FALSE]
  <2>1. \/ Sent("hello") /\ conn' = conn
        \/ /\ conn' = [conn EXCEPT !.status = "MADE"] /\ link.wire # <<>>
           /\ link' = [link EXCEPT !.wire = Tail(@), !.tls = TRUE]
        \/ HandshakeFails(c)
    BY <1>3 DEF SSLStartup, Handshake
  <2>2. CASE Sent("hello") /\ conn' = conn
    <3>1. Listening(conn', link')
      BY <1>1, <2>2, SentListens
    <3> QED BY <1>1, <2>2, <3>1, NothingPromised DEF Hears
  <2>3. CASE /\ conn' = [conn EXCEPT !.status = "MADE"] /\ link.wire # <<>>
             /\ link' = [link EXCEPT !.wire = Tail(@), !.tls = TRUE]
    <3>1. conn'.status = "MADE" /\ conn'.in = conn.in /\ conn'.sock = conn.sock
      BY <1>1, <2>3 DEF ConnFields
    <3>2. link'.wire = Tail(link.wire) /\ link'.tls = TRUE /\ link'.welcomed = link.welcomed
      BY <1>1, <2>3 DEF LinkFields
    <3>3. Tail(link.wire) \in Seq(Messages)
          /\ (SaysReady(Tail(link.wire)) => SaysReady(link.wire))
      BY <1>1, <2>3, TailSays DEF Listening
    <3>4. Listening(conn', link')
      BY <1>1, <3>1, <3>2, <3>3 DEF Listening
    <3>5. Welcomed' /\ Secured'
      BY <3>1, <3>2 DEF Welcomed, Secured
    <3> QED BY <3>4, <3>5 DEF Hears
  <2>4. CASE HandshakeFails(c)
    <3>1. /\ Shaped(c) /\ c.sock = conn.sock /\ c.in = conn.in /\ c.status = "SSL_STARTUP"
      BY <1>1 DEF Shaped, ConnFields
    <3>2. /\ SocketFollows
          /\ \/ conn' = [Retry(c) EXCEPT !.allow_ssl_try = FALSE]
             \/ conn' = AfterFailure(c)
      BY <2>4 DEF HandshakeFails, Become, SocketFollows
    <3> HIDE DEF c
    <3>3. Listening(c, link)
      BY <1>1, <3>1 DEF Listening
    <3>4. CASE conn' = [Retry(c) EXCEPT !.allow_ssl_try = FALSE]
      BY <1>1, <3>1, <3>2, <3>4, RetryHears
    <3>5. CASE conn' = AfterFailure(c)
      BY <3>1, <3>2, <3>3, <3>5, FailureHears
    <3> QED BY <3>2, <3>4, <3>5
  <2> QED BY <2>1, <2>2, <2>3, <2>4
<1> QED BY <1>2, <1>3

\* The PGconn with its first message read.
LEMMA ConsumedHears ==
  ASSUME IInv, Hears, MessageHere
  PROVE  /\ Shaped(Consumed) /\ Consumed.sock = conn.sock /\ Consumed.status = conn.status
         /\ Consumed.ssl_in_use = conn.ssl_in_use /\ Consumed.addrlist = conn.addrlist
         /\ Consumed.asyncStatus = conn.asyncStatus
         /\ Listening(Consumed, link) /\ DOMAIN Consumed = ConnFields
<1>1. Shaped(conn) /\ Listening(conn, link) /\ DOMAIN conn = ConnFields /\ conn.in # <<>>
  BY HearFacts DEF MessageHere
<1>2. Listening(Consumed, link) /\ Consumed.asyncStatus = conn.asyncStatus
  BY <1>1, TailListens DEF Consumed
<1>3. Shaped(Consumed)
  BY <1>1, ConsumedShaped
<1> QED BY <1>1, <1>2, <1>3, ConsumedShaped DEF Shaped

\* What is read in AWAITING_RESPONSE without SSL, where SSL is required, is a refusal.
LEMMA OnlyRefusedInClear ==
  ASSUME Secured, conn.status = "AWAITING_RESPONSE", opt.sslmode = "require", ~opt.unix,
         MessageHere, Answer \notin {"E", "Eold"}, conn.ssl_in_use \in BOOLEAN
  PROVE  conn.ssl_in_use /\ link.tls
BY DEF Secured, Refusal, MessageHere, Answer

LEMMA AwaitingHears ==
  ASSUME IInv, Hears, \/ AwaitingIncomplete \/ AwaitingNotPostgres \/ AwaitingOldError
                      \/ AwaitingError \/ AwaitingRequest
  PROVE  Hears'
<1>1. /\ Shapes /\ Shaped(conn) /\ Listening(conn, link) /\ DOMAIN conn = ConnFields
      /\ conn.status = "AWAITING_RESPONSE" /\ Secured /\ opt' = opt
      /\ conn.ssl_in_use \in BOOLEAN /\ conn.sock # 0
  <2>1. conn.status = "AWAITING_RESPONSE"
    BY DEF AwaitingIncomplete, AwaitingNotPostgres, AwaitingOldError, AwaitingError,
           AwaitingRequest, In
  <2>2. opt' = opt
    BY PollReturns DEF Poll, Returned
  <2> QED BY <2>1, <2>2, HearFacts DEF Shaped, Asking, Ahead
<1> DEFINE c == Consumed
<1>2. ASSUME MessageHere
      PROVE  /\ Shaped(c) /\ c.sock = conn.sock /\ c.status = conn.status
             /\ c.ssl_in_use = conn.ssl_in_use /\ Listening(c, link) /\ DOMAIN c = ConnFields
  BY <1>2, ConsumedHears
<1>3. CASE AwaitingIncomplete
  <2>1. conn' = conn /\ link' = link
    BY <1>3 DEF AwaitingIncomplete
  <2> QED BY <1>1, <2>1 DEF Hears, Welcomed, Secured
<1>4. CASE AwaitingNotPostgres
  <2>1. Fail(conn)
    BY <1>4 DEF AwaitingNotPostgres
  <2> QED BY <1>1, <2>1, FailHears
<1>5. CASE AwaitingOldError
  <2>1. /\ MessageHere
        /\ \/ conn' = [Retry(c) EXCEPT !.pversion = 2] /\ SocketFollows
           \/ Fail(c)
    BY <1>5 DEF AwaitingOldError, Become, SocketFollows
  <2>2. Shaped(c) /\ c.sock = conn.sock /\ Listening(c, link)
    BY <1>2, <2>1
  <2> HIDE DEF c
  <2>3. CASE conn' = [Retry(c) EXCEPT !.pversion = 2] /\ SocketFollows
    BY <1>1, <2>2, <2>3, RetryHears
  <2>4. CASE Fail(c)
    BY <2>2, <2>4, FailHears
  <2> QED BY <2>1, <2>3, <2>4
<1>6. CASE AwaitingError
  <2>1. /\ MessageHere
        /\ \/ conn' = [Retry(c) EXCEPT !.wait_ssl_try = FALSE] /\ SocketFollows
           \/ conn' = [Retry(c) EXCEPT !.allow_ssl_try = FALSE] /\ SocketFollows
           \/ Fail(c)
    <3>1. CASE /\ opt.sslmode = "allow" /\ ~c.ssl_in_use /\ c.allow_ssl_try /\ c.wait_ssl_try
      BY <1>6, <3>1 DEF AwaitingError, Become, SocketFollows
    <3>2. CASE /\ opt.sslmode = "prefer" /\ c.allow_ssl_try /\ ~c.wait_ssl_try
      BY <1>6, <3>2 DEF AwaitingError, Become, SocketFollows
    <3>3. CASE /\ ~(opt.sslmode = "allow" /\ ~c.ssl_in_use /\ c.allow_ssl_try /\ c.wait_ssl_try)
               /\ ~(opt.sslmode = "prefer" /\ c.allow_ssl_try /\ ~c.wait_ssl_try)
      BY <1>6, <3>3 DEF AwaitingError
    <3> QED BY <3>1, <3>2, <3>3
  <2>2. Shaped(c) /\ c.sock = conn.sock /\ Listening(c, link)
    BY <1>2, <2>1
  <2> HIDE DEF c
  <2>3. CASE Fail(c)
    BY <2>2, <2>3, FailHears
  <2>4. CASE \/ conn' = [Retry(c) EXCEPT !.wait_ssl_try = FALSE] /\ SocketFollows
             \/ conn' = [Retry(c) EXCEPT !.allow_ssl_try = FALSE] /\ SocketFollows
    BY <1>1, <2>2, <2>4, RetryHears
  <2> QED BY <2>1, <2>3, <2>4
<1>7. CASE AwaitingRequest
  <2> DEFINE d == [c EXCEPT !.auth_req_received = TRUE,
                            !.password_needed = @ \/ Answer = "md5"]
  <2>1. MessageHere /\ Answer \in {"md5", "ok", "unsupported"}
    BY <1>7 DEF AwaitingRequest
  <2>2. \/ conn' = Authenticated(d) /\ link' = link
        \/ Fail(d)
        \/ conn' = d /\ Sent("password")
    BY <1>7 DEF AwaitingRequest
  <2>3. /\ Shaped(c) /\ c.sock = conn.sock /\ c.status = conn.status
        /\ c.ssl_in_use = conn.ssl_in_use /\ Listening(c, link) /\ DOMAIN c = ConnFields
    BY <1>2, <2>1
  <2>4. opt.sslmode = "require" /\ ~opt.unix => conn.ssl_in_use /\ link.tls
    BY <1>1, <2>1, OnlyRefusedInClear
  <2> HIDE DEF c
  <2>5. /\ Shaped(d) /\ d.sock = conn.sock /\ d.status = "AWAITING_RESPONSE"
        /\ d.ssl_in_use = conn.ssl_in_use /\ d.in = c.in /\ DOMAIN d = ConnFields
    BY <1>1, <2>3 DEF Shaped, ConnFields
  <2> HIDE DEF d
  <2>6. Listening(d, link)
    BY <2>3, <2>5 DEF Listening
  <2>7. CASE conn' = Authenticated(d) /\ link' = link
    <3>1. conn'.status = "AUTH_OK" /\ conn'.in = d.in /\ conn'.sock = d.sock
      BY <2>5, <2>7 DEF Authenticated, ConnFields
    <3>2. Listening(conn', link')
      BY <2>6, <2>7, <3>1 DEF Listening
    <3>3. Welcomed' /\ Secured'
      BY <1>1, <2>4, <2>7, <3>1 DEF Welcomed, Secured
    <3> QED BY <3>2, <3>3 DEF Hears
  <2>8. CASE Fail(d)
    BY <2>5, <2>6, <2>8, FailHears
  <2>9. CASE conn' = d /\ Sent("password")
    <3>1. link'.wire = link.wire /\ link'.welcomed = link.welcomed /\ link'.tls = link.tls
      <4>1. DOMAIN link = LinkFields
        BY <1>1 DEF Shapes, ShapedLink
      <4> QED BY <2>9, <4>1 DEF Sent, LinkFields
    <3>2. Listening(conn', link')
      BY <2>6, <2>9, <3>1 DEF Listening
    <3>3. Welcomed' /\ Secured'
      BY <1>1, <2>4, <2>5, <2>9, <3>1 DEF Welcomed, Secured
    <3> QED BY <3>2, <3>3 DEF Hears
  <2> QED BY <2>2, <2>7, <2>8, <2>9
<1> QED BY <1>3, <1>4, <1>5, <1>6, <1>7

LEMMA AuthOkHears ==
  ASSUME IInv, Hears, AuthOkBusy \/ AuthOkAsynchronous \/ AuthOkResult \/ AuthOkReady
  PROVE  Hears'
<1>1. /\ Shapes /\ Shaped(conn) /\ Listening(conn, link) /\ DOMAIN conn = ConnFields
      /\ conn.status = "AUTH_OK" /\ Secured /\ opt' = opt /\ conn.sock # 0
  <2>1. conn.status = "AUTH_OK"
    BY DEF AuthOkBusy, AuthOkAsynchronous, AuthOkResult, AuthOkReady, In
  <2>2. opt' = opt
    BY PollReturns DEF Poll, Returned
  <2> QED BY <2>1, <2>2, HearFacts DEF Asking, Ahead
<1> DEFINE c == Consumed
<1>2. ASSUME MessageHere
      PROVE  /\ Shaped(c) /\ c.sock = conn.sock /\ c.status = conn.status
             /\ Listening(c, link) /\ DOMAIN c = ConnFields
  BY <1>2, ConsumedHears
<1>3. CASE AuthOkBusy
  <2>1. conn' = conn /\ link' = link
    BY <1>3 DEF AuthOkBusy
  <2> QED BY <1>1, <2>1 DEF Hears, Welcomed, Secured
<1>4. CASE AuthOkAsynchronous
  <2>1. conn' = c /\ link' = link /\ MessageHere
    BY <1>4 DEF AuthOkAsynchronous
  <2>2. conn'.status = "AUTH_OK" /\ Listening(conn', link')
    BY <1>1, <1>2, <2>1
  <2>3. Welcomed' /\ Secured'
    BY <1>1, <2>1, <2>2 DEF Welcomed, Secured
  <2> QED BY <2>2, <2>3 DEF Hears
<1>5. CASE AuthOkResult
  <2>1. /\ MessageHere
        /\ \/ conn' = [Retry(c) EXCEPT !.send_appname = FALSE] /\ SocketFollows
           \/ Fail(c)
    BY <1>5 DEF AuthOkResult, Become, SocketFollows
  <2>2. Shaped(c) /\ c.sock = conn.sock /\ Listening(c, link)
    BY <1>2, <2>1
  <2> HIDE DEF c
  <2>3. CASE conn' = [Retry(c) EXCEPT !.send_appname = FALSE] /\ SocketFollows
    BY <1>1, <2>2, <2>3, RetryHears
  <2>4. CASE Fail(c)
    BY <2>2, <2>4, FailHears
  <2> QED BY <2>1, <2>3, <2>4
<1>6. CASE AuthOkReady
  <2> DEFINE d == [c EXCEPT !.asyncStatus = "IDLE", !.addrlist = FALSE, !.addr_cur = 0]
  <2>1. /\ MessageHere /\ Answer = "Z" /\ link' = link
        /\ \/ conn' = [d EXCEPT !.status = "SETENV", !.setenv_state = "CLIENT_ENCODING_SEND",
                                !.next_eo = opt.settings]
           \/ conn' = [d EXCEPT !.status = "OK"]
    BY <1>6 DEF AuthOkReady
  <2>2. Shaped(c) /\ c.sock = conn.sock /\ Listening(c, link) /\ DOMAIN c = ConnFields
    BY <1>2, <2>1
  <2>3. SaysReady(conn.in)
    <3>1. conn.in \in Seq(Messages) /\ conn.in # <<>> /\ Head(conn.in) = "Z"
      BY <1>1, <2>1 DEF MessageHere, Answer, Listening
    <3>2. 1 \in DOMAIN conn.in /\ conn.in[1] = "Z"
      BY <3>1
    <3> QED BY <3>2 DEF SaysReady
  <2>4. link.welcomed
    BY <1>1, <2>3 DEF Listening
  <2> HIDE DEF c
  <2>5. /\ DOMAIN d = ConnFields /\ d.sock = c.sock /\ d.in = c.in
        /\ d.asyncStatus = "IDLE" /\ d.addrlist = FALSE
    BY <2>2 DEF ConnFields
  <2> HIDE DEF d
  <2>6. /\ conn'.sock = c.sock /\ conn'.in = c.in /\ conn'.asyncStatus = "IDLE"
        /\ conn'.addrlist = FALSE /\ conn'.status \in {"SETENV", "OK"}
    BY <2>1, <2>5 DEF ConnFields
  <2>7. Listening(conn', link')
    BY <2>1, <2>2, <2>6 DEF Listening
  <2>8. Welcomed'
    BY <1>1, <2>1, <2>2, <2>4, <2>6 DEF Welcomed
  <2>9. Secured'
    BY <1>1, <2>1, <2>6 DEF Secured
  <2> QED BY <2>7, <2>8, <2>9 DEF Hears
<1> QED BY <1>3, <1>4, <1>5, <1>6

\* The steps of SETENV change the PGconn only in fields that do not matter here.
LEMMA SetenvStays ==
  ASSUME IInv, Hears, conn.status \in {"SETENV", "OK"}, conn'.status \in {"SETENV", "OK"},
         opt' = opt, Listening(conn', link'), conn'.sock = conn.sock,
         conn'.addrlist = conn.addrlist, link'.welcomed = link.welcomed,
         link'.tls = link.tls,
         pc' = "user" /\ conn'.status = "OK" => conn'.asyncStatus = "IDLE"
  PROVE  Hears'
<1>1. Welcomed /\ Secured
  BY HearFacts
<1>2. Welcomed'
  BY <1>1 DEF Welcomed
<1>3. Secured'
  BY <1>1 DEF Secured
<1> QED BY <1>2, <1>3 DEF Hears

LEMMA SetenvEntryHears ==
  ASSUME IInv, Hears, SetenvEntry \/ SetenvLost
  PROVE  Hears'
<1>1. /\ Shapes /\ Shaped(conn) /\ Listening(conn, link) /\ DOMAIN conn = ConnFields
      /\ conn.status = "SETENV" /\ opt' = opt
  <2>1. conn.status = "SETENV"
    BY DEF SetenvEntry, SetenvLost, In
  <2>2. opt' = opt
    BY PollReturns DEF Poll, Returned
  <2> QED BY <2>1, <2>2, HearFacts
<1>2. CASE SetenvEntry
  <2>1. CASE conn.setenv_state \in SetenvSending
    <3>1. conn' = [conn EXCEPT !.status = "OK"] /\ pc' = "setenv" /\ link' = link
      BY <1>2, <2>1 DEF SetenvEntry, InSetenv
    <3>2. /\ conn'.status = "OK" /\ conn'.sock = conn.sock /\ conn'.in = conn.in
          /\ conn'.addrlist = conn.addrlist
      BY <1>1, <3>1 DEF ConnFields
    <3>3. Listening(conn', link')
      BY <1>1, <3>1, <3>2 DEF Listening
    <3> QED BY <1>1, <3>1, <3>2, <3>3, SetenvStays
  <2>2. CASE conn.setenv_state \notin SetenvSending
    <3>1. PICK r \in ReadOutcomes :
            /\ r.n # -1 /\ link' = LinkAfter(r)
            /\ \/ conn' = pqReadData(r) /\ pc' = "wait"
               \/ conn' = [pqReadData(r) EXCEPT !.status = "OK"] /\ pc' = "setenv"
      BY <1>2, <2>2 DEF SetenvEntry, InSetenv, Return
    <3> DEFINE c == pqReadData(r)
    <3>2. /\ Shaped(c) /\ c.sock = conn.sock /\ c.status = "SETENV"
          /\ c.addrlist = conn.addrlist
      BY <1>1, <3>1, ReadShaped
    <3>3. /\ Listening(c, LinkAfter(r)) /\ LinkAfter(r).tls = link.tls
          /\ LinkAfter(r).welcomed = link.welcomed
      BY <1>1, ReadListens
    <3>4. \/ conn' = c /\ pc' = "wait"
          \/ conn' = [c EXCEPT !.status = "OK"] /\ pc' = "setenv"
      BY <3>1
    <3> HIDE DEF c
    <3>5. /\ conn'.status \in {"OK", "SETENV"} /\ conn'.sock = conn.sock /\ conn'.in = c.in
          /\ conn'.addrlist = conn.addrlist
      BY <3>2, <3>4 DEF Shaped, ConnFields
    <3>6. Listening(conn', link')
      BY <3>1, <3>2, <3>3, <3>5 DEF Listening
    <3> QED BY <1>1, <3>1, <3>3, <3>4, <3>5, <3>6, SetenvStays
  <2> QED BY <2>1, <2>2
<1>3. CASE SetenvLost
  <2>1. PICK r \in ReadOutcomes :
          r.n = -1 /\ Fail([pqReadData(r) EXCEPT !.setenv_state = "IDLE"])
    BY <1>3 DEF SetenvLost, SetenvFails
  <2> DEFINE d == pqReadData(r)
             c == [d EXCEPT !.setenv_state = "IDLE"]
  <2>2. Shaped(d) /\ d.sock \in {0, conn.sock}
    BY <1>1, ReadShaped
  <2>3. Listening(d, link)
    BY <1>1, ReadListens
  <2>4. Fail(c)
    BY <2>1
  <2> HIDE DEF d
  <2>5. Shaped(c) /\ c.sock = d.sock /\ c.in = d.in
    BY <2>2 DEF Shaped, ConnFields
  <2> HIDE DEF c
  <2>6. Listening(c, link)
    BY <2>3, <2>5 DEF Listening
  <2> QED BY <2>2, <2>4, <2>5, <2>6, FailHears
<1> QED BY <1>2, <1>3

LEMMA SetenvHears ==
  ASSUME IInv, Hears, SetenvSkip \/ SetenvSend \/ SetenvBusy \/ SetenvResult \/ SetenvDone
  PROVE  Hears'
<1>1. /\ Shapes /\ Shaped(conn) /\ Listening(conn, link) /\ DOMAIN conn = ConnFields
      /\ conn.status = "OK" /\ opt' = opt
  <2>1. pc = "setenv"
    BY DEF SetenvSkip, SetenvSend, SetenvBusy, SetenvResult, SetenvDone, Setenv
  <2>2. opt' = opt
    BY PollReturns DEF Poll, Returned
  <2> QED BY <2>1, <2>2, HearFacts DEF Around
<1> DEFINE c == Consumed
<1>2. ASSUME MessageHere
      PROVE  /\ Shaped(c) /\ c.sock = conn.sock /\ c.status = "OK"
             /\ c.addrlist = conn.addrlist /\ Listening(c, link) /\ DOMAIN c = ConnFields
  BY <1>1, <1>2, ConsumedHears
<1>3. ASSUME NEW d, Shaped(d), d.sock = conn.sock, Listening(d, link), SetenvFails(d)
      PROVE  Hears'
  <2> DEFINE e == [d EXCEPT !.setenv_state = "IDLE"]
  <2>1. Fail(e)
    BY <1>3 DEF SetenvFails
  <2>2. Shaped(e) /\ e.sock = conn.sock /\ e.in = d.in
    BY <1>3 DEF Shaped, ConnFields
  <2> HIDE DEF e
  <2>3. Listening(e, link)
    BY <1>3, <2>2 DEF Listening
  <2> QED BY <2>1, <2>2, <2>3, FailHears
<1>4. CASE SetenvSkip
  <2>1. link' = link /\ pc' = "setenv" /\ \E w : conn' = [conn EXCEPT !.setenv_state = w]
    BY <1>4 DEF SetenvSkip, InSetenv
  <2>2. /\ conn'.status = "OK" /\ conn'.sock = conn.sock /\ conn'.in = conn.in
        /\ conn'.addrlist = conn.addrlist
    BY <1>1, <2>1 DEF ConnFields
  <2>3. Listening(conn', link')
    BY <1>1, <2>1, <2>2 DEF Listening
  <2> QED BY <1>1, <2>1, <2>2, <2>3, SetenvStays
<1>5. CASE SetenvSend
  <2> DEFINE d == [conn EXCEPT !.setenv_state = Waits[@], !.asyncStatus = "BUSY"]
  <2>1. \/ SetenvFails(conn)
        \/ /\ \E q \in {"set", "version", "encoding"} : Sent(q)
           /\ \/ conn' = d /\ pc' = "setenv"
              \/ conn' = [d EXCEPT !.status = "SETENV"] /\ pc' = "wait"
    BY <1>5 DEF SetenvSend, InSetenv, Return
  <2>2. CASE SetenvFails(conn)
    BY <1>1, <1>3, <2>2
  <2>3. CASE /\ \E q \in {"set", "version", "encoding"} : Sent(q)
             /\ \/ conn' = d /\ pc' = "setenv"
                \/ conn' = [d EXCEPT !.status = "SETENV"] /\ pc' = "wait"
    <3>1. /\ DOMAIN d = ConnFields /\ d.status = "OK" /\ d.sock = conn.sock /\ d.in = conn.in
          /\ d.addrlist = conn.addrlist
      BY <1>1 DEF ConnFields
    <3> HIDE DEF d
    <3>2. /\ conn'.status \in {"OK", "SETENV"} /\ conn'.sock = conn.sock
          /\ conn'.in = conn.in /\ conn'.addrlist = conn.addrlist /\ pc' # "user"
      BY <2>3, <3>1 DEF ConnFields
    <3>3. PICK q \in {"set", "version", "encoding"} : Sent(q)
      BY <2>3
    <3>4. Listening(conn', link') /\ link'.welcomed = link.welcomed /\ link'.tls = link.tls
      BY <1>1, <3>2, <3>3, SentListens
    <3> QED BY <1>1, <3>2, <3>4, SetenvStays
  <2> QED BY <2>1, <2>2, <2>3
<1>6. CASE SetenvBusy
  <2>1. conn' = [conn EXCEPT !.status = "SETENV"] /\ link' = link /\ pc' = "wait"
    BY <1>6 DEF SetenvBusy, Return
  <2>2. /\ conn'.status = "SETENV" /\ conn'.sock = conn.sock /\ conn'.in = conn.in
        /\ conn'.addrlist = conn.addrlist
    BY <1>1, <2>1 DEF ConnFields
  <2>3. Listening(conn', link')
    BY <1>1, <2>1, <2>2 DEF Listening
  <2> QED BY <1>1, <2>1, <2>2, <2>3, SetenvStays
<1>7. CASE SetenvResult
  <2>1. /\ MessageHere
        /\ SetenvFails(c) \/ (conn' = c /\ pc' = "setenv" /\ link' = link)
    BY <1>7 DEF SetenvResult, InSetenv
  <2>2. /\ Shaped(c) /\ c.sock = conn.sock /\ c.status = "OK"
        /\ c.addrlist = conn.addrlist /\ Listening(c, link)
    BY <1>2, <2>1
  <2> HIDE DEF c
  <2>3. CASE SetenvFails(c)
    BY <1>3, <2>2, <2>3
  <2>4. CASE conn' = c /\ pc' = "setenv" /\ link' = link
    BY <1>1, <2>2, <2>4, SetenvStays
  <2> QED BY <2>1, <2>3, <2>4
<1>8. CASE SetenvDone
  <2> DEFINE d == [c EXCEPT !.asyncStatus = "IDLE"]
  <2>1. MessageHere /\ link' = link /\ conn.setenv_state \in SetenvWaiting
    BY <1>8 DEF SetenvDone
  <2>2. \/ conn' = [d EXCEPT !.setenv_state = "OPTION_SEND"]
        \/ conn' = [d EXCEPT !.setenv_state = "OPTION_SEND", !.next_eo = @ - 1]
        \/ conn' = [d EXCEPT !.setenv_state = "QUERY2_SEND"]
        \/ conn' = [d EXCEPT !.setenv_state = "IDLE"]
    <3>2. CASE conn.setenv_state = "CLIENT_ENCODING_WAIT"
      BY <1>8, <3>2 DEF SetenvDone
    <3>3. CASE conn.setenv_state = "OPTION_WAIT"
      BY <1>8, <3>3 DEF SetenvDone
    <3>4. CASE conn.setenv_state = "QUERY1_WAIT"
      BY <1>8, <3>4 DEF SetenvDone
    <3>5. CASE conn.setenv_state = "QUERY2_WAIT"
      BY <1>8, <3>5 DEF SetenvDone
    <3> QED BY <2>1, <3>2, <3>3, <3>4, <3>5 DEF SetenvWaiting, SetenvSending, Waits
  <2>3. /\ c.sock = conn.sock /\ c.status = "OK" /\ DOMAIN c = ConnFields
        /\ c.addrlist = conn.addrlist /\ Listening(c, link)
    BY <1>2, <2>1
  <2> HIDE DEF c
  <2>4. /\ DOMAIN d = ConnFields /\ d.status = "OK" /\ d.sock = c.sock /\ d.in = c.in
        /\ d.addrlist = c.addrlist /\ d.asyncStatus = "IDLE"
    BY <2>3 DEF ConnFields
  <2> HIDE DEF d
  <2>5. /\ conn'.status = "OK" /\ conn'.sock = c.sock /\ conn'.in = c.in
        /\ conn'.addrlist = c.addrlist /\ conn'.asyncStatus = "IDLE"
    <3>1. PICK s : \/ conn' = [d EXCEPT !.setenv_state = s]
                   \/ conn' = [d EXCEPT !.setenv_state = s, !.next_eo = @ - 1]
      BY <2>2, Zenon
    <3> QED BY <2>4, <3>1 DEF ConnFields
  <2>6. Listening(conn', link')
    BY <2>1, <2>3, <2>5 DEF Listening
  <2> QED BY <1>1, <2>1, <2>3, <2>5, <2>6, SetenvStays
<1> QED BY <1>4, <1>5, <1>6, <1>7, <1>8

\* The caller and the clock.
LEMMA CallerHears ==
  ASSUME IInv, Hears, \/ Wake \/ TimedOut \/ Tick
                      \/ PQsetdbLogin \/ PQreset \/ PQfinish
  PROVE  Hears'
<1>1. /\ Shapes /\ Shaped(conn) /\ Listening(conn, link) /\ DOMAIN conn = ConnFields
      /\ Welcomed /\ Secured /\ Around
  BY HearFacts
<1>2. CASE Wake \/ Tick
  <2>1. opt' = opt /\ conn' = conn /\ link' = link /\ pc' # "user"
    BY <1>2 DEF Wake, Tick
  <2> QED BY <1>1, <2>1 DEF Hears, Welcomed, Secured
<1>3. CASE TimedOut
  <2>1. conn' = [conn EXCEPT !.status = "BAD"] /\ SocketFollows
    BY <1>3 DEF TimedOut, Become, SocketFollows
  <2>2. conn'.status = "BAD" /\ conn'.sock = conn.sock /\ conn'.in = conn.in
    BY <1>1, <2>1 DEF ConnFields
  <2>3. Listening(conn', link')
    BY <1>1, <2>1, <2>2, FollowingListens
  <2> QED BY <2>2, <2>3, NothingPromised DEF Hears
<1>4. ASSUME NEW d, DOMAIN d = ConnFields, d.sock = 0 \/ conn.sock = 0, d.sock \in {0, conn.sock},
             connectDBStart(d)
      PROVE  Hears'
  <2>1. d.sock = 0
    BY <1>4
  <2>2. CASE StartFails(d)
    <3> DEFINE e == pqDropConnection(d, TRUE)
    <3>1. DOMAIN e = ConnFields /\ e.sock = 0 /\ e.in = <<>>
      BY <1>4 DEF pqDropConnection, ConnFields
    <3>2. conn' = [e EXCEPT !.status = "BAD", !.options_valid = FALSE] /\ SocketFollows
      BY <2>2 DEF StartFails, Become, SocketFollows
    <3> HIDE DEF e
    <3>3. conn'.sock = 0 /\ conn'.in = <<>> /\ conn'.status = "BAD"
      BY <3>1, <3>2 DEF ConnFields
    <3>4. Listening(conn', link')
      BY <1>1, <3>2, <3>3, FollowingListens
    <3> QED BY <3>3, <3>4, NothingPromised DEF Hears
  <2>3. CASE ~StartFails(d)
    <3>1. SocketFollows
      BY <1>4, <2>3 DEF connectDBStart, Become, SocketFollows
    <3>2. conn'.status = "NEEDED" /\ conn'.in = <<>> /\ conn'.sock = d.sock
      <4>1. conn' = [d EXCEPT !.in = <<>>, !.half = FALSE,
              !.allow_ssl_try = IF opt.sslmode = "disable" THEN FALSE ELSE @,
              !.wait_ssl_try = IF UseSSL /\ opt.sslmode = "allow" THEN TRUE ELSE @,
              !.addrlist = TRUE, !.addr_cur = 1, !.pversion = 3,
              !.send_appname = TRUE, !.status = "NEEDED"]
        BY <1>4, <2>3 DEF connectDBStart, Become
      <4>2. DOMAIN d = ConnFields
        BY <1>4
      <4> QED BY <4>1, <4>2 DEF ConnFields
    <3>3. conn'.sock = 0
      BY <2>1, <3>2
    <3> QED BY <1>1, <3>1, <3>2, <3>3, AgainHears
  <2> QED BY <2>2, <2>3
<1>5. CASE PQsetdbLogin
  <2>1. conn.status = "BAD" /\ conn.sock = 0
    BY <1>1, <1>5 DEF PQsetdbLogin, Around, makeEmptyPGconn
  <2>2. CASE connectOptions2Fails
    <3>1. conn' = conn /\ link' = link
      BY <1>5, <2>2 DEF PQsetdbLogin
    <3> QED BY <1>1, <2>1, <3>1, NothingPromised DEF Hears
  <2>3. CASE ~connectOptions2Fails
    <3> DEFINE d == [conn EXCEPT !.options_valid = TRUE]
    <3>1. connectDBStart(d) /\ DOMAIN d = ConnFields /\ d.sock = 0
      BY <1>1, <1>5, <2>1, <2>3 DEF PQsetdbLogin, ConnFields
    <3> HIDE DEF d
    <3> QED BY <1>4, <2>1, <3>1
  <2> QED BY <2>2, <2>3
<1>6. /\ DOMAIN closePGconn(conn) = ConnFields /\ closePGconn(conn).sock = 0
      /\ closePGconn(conn).status = "BAD" /\ closePGconn(conn).in = <<>>
  <2> DEFINE d == pqDropConnection(conn, TRUE)
  <2>1. DOMAIN d = ConnFields /\ d.sock = 0 /\ d.in = <<>>
    BY <1>1 DEF pqDropConnection, ConnFields
  <2>2. closePGconn(conn) = [d EXCEPT !.status = "BAD", !.asyncStatus = "IDLE",
                                      !.addrlist = FALSE, !.addr_cur = 0]
    BY DEF closePGconn
  <2> HIDE DEF d
  <2> QED BY <2>1, <2>2 DEF ConnFields
<1>7. CASE PQreset
  <2>1. connectDBStart(closePGconn(conn))
    BY <1>7 DEF PQreset
  <2> QED BY <1>4, <1>6, <2>1
<1>8. CASE PQfinish
  <2>1. conn' = closePGconn(conn) /\ SocketFollows
    BY <1>8 DEF PQfinish, Become, SocketFollows
  <2>2. Listening(conn', link')
    BY <1>1, <1>6, <2>1, FollowingListens
  <2> QED BY <1>6, <2>1, <2>2, NothingPromised DEF Hears
<1> QED BY <1>2, <1>3, <1>5, <1>7, <1>8

-----------------------------------------------------------------------------
(* What the server is asked. *)

Requests == {"nothing", "ssl", "hello", "startup", "password", "set", "version", "encoding"}
Asked == link.asked \in Requests

LEMMA AskedKept == IInv /\ Asked /\ [Next]_vars => Asked'
<1> SUFFICES ASSUME IInv, Asked, [Next]_vars PROVE Asked'
  OBVIOUS
<1>1. DOMAIN link = LinkFields /\ conn.ssl_in_use \in BOOLEAN
  BY Facts DEF ShapedLink, Shaped
<1>2. ASSUME NEW c, Become(c) PROVE Asked'
  <2>1. link' = link \/ link' = NoLink
    BY <1>2 DEF Become
  <2> QED BY <2>1 DEF Asked, NoLink, Requests
<1>3. ASSUME NEW c, Fail(c) PROVE Asked'
  BY <1>2, <1>3 DEF Fail
<1>4. ASSUME link' = link PROVE Asked'
  BY <1>4 DEF Asked
<1>5. ASSUME NEW q \in Requests, Sent(q) PROVE Asked'
  BY <1>1, <1>5 DEF Asked, Sent, LinkFields
<1>6. ASSUME NEW r \in ReadOutcomes
      PROVE  DOMAIN LinkAfter(r) = LinkFields /\ LinkAfter(r).asked = link.asked
  BY <1>1 DEF LinkAfter, LinkFields
<1>7. ASSUME NEW r \in ReadOutcomes, link' = LinkAfter(r) PROVE Asked'
  BY <1>6, <1>7 DEF Asked
<1>8. ASSUME NEW c, HandshakeFails(c) PROVE Asked'
  <2>1. \E d : Become(d)
    BY <1>8 DEF HandshakeFails
  <2> QED BY <1>2, <2>1
<1>9. CASE PollEntry
  <2>1. CASE conn.status \notin {"AWAITING_RESPONSE", "AUTH_OK"}
    BY <1>4, <1>9, <2>1 DEF PollEntry
  <2>2. CASE conn.status \in {"AWAITING_RESPONSE", "AUTH_OK"}
    <3>1. PICK r \in ReadOutcomes :
            CASE r.n = -1 -> Fail(pqReadData(r))
              [] r.n = 0 -> /\ conn' = pqReadData(r) /\ link' = LinkAfter(r)
                            /\ Return("READING") /\ UNCHANGED fds
              [] r.n = 1 -> /\ conn' = pqReadData(r) /\ link' = LinkAfter(r)
                            /\ KeepGoing /\ UNCHANGED fds
      BY <1>9, <2>2 DEF PollEntry
    <3>2. r.n \in {-1, 0, 1}
      BY <3>1 DEF ReadOutcomes
    <3>3. CASE r.n = -1
      <4>1. Fail(pqReadData(r))
        BY <3>1, <3>3
      <4> QED BY <1>3, <4>1
    <3>4. CASE r.n = 0
      <4>1. link' = LinkAfter(r)
        BY <3>1, <3>4
      <4> QED BY <1>7, <4>1
    <3>5. CASE r.n = 1
      <4>1. link' = LinkAfter(r)
        BY <3>1, <3>5
      <4> QED BY <1>7, <4>1
    <3> QED BY <3>2, <3>3, <3>4, <3>5
  <2> QED BY <2>1, <2>2
<1>10. CASE NeededNoSocket \/ NeededRefused \/ NeededNoMore \/ Started
  <2>1. (\E c : Become(c)) \/ (\E c : Fail(c))
    BY <1>10 DEF NeededNoSocket, NeededRefused, NeededNoMore, Started
  <2> QED BY <1>2, <1>3, <2>1
<1>11. CASE \E net \in {"up", "connecting"} : NeededConnects(net)
  <2>1. \E net : link' = [NoLink EXCEPT !.net = net]
    BY <1>11 DEF NeededConnects
  <2> QED BY <2>1 DEF Asked, NoLink, Requests
<1>12. CASE Made
  <2>1. (\E c : Fail(c)) \/ Sent("ssl") \/ Sent("startup")
    BY <1>12 DEF Made
  <2> QED BY <1>3, <1>5, <2>1 DEF Requests
<1>13. CASE SSLStartup
  <2>1. CASE conn.ssl_in_use
    <3>1. \/ Sent("hello")
          \/ link' = [link EXCEPT !.wire = Tail(@), !.tls = TRUE]
          \/ \E c : HandshakeFails(c)
      BY <1>13, <2>1 DEF SSLStartup, Handshake
    <3>2. CASE link' = [link EXCEPT !.wire = Tail(@), !.tls = TRUE]
      BY <1>1, <3>2 DEF Asked, LinkFields
    <3> QED BY <1>5, <1>8, <3>1, <3>2 DEF Requests
  <2>2. CASE ~conn.ssl_in_use
    <3>1. PICK r \in ReadOutcomes : SSLAnswer(r)
      BY <1>13, <2>2 DEF SSLStartup
    <3>2. \/ \E c : Fail(c)
          \/ \E c : HandshakeFails(c)
          \/ link' = LinkAfter(r)
          \/ \E f : link' = [LinkAfter(r) EXCEPT
                               !.asked = IF f = "READING" /\ link.net = "up"
                                         THEN "hello" ELSE @]
      <4> DEFINE next == IF pqReadData(r).in # <<>> THEN Head(pqReadData(r).in)
                         ELSE LinkAfter(r).wire[1]
      <4>1. r.n = -1 \/ r.n = 1
        BY <2>2, <3>1 DEF ReadOutcomes
      <4>2. CASE r.n = -1
        BY <3>1, <4>2 DEF SSLAnswer
      <4>3. CASE r.n = 1 /\ next = "S"
        BY <3>1, <4>3 DEF SSLAnswer
      <4>4. CASE r.n = 1 /\ next = "N"
        BY <3>1, <4>4 DEF SSLAnswer
      <4>5. CASE r.n = 1 /\ next \in {"E", "Eold"}
        BY <3>1, <4>5 DEF SSLAnswer
      <4>6. CASE r.n = 1 /\ next \notin {"S", "N", "E", "Eold"}
        BY <3>1, <4>6 DEF SSLAnswer
      <4> QED BY <4>1, <4>2, <4>3, <4>4, <4>5, <4>6
    <3>3. CASE \E f : link' = [LinkAfter(r) EXCEPT
                                 !.asked = IF f = "READING" /\ link.net = "up"
                                           THEN "hello" ELSE @]
      <4> DEFINE l == LinkAfter(r)
      <4>1. DOMAIN l = LinkFields /\ l.asked = link.asked
        BY <1>6
      <4>2. PICK f : link' = [l EXCEPT !.asked = IF f = "READING" /\ link.net = "up"
                                                 THEN "hello" ELSE @]
        BY <3>3
      <4> HIDE DEF l
      <4> QED BY <4>1, <4>2 DEF Asked, LinkFields, Requests
    <3> QED BY <1>3, <1>7, <1>8, <3>2, <3>3
  <2> QED BY <1>1, <2>1, <2>2
<1>14. CASE \/ AwaitingIncomplete \/ AwaitingNotPostgres \/ AwaitingOldError \/ AwaitingError
            \/ AuthOkBusy \/ AuthOkAsynchronous \/ AuthOkResult \/ AuthOkReady
  <2>1. CASE AwaitingError
    <3>1. (\E c : Become(c)) \/ (\E c : Fail(c))
      BY <2>1 DEF AwaitingError
    <3> QED BY <1>2, <1>3, <3>1
  <2>2. CASE ~AwaitingError
    <3>1. (\E c : Become(c)) \/ (\E c : Fail(c)) \/ link' = link
      BY <1>14, <2>2 DEF AwaitingIncomplete, AwaitingNotPostgres, AwaitingOldError, AuthOkBusy,
                         AuthOkAsynchronous, AuthOkResult, AuthOkReady
    <3> QED BY <1>2, <1>3, <1>4, <3>1
  <2> QED BY <2>1, <2>2
<1>15. CASE AwaitingRequest
  <2>1. (\E c : Fail(c)) \/ link' = link \/ Sent("password")
    BY <1>15 DEF AwaitingRequest
  <2> QED BY <1>3, <1>4, <1>5, <2>1 DEF Requests
<1>16. CASE SetenvEntry
  <2>1. link' = link \/ \E r \in ReadOutcomes : link' = LinkAfter(r)
    BY <1>16 DEF SetenvEntry
  <2> QED BY <1>4, <1>7, <2>1
<1>17. CASE SetenvLost \/ SetenvSkip \/ SetenvBusy \/ SetenvResult \/ SetenvDone
  <2>1. (\E c : Fail(c)) \/ link' = link
    BY <1>17 DEF SetenvLost, SetenvSkip, SetenvBusy, SetenvResult, SetenvDone, SetenvFails
  <2> QED BY <1>3, <1>4, <2>1
<1>18. CASE SetenvSend
  <2>1. (\E c : Fail(c)) \/ \E q \in {"set", "version", "encoding"} : Sent(q)
    BY <1>18 DEF SetenvSend, SetenvFails
  <2> QED BY <1>3, <1>5, <2>1 DEF Requests
<1>19. CASE User \/ Wake \/ TimedOut \/ Tick
  <2>1. link' = link \/ \E c : Become(c)
    BY <1>19 DEF User, PQsetdbLogin, PQreset, PQfinish, connectDBStart, StartFails, Wake,
                 TimedOut, Tick
  <2> QED BY <1>2, <1>4, <2>1
<1>20. CASE Environment
  <2>1. \/ \E net : link' = [link EXCEPT !.net = net]
        \/ \E net, w : link' = [link EXCEPT !.net = net, !.wire = w]
        \/ \E a, w : link' = [link EXCEPT !.wire = @ \o a, !.asked = "nothing", !.welcomed = w]
    BY <1>20 DEF Environment, ConnectionEnds, ServerAnswers, ServerCloses
  <2> QED BY <1>1, <2>1 DEF Asked, LinkFields, Requests
<1>21. CASE UNCHANGED vars
  BY <1>4, <1>21 DEF vars
<1> QED BY <1>9, <1>10, <1>11, <1>12, <1>13, <1>14, <1>15, <1>16, <1>17, <1>18, <1>19, <1>20,
           <1>21 DEF Next, Client, Poll

\* An answer says ReadyForQuery at its end or not at all.
LEMMA AnswersSay ==
  ASSUME Asked, link.asked # "nothing", NEW a \in Answers(link.asked)
  PROVE  a \in Seq(Messages) /\ a # <<>> /\ (SaysReady(a) => a[Len(a)] = "Z")
<1>1. \/ \E x \in Messages : a = <<x>>
      \/ \E x \in Messages \ {"Z"}, y \in Messages : a = <<x, y>>
      \/ a = <<"ok", "P", "Z">>
      \/ a = <<"C", "T", "C", "Z">>
  <2>1. CASE link.asked = "ssl"
    BY <2>1 DEF Answers, Messages
  <2>2. CASE link.asked = "hello"
    BY <2>2 DEF Answers, Messages
  <2>3. CASE link.asked = "startup"
    BY <2>3 DEF Answers, Messages
  <2>4. CASE link.asked = "password"
    BY <2>4 DEF Answers, Messages
  <2>5. CASE link.asked = "set"
    BY <2>5 DEF Answers, Messages
  <2>6. CASE link.asked = "version"
    BY <2>6 DEF Answers, Messages
  <2>7. CASE link.asked = "encoding"
    BY <2>7 DEF Answers, Messages
  <2> QED BY <2>1, <2>2, <2>3, <2>4, <2>5, <2>6, <2>7 DEF Asked, Requests
<1>2. CASE \E x \in Messages : a = <<x>>
  <2>1. PICK x \in Messages : a = <<x>>
    BY <1>2
  <2>2. a \in Seq(Messages) /\ a # <<>> /\ DOMAIN a = {1} /\ Len(a) = 1
    BY <2>1
  <2> QED BY <2>2 DEF SaysReady
<1>3. CASE \E x \in Messages \ {"Z"}, y \in Messages : a = <<x, y>>
  <2>1. PICK x \in Messages \ {"Z"}, y \in Messages : a = <<x, y>>
    BY <1>3
  <2>2. a \in Seq(Messages) /\ a # <<>> /\ DOMAIN a = {1, 2} /\ Len(a) = 2 /\ a[1] # "Z"
    BY <2>1
  <2> QED BY <2>2 DEF SaysReady
<1>4. CASE a = <<"ok", "P", "Z">>
  <2>1. a \in Seq(Messages) /\ a # <<>> /\ Len(a) = 3 /\ a[3] = "Z"
    BY <1>4 DEF Messages
  <2> QED BY <2>1
<1>5. CASE a = <<"C", "T", "C", "Z">>
  <2>1. a \in Seq(Messages) /\ a # <<>> /\ Len(a) = 4 /\ a[4] = "Z"
    BY <1>5 DEF Messages
  <2> QED BY <2>1
<1> QED BY <1>1, <1>2, <1>3, <1>4, <1>5

\* The network and the server: only what is said is heard, and a refusal that was
\* said stays said.
LEMMA OutsideHears ==
  ASSUME IInv, Asked, Hears, Environment
  PROVE  Hears'
<1>1. /\ Shapes /\ Listening(conn, link) /\ DOMAIN link = LinkFields
      /\ Welcomed /\ Secured /\ link.welcomed \in BOOLEAN
      /\ conn.in \in Seq(Messages) /\ link.wire \in Seq(Messages)
  BY HearFacts DEF Listening
<1>2. opt' = opt /\ conn' = conn /\ pc' = pc
  BY DEF Environment, ConnectionEnds, ServerAnswers, ServerCloses
<1>3. ASSUME Listening(conn', link'), link.welcomed => link'.welcomed, link'.tls = link.tls,
             Refusal(conn, link) => Refusal(conn', link')
      PROVE  Hears'
  <2>1. Welcomed'
    BY <1>1, <1>2, <1>3 DEF Welcomed
  <2>2. Secured'
    BY <1>1, <1>2, <1>3 DEF Secured
  <2> QED BY <1>3, <2>1, <2>2 DEF Hears
<1>4. CASE ConnectionEnds
  <2>1. /\ link.net = "connecting" /\ link'.wire = link.wire /\ link'.tls = link.tls
        /\ link'.welcomed = link.welcomed
    BY <1>1, <1>4 DEF ConnectionEnds, LinkFields
  <2>2. Listening(conn', link') /\ (Refusal(conn, link) => Refusal(conn', link'))
    BY <1>1, <1>2, <2>1 DEF Listening, Refusal
  <2> QED BY <1>3, <2>1, <2>2
<1>5. CASE ServerCloses
  <2>1. /\ link'.net = "closed" /\ link'.wire \in {link.wire, <<>>} /\ link'.tls = link.tls
        /\ link'.welcomed = link.welcomed
    BY <1>1, <1>5 DEF ServerCloses, LinkFields
  <2>2. Listening(conn', link')
    BY <1>1, <1>2, <2>1, NoWordsSayNothing DEF Listening
  <2>3. Refusal(conn, link) => Refusal(conn', link')
    BY <1>2, <2>1 DEF Refusal
  <2> QED BY <1>3, <2>1, <2>2, <2>3
<1>6. CASE ServerAnswers
  <2>1. PICK a \in Answers(link.asked) :
          link' = [link EXCEPT !.wire = @ \o a, !.asked = "nothing",
                               !.welcomed = @ \/ a[Len(a)] = "Z"]
    BY <1>6 DEF ServerAnswers
  <2>2. a \in Seq(Messages) /\ a # <<>> /\ (SaysReady(a) => a[Len(a)] = "Z")
    BY <1>6, AnswersSay DEF ServerAnswers
  <2>3. link.net = "up"
    BY <1>6 DEF ServerAnswers
  <2>4. /\ link'.wire = link.wire \o a /\ link'.tls = link.tls /\ link'.net = "up"
        /\ link'.welcomed = (link.welcomed \/ a[Len(a)] = "Z")
    BY <1>1, <2>1, <2>3 DEF LinkFields
  <2>5. /\ link.wire \o a \in Seq(Messages)
        /\ SaysReady(link.wire \o a) => SaysReady(link.wire) \/ SaysReady(a)
    BY <1>1, <2>2, JoinedSay
  <2>6. Listening(conn', link')
    BY <1>1, <1>2, <2>2, <2>4, <2>5 DEF Listening
  <2>7. link.wire # <<>> => link'.wire # <<>> /\ Head(link'.wire) = Head(link.wire)
    BY <1>1, <2>2, <2>4
  <2>8. Refusal(conn, link) => Refusal(conn', link')
    BY <1>2, <2>3, <2>7 DEF Refusal
  <2> QED BY <1>3, <2>4, <2>6, <2>8
<1> QED BY <1>4, <1>5, <1>6 DEF Environment

LEMMA HearsKept == IInv /\ Asked /\ Hears /\ [Next]_vars => Hears'
<1> SUFFICES ASSUME IInv, Asked, Hears, [Next]_vars PROVE Hears'
  OBVIOUS
<1>1. CASE UNCHANGED vars
  BY <1>1 DEF vars, Hears, Welcomed, Secured
<1>2. CASE Poll
  BY <1>2, EntryHears, NeededHears, StartedHears, MadeHears, SSLHears, AwaitingHears,
     AuthOkHears, SetenvEntryHears, SetenvHears DEF Poll
<1>3. CASE Wake \/ TimedOut \/ Tick \/ User
  BY <1>3, CallerHears DEF User
<1>4. CASE Environment
  BY <1>4, OutsideHears
<1> QED BY <1>1, <1>2, <1>3, <1>4 DEF Next, Client

\* However many attempts, fallbacks and resets: CONNECTION_OK means that the server at the
\* other end of this socket, and no earlier one, said ReadyForQuery, over SSL if sslmode
\* requires it, and that the startup, SETENV included, is over.
THEOREM OpenIsAlwaysWelcomed == Spec => []OpenMeansWelcomed
<1>1. Init => Asked /\ Hears
  <2> SUFFICES ASSUME Init PROVE Asked /\ Hears
    OBVIOUS
  <2>1. /\ conn.status = "BAD" /\ conn.in = <<>> /\ conn.sock = 0 /\ link = NoLink
    BY DEF Init, makeEmptyPGconn
  <2>2. Listening(conn, link) /\ Asked
    BY <2>1, NoWordsSayNothing DEF Listening, Asked, Requests, NoLink
  <2> QED BY <2>1, <2>2 DEF Hears, Welcomed, Secured
<1>2. IInv /\ Asked /\ Hears => OpenMeansWelcomed
  BY DEF Hears, Welcomed, Secured, OpenMeansWelcomed
<1> QED BY <1>1, <1>2, AskedKept, HearsKept, IInvHolds, PTL DEF Spec
=============================================================================

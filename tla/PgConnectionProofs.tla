------------------------- MODULE PgConnectionProofs --------------------------
(***************************************************************************)
(* Proofs about PgConnection, for any statement strings, any number of     *)
(* them and of COPY blocks: client and server stay in step.                *)
(*                                                                         *)
(* The inductive invariant says where in the two streams the client and a  *)
(* living server can be: what is under way in each direction belongs to    *)
(* the string sent last, and exactly one of the two has the turn.          *)
(***************************************************************************)
EXTENDS PgConnection, TLAPS

IsQuery(m) == m.type = "Query"
Idle == asyncStatus = "IDLE"
AtLookup == op = "lookup" /\ pc \in {"start", "finish", "return", "map"}

\* A backend that went away has nothing left to do, and a connection is found
\* bad only after that.
DeadIsDone ==
  ~alive => toServer = <<>> /\ serving = 0 /\ rest = <<>> /\ ~copying
BadIsDead == bad => ~alive

\* Every answer under way is one to the string sent last, and ReadyForQuery
\* the last of them.
OwnAnswers ==
  \A i \in 1..Len(toClient) :
    /\ toClient[i].query = sent
    /\ toClient[i].status = "READY" => i = Len(toClient)
    /\ toClient[i].fate = "stored" => toClient[i].status = "COMMAND_OK"
    /\ toClient[i].fate = "rejected" => toClient[i].status = "FATAL_ERROR"

\* A string under way is the last message, and the client waits for it.
OwnQuery ==
  \A i \in 1..Len(toServer) : IsQuery(toServer[i]) =>
    /\ i = Len(toServer) /\ toServer[i].id = sent /\ toServer[i].statements = query
    /\ serving = 0 /\ toClient = <<>> /\ pc = "finish" /\ last = NULL

Asked == \E i \in 1..Len(toServer) : IsQuery(toServer[i])

\* The server is asked, works, or is done; it is done when ReadyForQuery is the
\* last message under way, or was read.
Turn ==
  /\ serving \in {0, sent}
  /\ serving = 0 => rest = <<>> /\ ~copying
  /\ serving > 0 => ~Idle /\ \A i \in 1..Len(toClient) : toClient[i].status # "READY"
  /\ Idle /\ ~bad => toClient = <<>>
  /\ alive /\ serving = 0 /\ ~Asked /\ ~Idle =>
       toClient # <<>> /\ toClient[Len(toClient)].status = "READY"

\* Before the client has read of a COPY it has sent nothing of it, and what
\* follows can only be that it failed.
CopyUnread ==
  \A i \in 1..Len(toClient) : toClient[i].status = "COPY_IN" =>
    /\ toServer = <<>>
    /\ i = Len(toClient) => (alive => copying)
    /\ i < Len(toClient) => ~copying /\ rest = <<>> /\ toClient[i + 1].fate = "rejected"
    /\ \A j \in i + 1..Len(toClient) : toClient[j].status # "COPY_IN"

NoneUnread == \A i \in 1..Len(toClient) : toClient[i].status # "COPY_IN"

\* While a client copies, the server does too, or the news that it failed is
\* the next message.
ClientCopies ==
  alive /\ asyncStatus = "COPY_IN" =>
    \/ copying /\ toClient = <<>> /\ \A i \in 1..Len(toServer) : toServer[i].type = "CopyData"
    \/ ~copying /\ rest = <<>> /\ toClient # <<>> /\ toClient[1].fate = "rejected" /\ NoneUnread

\* While a server copies, the client is yet to read of it, copies, or has sent
\* its end; and messages it does not take are of a COPY that failed.
ServerCopies ==
  copying =>
    \/ toClient # <<>> /\ toClient[Len(toClient)].status = "COPY_IN"
    \/ toClient = <<>> /\ asyncStatus = "COPY_IN"
    \/ /\ toClient = <<>> /\ asyncStatus = "BUSY" /\ toServer # <<>>
       /\ toServer[Len(toServer)].type \in {"CopyDone", "CopyFail"}
       /\ \A i \in 1..Len(toServer) - 1 : toServer[i].type = "CopyData"
       /\ toServer[Len(toServer)].type = "CopyDone" => ended
LateData ==
  serving > 0 /\ ~copying /\ toServer # <<>> => rest = <<>> /\ NoneUnread

\* A COPY that CopyIn has ended is still to be stored, or its fate is the next
\* message.
EndedCopy ==
  alive /\ ended =>
    /\ asyncStatus = "BUSY" /\ pc # "finish"
    /\ (copying /\ toClient = <<>>) \/ (toClient # <<>> /\ toClient[1].fate # "none")

\* Where a call is, and what it may count on there.
Calling ==
  /\ pc \in {"start", "finish"} => query # <<>>
  /\ pc = "start" => sent < MaxQueries
  /\ pc = "finish" => ~bad /\ asyncStatus = "BUSY"
  /\ pc = "finish" /\ alive /\ ~Asked => toServer = <<>>
  /\ pc = "finish" /\ last # NULL =>
       last.query = sent /\ last.status \notin {"COPY_IN", "COPY_OUT"}
  /\ pc = "finish" /\ last = NULL =>
       /\ toClient # <<>> => toClient[1].status # "READY"
       /\ alive => Asked \/ rest # <<>> \/ toClient # <<>>
  /\ pc = "return" =>
       /\ last # NULL /\ last.query = sent
       /\ Idle \/ ~alive \/ last.status \in {"COPY_IN", "COPY_OUT"}
  /\ pc = "map" => (Idle \/ ~alive) /\ sent + lookups <= MaxQueries /\ rs # NULL
  /\ pc = "getResult" => rs = NULL

\* A catalogue lookup is one SELECT, and starts on an idle connection.
LookingUp ==
  AtLookup =>
    /\ rs # NULL /\ sent + lookups <= MaxQueries
    /\ pc = "start" => sent + lookups < MaxQueries /\ (Idle \/ ~alive)
    /\ pc \in {"start", "finish"} => query = <<"select">>
    /\ pc = "finish" =>
         /\ rest \in {<<>>, <<"select">>} /\ ~copying
         /\ \A i \in 1..Len(toClient) : toClient[i].status \notin {"COPY_IN", "COPY_OUT"}
    /\ pc = "return" => last.status \notin {"COPY_IN", "COPY_OUT"}

IInv ==
  /\ TypeOK
  /\ DeadIsDone /\ BadIsDead /\ OwnAnswers /\ OwnQuery /\ Turn
  /\ CopyUnread /\ ClientCopies /\ ServerCopies /\ LateData /\ EndedCopy
  /\ Calling /\ LookingUp /\ ReportIsTrue
-----------------------------------------------------------------------------
(* Sequences. *)

LEMMA Appended ==
  ASSUME NEW S, NEW s \in Seq(S), NEW e \in S
  PROVE  LET t == Append(s, e)
         IN  /\ t \in Seq(S) /\ Len(t) = Len(s) + 1 /\ t # <<>>
             /\ \A i \in 1..Len(s) : t[i] = s[i]
             /\ t[Len(s) + 1] = e
OBVIOUS

LEMMA Shortened ==
  ASSUME NEW S, NEW s \in Seq(S), s # <<>>
  PROVE  /\ Tail(s) \in Seq(S) /\ Len(Tail(s)) = Len(s) - 1 /\ Len(s) \in Nat /\ Len(s) > 0
         /\ Head(s) = s[1] /\ s[1] \in S /\ s[Len(s)] \in S
         /\ \A i \in 1..Len(Tail(s)) : i + 1 \in 1..Len(s) /\ Tail(s)[i] = s[i + 1]
         /\ \A i \in 1..Len(Tail(s)) : (i + 1 = Len(s)) <=> (i = Len(Tail(s)))
OBVIOUS

LEMMA Empty ==
  ASSUME NEW S, NEW s \in Seq(S)
  PROVE  s = <<>> <=> Len(s) = 0
OBVIOUS

LEMMA Within ==
  ASSUME NEW a \in Nat, NEW b \in Nat, NEW c \in 0..(b - a)
  PROVE  c \in 0..b /\ a + c <= b
OBVIOUS

LEMMA Prefix ==
  ASSUME NEW S, NEW s \in Seq(S), NEW n \in 0..Len(s)
  PROVE  LET t == SubSeq(s, 1, n)
         IN  /\ t \in Seq(S) /\ Len(t) = n
             /\ \A i \in 1..n : i \in 1..Len(s) /\ t[i] = s[i]
OBVIOUS

-----------------------------------------------------------------------------
(* The server. *)

\* What the server answers is a message to libpq, of the string it is at.
LEMMA Replied ==
  ASSUME IInv, serving > 0, NEW status \in Statuses \union {"READY"}, NEW fate \in Fates
  PROVE  /\ serving = sent /\ Reply(status, fate) \in Replies
         /\ Reply(status, fate).status = status /\ Reply(status, fate).fate = fate
         /\ Reply(status, fate).query = sent
BY BoundsAssumption DEF IInv, TypeOK, Turn, Reply, Replies

\* An answer joins the others.
LEMMA Joined ==
  ASSUME IInv, NEW m \in Replies, m.query = sent, toClient' = Append(toClient, m),
         serving > 0, sent' = sent,
         m.fate = "stored" => m.status = "COMMAND_OK",
         m.fate = "rejected" => m.status = "FATAL_ERROR"
  PROVE  /\ toClient' \in Seq(Replies) /\ toClient' # <<>> /\ Len(toClient') = Len(toClient) + 1
         /\ Len(toClient) \in Nat
         /\ toClient'[Len(toClient')] = m
         /\ \A i \in 1..Len(toClient) : toClient'[i] = toClient[i]
         /\ \A i \in 1..Len(toClient) : toClient'[i].status # "READY"
         /\ OwnAnswers'
<1>1. toClient \in Seq(Replies) /\ Len(toClient) \in Nat
  BY DEF IInv, TypeOK
<1>2. /\ toClient' \in Seq(Replies) /\ toClient' # <<>> /\ Len(toClient') = Len(toClient) + 1
      /\ \A i \in 1..Len(toClient) : toClient'[i] = toClient[i]
      /\ toClient'[Len(toClient')] = m
  BY <1>1, Appended
<1>3. \A i \in 1..Len(toClient) : toClient'[i].status # "READY"
  BY <1>2 DEF IInv, Turn
<1>4. OwnAnswers'
  <2> SUFFICES ASSUME NEW i \in 1..Len(toClient')
               PROVE  /\ toClient'[i].query = sent
                      /\ toClient'[i].status = "READY" => i = Len(toClient')
                      /\ toClient'[i].fate = "stored" => toClient'[i].status = "COMMAND_OK"
                      /\ toClient'[i].fate = "rejected" => toClient'[i].status = "FATAL_ERROR"
    BY DEF OwnAnswers
  <2>1. CASE i \in 1..Len(toClient)
    BY <1>2, <1>3, <2>1 DEF IInv, OwnAnswers
  <2>2. CASE i = Len(toClient')
    BY <1>2, <2>2
  <2> QED BY <1>1, <1>2, <2>1, <2>2
<1> QED BY <1>1, <1>2, <1>3, <1>4

LEMMA ServerRunsKeeps ==
  ASSUME IInv, ServerRuns PROVE IInv'
<1>1. /\ alive /\ serving > 0 /\ serving = sent /\ ~copying /\ rest # <<>>
      /\ rest' = Tail(rest) /\ rest' \in Seq(Kinds) /\ Head(rest) \in Kinds
      /\ UNCHANGED <<asyncStatus, bad, toServer, alive, serving, pc, op, query, last, chunks,
                     lookups, rs, sent, call, ended, reported>>
  BY Shortened DEF ServerRuns, ServerUnchanged, libpqVars, driverVars, IInv, TypeOK, Turn
<1>2. toServer = <<>>
  BY <1>1 DEF IInv, LateData
<1>3. NoneUnread
  BY <1>1 DEF IInv, CopyUnread, NoneUnread, TypeOK
<1>4. toClient \in Seq(Replies) /\ Len(toClient) \in Nat
  BY DEF IInv, TypeOK
<1>5. ASSUME toClient' \in Seq(Replies), Len(toClient') > Len(toClient),
             \A i \in 1..Len(toClient) : toClient'[i] = toClient[i],
             \A i \in Len(toClient) + 1..Len(toClient') :
               /\ toClient'[i].query = sent /\ toClient'[i].fate = "none"
               /\ toClient'[i].status # "READY"
               /\ toClient'[i].status = "COPY_IN" => i = Len(toClient') /\ copying',
             copying' \in BOOLEAN, copying' => toClient'[Len(toClient')].status = "COPY_IN",
             AtLookup /\ pc = "finish" =>
               /\ rest' = <<>> /\ ~copying'
               /\ \A i \in Len(toClient) + 1..Len(toClient') : toClient'[i].status = "TUPLES_OK"
      PROVE  IInv'
  <2>1. /\ \A i \in 1..Len(toClient') : i \in 1..Len(toClient) \/ i \in Len(toClient) + 1..Len(toClient')
        /\ toClient' # <<>> /\ Len(toClient') \in Nat
    BY <1>4, <1>5
  <2>2. TypeOK'
    BY <1>1, <1>5 DEF IInv, TypeOK
  <2>3. DeadIsDone' /\ BadIsDead'
    BY <1>1 DEF IInv, DeadIsDone, BadIsDead
  <2>4. OwnQuery' /\ LateData'
    BY <1>1, <1>2 DEF OwnQuery, LateData
  <2>5. ServerCopies'
    BY <1>5, <2>1 DEF ServerCopies
  <2>6. \A i \in 1..Len(toClient') : toClient'[i].status # "READY"
    BY <1>1, <1>5, <2>1 DEF IInv, Turn
  <2>7. OwnAnswers'
    <3> SUFFICES ASSUME NEW i \in 1..Len(toClient')
                 PROVE  /\ toClient'[i].query = sent
                        /\ toClient'[i].fate = "stored" => toClient'[i].status = "COMMAND_OK"
                        /\ toClient'[i].fate = "rejected" => toClient'[i].status = "FATAL_ERROR"
      BY <1>1, <2>6 DEF OwnAnswers
    <3>1. CASE i \in 1..Len(toClient)
      BY <1>5, <3>1 DEF IInv, OwnAnswers
    <3>2. CASE i \in Len(toClient) + 1..Len(toClient')
      BY <1>5, <3>2
    <3> QED BY <2>1, <3>1, <3>2
  <2>8. Turn'
    BY <1>1, <1>5, <2>6 DEF IInv, Turn, Idle, BadIsDead
  <2>9. CopyUnread'
    <3>1. ASSUME NEW i \in 1..Len(toClient'), toClient'[i].status = "COPY_IN"
          PROVE  i = Len(toClient') /\ copying'
      BY <1>3, <1>5, <2>1, <3>1 DEF NoneUnread
    <3> QED BY <1>1, <1>2, <2>1, <3>1 DEF CopyUnread
  <2>10. ClientCopies' /\ EndedCopy'
    BY <1>1, <1>2, <1>4, <1>5, <2>1 DEF IInv, ClientCopies, EndedCopy
  <2>11. Calling'
    <3>1. toClient'[1].status # "READY"
      BY <2>1, <2>6
    <3> QED BY <1>1, <1>2, <2>1, <3>1 DEF IInv, Calling, Idle
  <2>12. LookingUp'
    <3>1. LookingUp /\ (AtLookup' <=> AtLookup)
      BY <1>1 DEF IInv, AtLookup
    <3>2. ASSUME AtLookup, pc = "finish", NEW i \in 1..Len(toClient')
          PROVE  toClient'[i].status \notin {"COPY_IN", "COPY_OUT"}
      BY <1>5, <2>1, <3>1, <3>2 DEF LookingUp
    <3> QED BY <1>1, <1>5, <3>1, <3>2 DEF LookingUp, Idle
  <2>13. ReportIsTrue'
    BY <1>1 DEF IInv, ReportIsTrue
  <2> QED BY <2>2, <2>3, <2>4, <2>5, <2>7, <2>8, <2>9, <2>10, <2>11, <2>12, <2>13 DEF IInv
<1>6. AtLookup /\ pc = "finish" => Head(rest) = "select" /\ rest' = <<>>
  BY <1>1 DEF IInv, LookingUp
<1>7. CASE Head(rest) = "copyout"
  <2> DEFINE a == Reply("COPY_OUT", "none")
             b == Reply("COMMAND_OK", "none")
  <2>1. /\ a \in Replies /\ a.status = "COPY_OUT" /\ a.fate = "none" /\ a.query = sent
        /\ b \in Replies /\ b.status = "COMMAND_OK" /\ b.fate = "none" /\ b.query = sent
    BY <1>1, Replied DEF Statuses, Fates
  <2>2. toClient' = toClient \o <<a, b>> /\ UNCHANGED copying
    BY <1>7 DEF ServerRuns
  <2> HIDE DEF a, b
  <2>3. /\ toClient' \in Seq(Replies) /\ Len(toClient') = Len(toClient) + 2
        /\ \A i \in 1..Len(toClient) : toClient'[i] = toClient[i]
        /\ toClient'[Len(toClient) + 1] = a /\ toClient'[Len(toClient) + 2] = b
    BY <1>4, <2>1, <2>2
  <2>4. \A i \in Len(toClient) + 1..Len(toClient') : toClient'[i] = a \/ toClient'[i] = b
    BY <1>4, <2>3
  <2>5. \A i \in Len(toClient) + 1..Len(toClient') :
          /\ toClient'[i].query = sent /\ toClient'[i].fate = "none"
          /\ toClient'[i].status \notin {"READY", "COPY_IN"}
    BY <2>1, <2>4
  <2>6. copying' \in BOOLEAN /\ ~copying'
    BY <1>1, <2>2 DEF IInv, TypeOK
  <2>7. AtLookup /\ pc = "finish" => FALSE
    BY <1>6, <1>7
  <2> QED BY <1>4, <1>5, <2>3, <2>5, <2>6, <2>7
<1>8. CASE Head(rest) # "copyout"
  <2>1. PICK status \in {"TUPLES_OK", "COMMAND_OK", "COPY_IN"} :
          /\ Answer(status) /\ (status = "TUPLES_OK" <=> Head(rest) = "select")
          /\ copying' \in BOOLEAN /\ (copying' <=> status = "COPY_IN")
    BY <1>1, <1>8 DEF ServerRuns, Kinds, IInv, TypeOK
  <2> DEFINE m == Reply(status, "none")
  <2>2. m \in Replies /\ m.status = status /\ m.fate = "none" /\ m.query = sent
    BY <1>1, Replied DEF Statuses, Fates
  <2>3. toClient' = Append(toClient, m)
    BY <2>1 DEF Answer
  <2> HIDE DEF m
  <2>4. /\ toClient' \in Seq(Replies) /\ Len(toClient') = Len(toClient) + 1
        /\ \A i \in 1..Len(toClient) : toClient'[i] = toClient[i]
        /\ toClient'[Len(toClient')] = m
        /\ \A i \in Len(toClient) + 1..Len(toClient') : i = Len(toClient')
    BY <1>4, <2>2, <2>3, Appended
  <2> QED BY <1>4, <1>5, <1>6, <2>1, <2>2, <2>4
<1> QED BY <1>7, <1>8

\* The end of a COPY, and of a string that failed: nothing else of the string is
\* to come, or the rest of it where the COPY was stored.
LEMMA ServerAnswersKeeps ==
  ASSUME IInv, ServerFails \/ ServerStores \/ ServerAborts
  PROVE  IInv'
<1> USE DEF ServerUnchanged, libpqVars, driverVars
<1>0. /\ toClient \in Seq(Replies) /\ toServer \in Seq(Messages) /\ rest \in Seq(Kinds)
      /\ Len(toClient) \in Nat /\ Len(toServer) \in Nat
  BY DEF IInv, TypeOK
<1>1. /\ alive /\ serving > 0 /\ serving = sent /\ copying' = FALSE
      /\ UNCHANGED <<asyncStatus, bad, alive, serving, pc, op, query, last, chunks,
                     lookups, rs, sent, call, ended, reported>>
  BY DEF ServerFails, ServerStores, ServerAborts, IInv, Turn, TypeOK
<1>2. /\ rest' = <<>> \/ (ServerStores /\ rest' = rest)
      /\ toServer' = toServer \/ toServer' = Tail(toServer)
  BY DEF ServerFails, ServerStores, ServerAborts
<1>3. ServerStores \/ ServerAborts => copying /\ toServer # <<>>
  BY DEF ServerStores, ServerAborts
<1>4. ServerStores => toClient = <<>> /\ toServer' = <<>>
  <2> SUFFICES ASSUME ServerStores PROVE toClient = <<>> /\ toServer' = <<>>
    OBVIOUS
  <2>1. toServer[1].type = "CopyDone" /\ copying /\ toServer' = Tail(toServer) /\ toServer # <<>>
    BY <1>0, Shortened DEF ServerStores
  <2>2. ~(toClient # <<>> /\ toClient[Len(toClient)].status = "COPY_IN")
    BY <1>0, <2>1 DEF IInv, CopyUnread
  <2>3. ~(toClient = <<>> /\ asyncStatus = "COPY_IN")
    BY <1>0, <1>1, <2>1 DEF IInv, ClientCopies
  <2>4. /\ toClient = <<>>
        /\ \A i \in 1..Len(toServer) - 1 : toServer[i].type = "CopyData"
    BY <2>1, <2>2, <2>3 DEF IInv, ServerCopies
  <2>5. Len(toServer) = 1
    <3>1. Len(toServer) > 0
      BY <1>0, <2>1, Shortened
    <3>2. Len(toServer) > 1 => 1 \in 1..Len(toServer) - 1
      BY <1>0
    <3>3. Len(toServer) > 1 => toServer[1].type = "CopyData"
      BY <2>4, <3>2
    <3>4. toServer[1].type # "CopyData" /\ Len(toServer) \in Nat
      BY <1>0, <2>1
    <3> QED BY <3>1, <3>3, <3>4
  <2> QED BY <1>0, <2>1, <2>4, <2>5
<1>5. \E status \in {"FATAL_ERROR", "COMMAND_OK"}, fate \in Fates :
        /\ toClient' = Append(toClient, Reply(status, fate))
        /\ ServerStores => status = "COMMAND_OK" /\ fate = "stored"
        /\ ~ServerStores => status = "FATAL_ERROR" /\ fate = IF copying THEN "rejected" ELSE "none"
  BY DEF ServerFails, ServerStores, ServerAborts, EndsCopy, Fates
<1>6. PICK status \in {"FATAL_ERROR", "COMMAND_OK"}, fate \in Fates :
        /\ toClient' = Append(toClient, Reply(status, fate))
        /\ fate = "stored" => status = "COMMAND_OK"
        /\ fate = "rejected" => status = "FATAL_ERROR"
        /\ copying => fate # "none"
        /\ copying /\ rest' # <<>> => toClient = <<>> /\ toServer' = <<>>
        /\ copying /\ ~ServerStores => fate = "rejected"
  BY <1>2, <1>3, <1>4, <1>5
<1> DEFINE m == Reply(status, fate)
<1>7. m \in Replies /\ m.status = status /\ m.fate = fate /\ m.query = sent
  BY <1>1, Replied DEF Statuses
<1>8. toClient' = Append(toClient, m)
  BY <1>6
<1> HIDE DEF m
<1>9. /\ toClient' \in Seq(Replies) /\ toClient' # <<>> /\ Len(toClient') = Len(toClient) + 1
      /\ toClient'[Len(toClient')] = m
      /\ \A i \in 1..Len(toClient) : toClient'[i] = toClient[i]
      /\ \A i \in 1..Len(toClient) : toClient'[i].status # "READY"
      /\ OwnAnswers'
  BY <1>1, <1>6, <1>7, <1>8, Joined
<1>10. rest' \in Seq(Kinds) /\ toServer' \in Seq(Messages)
  <2>1. rest' \in Seq(Kinds)
    <3>1. <<>> \in Seq(Kinds)
      OBVIOUS
    <3>2. rest' = <<>> \/ rest' = rest
      BY <1>2
    <3> QED BY <1>0, <3>1, <3>2
  <2>2. CASE ServerFails
    BY <1>0, <2>1, <2>2 DEF ServerFails
  <2>3. CASE ServerStores \/ ServerAborts
    BY <1>0, <1>2, <1>3, <2>1, <2>3, Shortened
  <2> QED BY <2>2, <2>3
<1>11. TypeOK'
  <2>1. toClient' \in Seq(Replies) /\ copying' \in BOOLEAN
    BY <1>1, <1>9
  <2> QED BY <1>1, <1>10, <2>1 DEF IInv, TypeOK
<1>12. DeadIsDone' /\ BadIsDead'
  BY <1>1 DEF IInv, DeadIsDone, BadIsDead
<1>13. NoneUnread \/ toServer = <<>>
  BY DEF IInv, CopyUnread, NoneUnread
<1>14. rest' # <<>> \/ toServer' = <<>> \/ NoneUnread
  BY <1>2, <1>3, <1>13 DEF ServerFails
<1>15. OwnQuery'
  <2>1. \A i \in 1..Len(toServer) : ~IsQuery(toServer[i])
    BY <1>1 DEF IInv, OwnQuery
  <2>2. \A i \in 1..Len(toServer') : ~IsQuery(toServer'[i])
    <3>1. CASE toServer' = toServer
      BY <2>1, <3>1
    <3>2. CASE ServerStores \/ ServerAborts
      <4>1. toServer' = Tail(toServer) /\ toServer # <<>>
        BY <3>2 DEF ServerStores, ServerAborts
      <4>2. \A i \in 1..Len(toServer') : i + 1 \in 1..Len(toServer) /\ toServer'[i] = toServer[i + 1]
        BY <1>0, <4>1, Shortened
      <4> QED BY <2>1, <4>2
    <3> QED BY <3>1, <3>2 DEF ServerFails
  <2> QED BY <2>2 DEF OwnQuery
<1>16. Turn'
  <2>1. \A i \in 1..Len(toClient') : toClient'[i].status # "READY"
    BY <1>0, <1>7, <1>9
  <2>2. ~Idle
    BY <1>1 DEF IInv, Turn
  <2> QED BY <1>1, <2>1, <2>2 DEF Turn, Idle
<1>17. CopyUnread'
  <2> SUFFICES ASSUME NEW i \in 1..Len(toClient'), toClient'[i].status = "COPY_IN"
               PROVE  /\ toServer' = <<>> /\ i < Len(toClient') /\ rest' = <<>>
                      /\ toClient'[i + 1].fate = "rejected"
                      /\ \A j \in i + 1..Len(toClient') : toClient'[j].status # "COPY_IN"
    BY <1>0, <1>1, <1>9 DEF CopyUnread
  <2>1. i \in 1..Len(toClient) /\ toClient[i].status = "COPY_IN"
    BY <1>0, <1>7, <1>9
  <2>2. toServer = <<>> /\ ServerFails
    BY <1>3, <2>1 DEF IInv, CopyUnread
  <2>3. toServer' = <<>> /\ rest' = <<>> /\ i < Len(toClient')
    BY <1>0, <1>9, <2>1, <2>2 DEF ServerFails
  <2>4. i = Len(toClient) /\ copying
    <3>1. i # Len(toClient) => ~copying /\ rest = <<>>
      BY <1>0, <2>1 DEF IInv, CopyUnread
    <3>2. rest # <<>> \/ copying
      BY <2>2 DEF ServerFails
    <3>3. i = Len(toClient) => copying
      BY <1>1, <2>1 DEF IInv, CopyUnread
    <3> QED BY <3>1, <3>2, <3>3
  <2>5. m.fate = "rejected"
    <3>1. ~ServerStores
      BY <2>4, <1>4, <2>1, <1>0
    <3> QED BY <1>6, <1>7, <2>4, <3>1
  <2>6. toClient'[i + 1] = m /\ i + 1 = Len(toClient')
    BY <1>9, <2>4
  <2>7. \A j \in i + 1..Len(toClient') : j = Len(toClient')
    BY <1>0, <1>9, <2>4
  <2> QED BY <1>7, <2>3, <2>5, <2>6, <2>7
<1>18. ClientCopies'
  <2> SUFFICES ASSUME asyncStatus = "COPY_IN"
               PROVE  rest' = <<>> /\ toClient'[1].fate = "rejected" /\ NoneUnread'
    BY <1>1, <1>9 DEF ClientCopies
  <2>1. ~ServerStores
    <3>1. ServerStores => toServer[1].type = "CopyDone" /\ 1 \in 1..Len(toServer)
      BY <1>0, <1>3, Shortened DEF ServerStores
    <3>2. copying => \A i \in 1..Len(toServer) : toServer[i].type = "CopyData"
      BY <1>1 DEF IInv, ClientCopies
    <3> QED BY <1>3, <3>1, <3>2
  <2>2. CASE copying
    <3>1. toClient = <<>>
      BY <1>1, <2>2 DEF IInv, ClientCopies
    <3>2. m.fate = "rejected"
      BY <1>6, <1>7, <2>1, <2>2
    <3>3. Len(toClient') = 1 /\ toClient'[1] = m
      BY <1>9, <3>1
    <3> QED BY <1>2, <1>7, <2>1, <3>2, <3>3 DEF NoneUnread
  <2>3. CASE ~copying
    <3>1. toClient # <<>> /\ toClient[1].fate = "rejected" /\ NoneUnread
      BY <1>1, <2>3 DEF IInv, ClientCopies
    <3>2. \A i \in 1..Len(toClient') : i \in 1..Len(toClient) \/ toClient'[i] = m
      BY <1>0, <1>9
    <3>3. NoneUnread'
      BY <1>7, <1>9, <3>1, <3>2 DEF NoneUnread
    <3>4. toClient'[1] = toClient[1]
      BY <1>0, <1>9, <3>1
    <3> QED BY <1>2, <2>1, <3>1, <3>3, <3>4
  <2> QED BY <2>2, <2>3
<1>19. ServerCopies' /\ LateData'
  <2>1. NoneUnread => NoneUnread'
    <3>1. \A i \in 1..Len(toClient') : i \in 1..Len(toClient) \/ toClient'[i] = m
      BY <1>0, <1>9
    <3> QED BY <1>7, <1>9, <3>1 DEF NoneUnread
  <2>2. toServer' # <<>> => NoneUnread
    BY <1>0, <1>3, <1>13 DEF ServerFails
  <2>3. toServer' # <<>> => rest' = <<>>
    BY <1>2, <1>4
  <2> QED BY <1>1, <2>1, <2>2, <2>3 DEF ServerCopies, LateData
<1>20. EndedCopy'
  <2> SUFFICES ASSUME ended PROVE toClient'[1].fate # "none"
    BY <1>1, <1>9 DEF IInv, EndedCopy
  <2>1. CASE toClient = <<>>
    <3>1. copying
      BY <1>1, <2>1 DEF IInv, EndedCopy
    <3>2. toClient'[1] = m
      BY <1>9, <2>1
    <3> QED BY <1>6, <1>7, <3>1, <3>2
  <2>2. CASE toClient # <<>>
    <3>1. toClient'[1] = toClient[1]
      BY <1>0, <1>9, <2>2
    <3> QED BY <1>1, <2>2, <3>1 DEF IInv, EndedCopy
  <2> QED BY <2>1, <2>2
<1>21. Calling'
  <2>1. toClient'[1].status # "READY"
    BY <1>0, <1>7, <1>9
  <2>2. pc = "finish" => toServer' = <<>>
    <3> SUFFICES ASSUME pc = "finish" PROVE toServer' = <<>>
      OBVIOUS
    <3>1. ~Asked
      BY <1>1 DEF IInv, OwnQuery, Asked
    <3>2. toServer = <<>>
      BY <1>1, <3>1 DEF IInv, Calling
    <3> QED BY <1>3, <3>2 DEF ServerFails
  <2> QED BY <1>1, <1>9, <2>1, <2>2 DEF IInv, Calling, Idle
<1>22. LookingUp'
  <2>1. LookingUp /\ (AtLookup' <=> AtLookup)
    BY <1>1 DEF IInv, AtLookup
  <2>2. ASSUME AtLookup, pc = "finish", NEW i \in 1..Len(toClient')
        PROVE  toClient'[i].status \notin {"COPY_IN", "COPY_OUT"}
    <3>1. i \in 1..Len(toClient) \/ toClient'[i] = m
      BY <1>0, <1>9
    <3> QED BY <1>7, <1>9, <2>1, <2>2, <3>1 DEF LookingUp
  <2>3. AtLookup /\ pc = "finish" => rest' \in {<<>>, <<"select">>}
    BY <1>2, <2>1 DEF LookingUp
  <2> QED BY <1>1, <2>1, <2>2, <2>3 DEF LookingUp, Idle
<1>23. ReportIsTrue'
  BY <1>1 DEF IInv, ReportIsTrue
<1> QED
  BY <1>9, <1>11, <1>12, <1>15, <1>16, <1>17, <1>18, <1>19, <1>20, <1>21, <1>22, <1>23 DEF IInv

LEMMA ServerTakesKeeps ==
  ASSUME IInv, ServerTakes
  PROVE  IInv'
<1>1. /\ alive /\ serving = 0 /\ rest = <<>> /\ copying = FALSE /\ toServer # <<>>
      /\ toServer' = Tail(toServer)
      /\ UNCHANGED <<asyncStatus, bad, alive, copying, toClient, pc, op, query, last, chunks,
                     lookups, rs, sent, call, ended, reported>>
  BY DEF ServerTakes, ServerUnchanged, libpqVars, driverVars, IInv, Turn, TypeOK
<1>2. /\ toServer' \in Seq(Messages) /\ Len(toServer) \in Nat /\ Len(toServer') = Len(toServer) - 1
      /\ Head(toServer) = toServer[1] /\ 1 \in 1..Len(toServer) /\ toServer[1] \in Messages
      /\ \A i \in 1..Len(toServer') : i + 1 \in 1..Len(toServer) /\ toServer'[i] = toServer[i + 1]
  BY <1>1, Shortened DEF IInv, TypeOK
<1>3. NoneUnread /\ NoneUnread'
  BY <1>1 DEF IInv, CopyUnread, NoneUnread
<1>4. CASE ~IsQuery(toServer[1])
  <2>1. UNCHANGED <<serving, rest>>
    BY <1>2, <1>4 DEF ServerTakes, IsQuery
  <2>2. Asked' <=> Asked
    <3>1. Asked' => Asked
      BY <1>2 DEF Asked
    <3>2. ASSUME NEW i \in 1..Len(toServer), IsQuery(toServer[i]) PROVE Asked'
      <4>1. i - 1 \in 1..Len(toServer') /\ i = (i - 1) + 1
        BY <1>2, <1>4, <3>2
      <4>2. toServer'[i - 1] = toServer[i]
        BY <1>2, <4>1
      <4> QED BY <3>2, <4>1, <4>2 DEF Asked, IsQuery
    <3> QED BY <3>1, <3>2 DEF Asked
  <2>3. TypeOK'
    BY <1>1, <1>2, <2>1 DEF IInv, TypeOK
  <2>4. OwnQuery'
    <3> SUFFICES ASSUME NEW i \in 1..Len(toServer'), IsQuery(toServer'[i])
                 PROVE  /\ i = Len(toServer') /\ toServer'[i].id = sent
                        /\ toServer'[i].statements = query
                        /\ serving = 0 /\ toClient = <<>> /\ pc = "finish" /\ last = NULL
      BY <1>1, <2>1 DEF OwnQuery, IsQuery
    <3>1. i + 1 \in 1..Len(toServer) /\ toServer'[i] = toServer[i + 1]
      BY <1>2
    <3>2. IsQuery(toServer[i + 1])
      BY <3>1
    <3> QED BY <1>2, <3>1, <3>2 DEF IInv, OwnQuery
  <2>5. Turn'
    BY <1>1, <2>1, <2>2 DEF IInv, Turn, Idle
  <2>6. CopyUnread'
    BY <1>3 DEF CopyUnread, NoneUnread
  <2>7. DeadIsDone' /\ BadIsDead' /\ OwnAnswers' /\ ServerCopies' /\ LateData' /\ EndedCopy'
    BY <1>1, <2>1 DEF IInv, DeadIsDone, BadIsDead, OwnAnswers, ServerCopies, LateData, EndedCopy
  <2>8. ClientCopies'
    BY <1>1, <1>3, <2>1 DEF IInv, ClientCopies
  <2>9. Calling'
    <3>1. pc = "finish" => Asked
      BY <1>1 DEF IInv, Calling
    <3> QED BY <1>1, <2>1, <2>2, <3>1 DEF IInv, Calling, Idle
  <2>10. LookingUp' /\ ReportIsTrue'
    BY <1>1, <2>1 DEF IInv, LookingUp, AtLookup, Idle, ReportIsTrue
  <2> QED BY <2>3, <2>4, <2>5, <2>6, <2>7, <2>8, <2>9, <2>10 DEF IInv
<1>5. CASE IsQuery(toServer[1])
  <2>1. /\ Len(toServer) = 1 /\ toServer[1].id = sent /\ toServer[1].statements = query
        /\ toClient = <<>> /\ pc = "finish" /\ last = NULL
    BY <1>2, <1>5 DEF IInv, OwnQuery
  <2>2. /\ serving' = sent /\ rest' = query /\ sent > 0 /\ sent \in 0..MaxQueries
    <3>1. toServer[1].id \in 1..MaxQueries
      BY <1>2, <1>5 DEF Messages, IsQuery
    <3> QED BY <1>2, <1>5, <2>1, <3>1, BoundsAssumption DEF ServerTakes, IsQuery
  <2>3. toServer' = <<>>
    BY <1>2, <2>1
  <2>4. asyncStatus = "BUSY" /\ query # <<>> /\ ~bad /\ (ended = FALSE)
    BY <1>1, <2>1 DEF IInv, Calling, EndedCopy, TypeOK
  <2>5. TypeOK'
    BY <1>1, <1>2, <2>2 DEF IInv, TypeOK
  <2>6. DeadIsDone' /\ BadIsDead'
    BY <1>1 DEF IInv, DeadIsDone, BadIsDead
  <2>12. OwnAnswers'
    BY <1>1, <2>1 DEF OwnAnswers
  <2>13. OwnQuery'
    BY <2>3 DEF OwnQuery
  <2>11. ServerCopies' /\ LateData' /\ EndedCopy'
    BY <1>1, <2>1, <2>3, <2>4 DEF ServerCopies, LateData, EndedCopy
  <2>7. Turn'
    BY <1>1, <2>1, <2>2, <2>4 DEF Turn, Idle
  <2>8. CopyUnread' /\ ClientCopies'
    BY <1>1, <2>1, <2>4 DEF CopyUnread, ClientCopies
  <2>9. Calling'
    BY <1>1, <2>1, <2>2, <2>3, <2>4 DEF IInv, Calling, Idle
  <2>10. LookingUp' /\ ReportIsTrue'
    BY <1>1, <2>1, <2>2 DEF IInv, LookingUp, AtLookup, Idle, ReportIsTrue
  <2> QED BY <2>5, <2>6, <2>7, <2>8, <2>9, <2>10, <2>11, <2>12, <2>13 DEF IInv
<1> QED BY <1>4, <1>5

LEMMA ServerReceivesDataKeeps ==
  ASSUME IInv, ServerReceivesData
  PROVE  IInv'
<1>1. /\ alive /\ copying /\ toServer # <<>> /\ Head(toServer).type = "CopyData"
      /\ toServer' = Tail(toServer) /\ serving > 0
      /\ UNCHANGED <<asyncStatus, bad, alive, serving, rest, copying, toClient, pc, op, query,
                     last, chunks, lookups, rs, sent, call, ended, reported>>
  BY DEF ServerReceivesData, ServerUnchanged, libpqVars, driverVars, IInv, Turn, TypeOK
<1>2. /\ toServer' \in Seq(Messages) /\ Len(toServer) \in Nat /\ Len(toServer') = Len(toServer) - 1
      /\ Head(toServer) = toServer[1] /\ 1 \in 1..Len(toServer)
      /\ \A i \in 1..Len(toServer') : i + 1 \in 1..Len(toServer) /\ toServer'[i] = toServer[i + 1]
  BY <1>1, Shortened DEF IInv, TypeOK
<1>3. ~Asked /\ ~Asked'
  <2>1. ~Asked
    BY <1>1 DEF IInv, OwnQuery, Asked
  <2> QED BY <1>2, <2>1 DEF Asked
<1>4. TypeOK'
  BY <1>1, <1>2 DEF IInv, TypeOK
<1>5. OwnQuery'
  BY <1>3 DEF OwnQuery, Asked
<1>6. DeadIsDone' /\ BadIsDead' /\ OwnAnswers' /\ LateData' /\ EndedCopy' /\ ReportIsTrue'
  BY <1>1 DEF IInv, DeadIsDone, BadIsDead, OwnAnswers, LateData, EndedCopy, ReportIsTrue
<1>7. Turn'
  BY <1>1, <1>3 DEF IInv, Turn, Idle
<1>8. CopyUnread'
  BY <1>1 DEF IInv, CopyUnread
<1>9. ClientCopies'
  BY <1>1, <1>2 DEF IInv, ClientCopies
<1>10. ServerCopies'
  <2>1. CASE toClient # <<>> \/ asyncStatus = "COPY_IN"
    BY <1>1, <2>1 DEF IInv, ServerCopies
  <2>2. CASE toClient = <<>> /\ asyncStatus # "COPY_IN"
    <3>1. /\ toClient = <<>> /\ asyncStatus = "BUSY" /\ toServer # <<>>
          /\ toServer[Len(toServer)].type \in {"CopyDone", "CopyFail"}
          /\ \A i \in 1..Len(toServer) - 1 : toServer[i].type = "CopyData"
          /\ toServer[Len(toServer)].type = "CopyDone" => ended
      BY <1>1, <2>2 DEF IInv, ServerCopies
    <3>2. Len(toServer) # 1
      BY <1>1, <1>2, <3>1
    <3>3. Len(toServer') \in 1..Len(toServer')
      BY <1>2, <3>2
    <3>4. toServer'[Len(toServer')] = toServer[Len(toServer)] /\ toServer' # <<>>
      BY <1>2, <3>3
    <3>5. ASSUME NEW i \in 1..Len(toServer') - 1 PROVE toServer'[i].type = "CopyData"
      <4>1. i + 1 \in 1..Len(toServer) - 1 /\ i \in 1..Len(toServer')
        BY <1>2
      <4> QED BY <1>2, <3>1, <4>1
    <3> QED BY <1>1, <3>1, <3>4, <3>5 DEF ServerCopies
  <2> QED BY <2>1, <2>2
<1>11. Calling'
  <2>1. pc # "finish"
    BY <1>1, <1>3 DEF IInv, Calling
  <2> QED BY <1>1, <2>1 DEF IInv, Calling, Idle
<1>12. LookingUp'
  BY <1>1 DEF IInv, LookingUp, AtLookup, Idle
<1> QED BY <1>4, <1>5, <1>6, <1>7, <1>8, <1>9, <1>10, <1>11, <1>12 DEF IInv

LEMMA ServerReadyKeeps ==
  ASSUME IInv, ServerReady
  PROVE  IInv'
<1>1. /\ alive /\ serving > 0 /\ serving = sent /\ copying = FALSE /\ rest = <<>> /\ serving' = 0
      /\ UNCHANGED <<asyncStatus, bad, toServer, alive, rest, copying, pc, op, query, last, chunks,
                     lookups, rs, sent, call, ended, reported>>
  BY DEF ServerReady, ServerUnchanged, libpqVars, driverVars, IInv, Turn, TypeOK
<1> DEFINE m == Reply("READY", "none")
<1>2. m \in Replies /\ m.status = "READY" /\ m.fate = "none" /\ m.query = sent
  BY <1>1, Replied DEF Fates
<1>3. toClient' = Append(toClient, m)
  BY DEF ServerReady
<1> HIDE DEF m
<1>4. /\ toClient' \in Seq(Replies) /\ toClient' # <<>> /\ Len(toClient') = Len(toClient) + 1
      /\ Len(toClient) \in Nat /\ toClient'[Len(toClient')] = m
      /\ \A i \in 1..Len(toClient) : toClient'[i] = toClient[i]
      /\ OwnAnswers'
  BY <1>1, <1>2, <1>3, Joined
<1>5. TypeOK'
  <2>1. /\ serving' \in 0..MaxQueries /\ rest' \in Seq(Kinds) /\ copying' \in BOOLEAN
        /\ alive' \in BOOLEAN
    BY <1>1, BoundsAssumption DEF IInv, TypeOK
  <2> QED BY <1>1, <1>4, <2>1 DEF IInv, TypeOK
<1>6. /\ DeadIsDone' /\ BadIsDead' /\ ServerCopies' /\ LateData' /\ ReportIsTrue'
  BY <1>1 DEF IInv, DeadIsDone, BadIsDead, ServerCopies, LateData, ReportIsTrue
<1>7. OwnQuery'
  BY <1>1 DEF IInv, OwnQuery
<1>8. Turn'
  <2>1. ~Idle
    BY <1>1 DEF IInv, Turn
  <2> QED BY <1>1, <1>2, <1>4, <2>1 DEF Turn, Idle
<1>9. \A i \in 1..Len(toClient') : i \in 1..Len(toClient) \/ toClient'[i] = m
  BY <1>4
<1>10. CopyUnread'
  <2> SUFFICES ASSUME NEW i \in 1..Len(toClient'), toClient'[i].status = "COPY_IN"
               PROVE  /\ toServer = <<>> /\ i < Len(toClient')
                      /\ toClient'[i + 1].fate = "rejected"
                      /\ \A j \in i + 1..Len(toClient') : toClient'[j].status # "COPY_IN"
    BY <1>1, <1>4 DEF CopyUnread
  <2>1. i \in 1..Len(toClient) /\ toClient[i].status = "COPY_IN"
    BY <1>2, <1>4, <1>9
  <2>2. /\ toServer = <<>> /\ i < Len(toClient) /\ toClient[i + 1].fate = "rejected"
        /\ \A j \in i + 1..Len(toClient) : toClient[j].status # "COPY_IN"
    BY <1>1, <1>4, <2>1 DEF IInv, CopyUnread
  <2>3. i + 1 \in 1..Len(toClient)
    BY <1>4, <2>1, <2>2
  <2>4. \A j \in i + 1..Len(toClient') : j \in i + 1..Len(toClient) \/ j = Len(toClient')
    BY <1>4, <2>1
  <2>5. \A j \in i + 1..Len(toClient) : j \in 1..Len(toClient)
    BY <2>1
  <2> QED BY <1>2, <1>4, <2>2, <2>3, <2>4, <2>5
<1>11. toClient # <<>> => toClient'[1] = toClient[1]
  BY <1>4
<1>12. ClientCopies'
  BY <1>1, <1>2, <1>4, <1>9, <1>11 DEF IInv, ClientCopies, NoneUnread
<1>13. EndedCopy'
  BY <1>1, <1>4, <1>11 DEF IInv, EndedCopy
<1>14. Calling'
  <2>1. ~Asked /\ ~Asked'
    BY <1>1 DEF IInv, OwnQuery, Asked
  <2>2. pc = "finish" /\ last = NULL => toClient # <<>>
    BY <1>1, <2>1 DEF IInv, Calling
  <2> QED BY <1>1, <1>4, <1>11, <2>1, <2>2 DEF IInv, Calling, Idle
<1>15. LookingUp'
  <2>1. LookingUp /\ (AtLookup' <=> AtLookup)
    BY <1>1 DEF IInv, AtLookup
  <2> QED BY <1>1, <1>2, <1>4, <1>9, <2>1 DEF LookingUp, Idle
<1> QED
  BY <1>4, <1>5, <1>6, <1>7, <1>8, <1>10, <1>12, <1>13, <1>14, <1>15 DEF IInv

LEMMA ServerDiesKeeps ==
  ASSUME IInv, ServerDies
  PROVE  IInv'
<1>1. /\ alive' = FALSE /\ toServer' = <<>> /\ serving' = 0 /\ rest' = <<>> /\ copying' = FALSE
      /\ alive /\ ~bad
      /\ UNCHANGED <<asyncStatus, bad, pc, op, query, last, chunks, lookups, rs, sent, call, ended,
                     reported>>
  BY DEF ServerDies, ServerUnchanged, libpqVars, driverVars, IInv, BadIsDead
<1>2. toClient \in Seq(Replies)
  BY DEF IInv, TypeOK
<1>3. PICK n \in 0..Len(toClient) : toClient' = SubSeq(toClient, 1, n)
  BY DEF ServerDies
<1>4. /\ toClient' \in Seq(Replies) /\ Len(toClient') = n /\ n \in Nat /\ Len(toClient) \in Nat
      /\ \A i \in 1..n : i \in 1..Len(toClient) /\ toClient'[i] = toClient[i]
  BY <1>2, <1>3, Prefix
<1>5. TypeOK'
  <2>1. serving' \in 0..MaxQueries /\ copying' \in BOOLEAN /\ alive' \in BOOLEAN
    <3>1. 0 \in 0..MaxQueries
      BY BoundsAssumption
    <3> QED BY <1>1, <3>1
  <2>2. rest' \in Seq(Kinds) /\ toServer' \in Seq(Messages)
    <3>1. <<>> \in Seq(Kinds) /\ <<>> \in Seq(Messages)
      OBVIOUS
    <3> QED BY <1>1, <3>1
  <2> QED BY <1>1, <1>4, <2>1, <2>2 DEF IInv, TypeOK
<1>6. /\ DeadIsDone' /\ BadIsDead' /\ ServerCopies' /\ LateData' /\ ReportIsTrue' /\ EndedCopy'
      /\ ClientCopies' /\ OwnQuery'
  BY <1>1 DEF DeadIsDone, BadIsDead, ServerCopies, LateData, ReportIsTrue, EndedCopy, ClientCopies,
              OwnQuery
<1>7. OwnAnswers'
  <2> SUFFICES ASSUME NEW i \in 1..n
               PROVE  /\ toClient'[i].query = sent
                      /\ toClient'[i].status = "READY" => i = n
                      /\ toClient'[i].fate = "stored" => toClient'[i].status = "COMMAND_OK"
                      /\ toClient'[i].fate = "rejected" => toClient'[i].status = "FATAL_ERROR"
    BY <1>1, <1>4 DEF OwnAnswers
  <2>1. i \in 1..Len(toClient) /\ toClient'[i] = toClient[i]
    BY <1>4
  <2>2. toClient[i].status = "READY" => i = n
    BY <1>4, <2>1 DEF IInv, OwnAnswers
  <2> QED BY <2>1, <2>2 DEF IInv, OwnAnswers
<1>8. Turn'
  <2>1. toClient = <<>> => toClient' = <<>>
    BY <1>4
  <2> QED BY <1>1, <2>1 DEF IInv, Turn, Idle
<1>9. CopyUnread'
  <2> SUFFICES ASSUME NEW i \in 1..n, toClient'[i].status = "COPY_IN"
               PROVE  /\ i < n => toClient'[i + 1].fate = "rejected"
                      /\ \A j \in i + 1..n : toClient'[j].status # "COPY_IN"
    BY <1>1, <1>4 DEF CopyUnread
  <2>1. i \in 1..Len(toClient) /\ toClient[i].status = "COPY_IN"
    BY <1>4
  <2>2. /\ i < Len(toClient) => toClient[i + 1].fate = "rejected"
        /\ \A j \in i + 1..Len(toClient) : toClient[j].status # "COPY_IN"
    BY <2>1 DEF IInv, CopyUnread
  <2>3. \A j \in i + 1..n : j \in i + 1..Len(toClient) /\ j \in 1..n
    BY <1>4
  <2>4. i < n => i < Len(toClient) /\ i + 1 \in 1..n
    BY <1>4
  <2> QED BY <1>4, <2>2, <2>3, <2>4
<1>10. Calling'
  <2>1. toClient' # <<>> => toClient # <<>> /\ toClient'[1] = toClient[1]
    BY <1>2, <1>4
  <2> QED BY <1>1, <2>1 DEF IInv, Calling, Idle
<1>11. LookingUp'
  <2>1. LookingUp /\ (AtLookup' <=> AtLookup)
    BY <1>1 DEF IInv, AtLookup
  <2> QED BY <1>1, <1>4, <2>1 DEF LookingUp, Idle
<1> QED BY <1>5, <1>6, <1>7, <1>8, <1>9, <1>10, <1>11 DEF IInv

-----------------------------------------------------------------------------
(* What libpq reads. *)

\* The part of the invariant about the connection and its two streams.
Streams ==
  /\ DeadIsDone /\ BadIsDead /\ OwnAnswers /\ OwnQuery /\ Turn
  /\ CopyUnread /\ ClientCopies /\ ServerCopies /\ LateData /\ EndedCopy

LEMMA Recombined == TypeOK' /\ Streams' /\ Calling' /\ LookingUp' /\ ReportIsTrue' => IInv'
BY DEF IInv, Streams

\* What a wait for a result can come to.
ReadsNothing == asyncStatus = "IDLE" /\ PQgetResult = NULL /\ StatusAfter = "IDLE"
                /\ UNCHANGED <<toClient, bad>>
ReadsCopyState ==
  /\ asyncStatus \in {"COPY_IN", "COPY_OUT"} /\ UNCHANGED <<toClient, bad>>
  /\ PQgetResult # NULL /\ PQgetResult \in Results
  /\ PQgetResult.query = sent /\ PQgetResult.fate = "none"
  /\ ~bad => PQgetResult.status = asyncStatus /\ StatusAfter = asyncStatus
  /\ bad => PQgetResult.status = "FATAL_ERROR" /\ StatusAfter = "IDLE"
ReadsEnd ==
  /\ asyncStatus = "BUSY" /\ toClient = <<>> /\ ~alive
  /\ bad' = TRUE /\ UNCHANGED toClient /\ StatusAfter = "IDLE"
  /\ PQgetResult # NULL /\ PQgetResult \in Results
  /\ PQgetResult.status = "FATAL_ERROR" /\ PQgetResult.query = sent /\ PQgetResult.fate = "none"
ReadsReady ==
  /\ asyncStatus = "BUSY" /\ toClient # <<>> /\ toClient[1].status = "READY"
  /\ toClient' = <<>> /\ toClient' = Tail(toClient) /\ UNCHANGED bad
  /\ PQgetResult = NULL /\ StatusAfter = "IDLE"
  /\ serving = 0 /\ toClient[1].fate = "none"
ReadsAnswer ==
  /\ asyncStatus = "BUSY" /\ toClient # <<>> /\ toClient[1].status # "READY"
  /\ toClient' = Tail(toClient) /\ UNCHANGED bad
  /\ PQgetResult = toClient[1] /\ PQgetResult # NULL /\ PQgetResult \in Results
  /\ PQgetResult.query = sent
  /\ bad => StatusAfter = "IDLE"
  /\ ~bad => StatusAfter = IF PQgetResult.status \in {"COPY_IN", "COPY_OUT"}
                             THEN PQgetResult.status ELSE "BUSY"

LEMMA Received ==
  ASSUME IInv, Receive
  PROVE  ReadsNothing \/ ReadsCopyState \/ ReadsEnd \/ ReadsReady \/ ReadsAnswer
<1>1. /\ toClient \in Seq(Replies) /\ asyncStatus \in {"IDLE", "BUSY", "COPY_IN", "COPY_OUT"}
      /\ sent \in 0..MaxQueries /\ bad \in BOOLEAN /\ alive \in BOOLEAN
  BY DEF IInv, TypeOK
<1>2. CASE asyncStatus = "IDLE"
  BY <1>1, <1>2 DEF Receive, PQgetResult, StatusAfter, ReadsNothing
<1>3. CASE asyncStatus \in {"COPY_IN", "COPY_OUT"}
  <2> DEFINE r == [status |-> IF bad THEN "FATAL_ERROR" ELSE asyncStatus, query |-> sent,
                   fate |-> "none"]
  <2>1. PQgetResult = r
    BY <1>1, <1>3 DEF PQgetResult
  <2>2. r \in Results /\ r # NULL
    BY <1>1, <1>3, NullAssumption DEF Results, Statuses, Fates
  <2>3. StatusAfter = IF bad THEN "IDLE" ELSE asyncStatus
    BY <1>1, <1>3, <2>1, <2>2 DEF StatusAfter
  <2>4. toClient' = toClient /\ bad' = bad
    BY <1>1, <1>3 DEF Receive
  <2> QED BY <1>1, <1>3, <2>1, <2>2, <2>3, <2>4 DEF ReadsCopyState
<1>4. CASE asyncStatus = "BUSY" /\ toClient = <<>>
  <2> DEFINE r == [status |-> "FATAL_ERROR", query |-> sent, fate |-> "none"]
  <2>1. PQgetResult = r
    BY <1>4 DEF PQgetResult
  <2>2. r \in Results /\ r # NULL
    BY <1>1, NullAssumption DEF Results, Statuses, Fates
  <2>3. StatusAfter = "IDLE"
    BY <1>4 DEF StatusAfter
  <2>4. toClient' = toClient /\ bad' = TRUE /\ ~alive
    BY <1>1, <1>4 DEF Receive, GetResultReady
  <2> QED BY <1>4, <2>1, <2>2, <2>3, <2>4 DEF ReadsEnd
<1>5. CASE asyncStatus = "BUSY" /\ toClient # <<>>
  <2>1. /\ Head(toClient) = toClient[1] /\ toClient[1] \in Replies /\ 1 \in 1..Len(toClient)
        /\ Len(Tail(toClient)) = Len(toClient) - 1 /\ Tail(toClient) \in Seq(Replies)
    BY <1>1, <1>5, Shortened
  <2>2. /\ toClient[1].query = sent
        /\ toClient[1].status = "READY" => Len(toClient) = 1 /\ toClient[1].fate = "none"
    BY <2>1 DEF IInv, OwnAnswers, Replies, Fates
  <2>3. toClient' = Tail(toClient) /\ bad' = bad
    BY <1>1, <1>5 DEF Receive
  <2>4. toClient[1] # NULL
    BY <2>1, NullAssumption
  <2>5. CASE toClient[1].status = "READY"
    <3>1. PQgetResult = NULL /\ StatusAfter = "IDLE"
      BY <1>5, <2>1, <2>5 DEF PQgetResult, StatusAfter
    <3>2. serving = 0
      BY <1>1, <2>1, <2>5 DEF IInv, Turn, TypeOK
    <3>3. Tail(toClient) = <<>>
      <4>1. Len(toClient) = 1
        BY <2>2, <2>5
      <4>2. Len(Tail(toClient)) = 0 /\ Tail(toClient) \in Seq(Replies)
        BY <2>1, <4>1
      <4> QED BY <4>2, Empty
    <3> QED BY <1>5, <2>2, <2>3, <2>5, <3>1, <3>2, <3>3 DEF ReadsReady
  <2>6. CASE toClient[1].status # "READY"
    <3>1. PQgetResult = toClient[1]
      BY <1>5, <2>1, <2>6 DEF PQgetResult
    <3>2. toClient[1] \in Results
      BY <1>1, <2>1, <2>6, BoundsAssumption DEF Replies, Results
    <3>3. StatusAfter = IF bad THEN "IDLE"
                        ELSE IF toClient[1].status \in {"COPY_IN", "COPY_OUT"}
                               THEN toClient[1].status ELSE "BUSY"
      BY <1>5, <2>4, <3>1 DEF StatusAfter
    <3> QED BY <1>5, <2>2, <2>3, <2>4, <2>6, <3>1, <3>2, <3>3 DEF ReadsAnswer
  <2> QED BY <2>5, <2>6
<1> QED BY <1>1, <1>2, <1>3, <1>4, <1>5

\* Outside PQexecFinish no string is under way.
LEMMA NoneAsked == IInv /\ pc # "finish" => ~Asked
BY DEF IInv, OwnQuery, Asked

\* The next answer is taken off the stream.
LEMMA AnswersLeft ==
  ASSUME IInv, toClient # <<>>, toClient' = Tail(toClient),
         UNCHANGED <<alive, rest, copying, sent>>
  PROVE  /\ toClient' \in Seq(Replies) /\ Len(toClient) \in Nat /\ Len(toClient') = Len(toClient) - 1
         /\ \A i \in 1..Len(toClient') : i + 1 \in 1..Len(toClient) /\ toClient'[i] = toClient[i + 1]
         /\ toClient' # <<>> => toClient'[Len(toClient')] = toClient[Len(toClient)]
         /\ OwnAnswers' /\ (UNCHANGED toServer => CopyUnread') /\ (NoneUnread => NoneUnread')
<1>1. /\ toClient' \in Seq(Replies) /\ Len(toClient) \in Nat /\ Len(toClient') = Len(toClient) - 1
      /\ Len(toClient) > 0
      /\ \A i \in 1..Len(toClient') : i + 1 \in 1..Len(toClient) /\ toClient'[i] = toClient[i + 1]
  BY Shortened DEF IInv, TypeOK
<1>2. toClient' # <<>> => toClient'[Len(toClient')] = toClient[Len(toClient)]
  <2>1. toClient' # <<>> => Len(toClient') \in 1..Len(toClient')
    BY <1>1
  <2> QED BY <1>1, <2>1
<1>3. OwnAnswers'
  <2> SUFFICES ASSUME NEW i \in 1..Len(toClient')
               PROVE  /\ toClient'[i].query = sent
                      /\ toClient'[i].status = "READY" => i = Len(toClient')
                      /\ toClient'[i].fate = "stored" => toClient'[i].status = "COMMAND_OK"
                      /\ toClient'[i].fate = "rejected" => toClient'[i].status = "FATAL_ERROR"
    BY DEF OwnAnswers
  <2>1. i + 1 \in 1..Len(toClient) /\ toClient'[i] = toClient[i + 1]
    BY <1>1
  <2>2. /\ toClient[i + 1].query = sent
        /\ toClient[i + 1].status = "READY" => i + 1 = Len(toClient)
        /\ toClient[i + 1].fate = "stored" => toClient[i + 1].status = "COMMAND_OK"
        /\ toClient[i + 1].fate = "rejected" => toClient[i + 1].status = "FATAL_ERROR"
    BY <2>1 DEF IInv, OwnAnswers
  <2>3. i + 1 = Len(toClient) => i = Len(toClient')
    BY Shortened DEF IInv, TypeOK
  <2> QED BY <2>1, <2>2, <2>3
<1>4. UNCHANGED toServer => CopyUnread'
  <2> SUFFICES ASSUME UNCHANGED toServer,
                      NEW i \in 1..Len(toClient'), toClient'[i].status = "COPY_IN"
               PROVE  /\ toServer = <<>>
                      /\ i = Len(toClient') => (alive => copying)
                      /\ i < Len(toClient') => ~copying /\ rest = <<>> /\ toClient'[i + 1].fate = "rejected"
                      /\ \A j \in i + 1..Len(toClient') : toClient'[j].status # "COPY_IN"
    BY DEF CopyUnread
  <2>1. i + 1 \in 1..Len(toClient) /\ toClient[i + 1].status = "COPY_IN"
    BY <1>1
  <2>2. /\ toServer = <<>>
        /\ i + 1 = Len(toClient) => (alive => copying)
        /\ i + 1 < Len(toClient) => ~copying /\ rest = <<>> /\ toClient[i + 1 + 1].fate = "rejected"
        /\ \A j \in i + 1 + 1..Len(toClient) : toClient[j].status # "COPY_IN"
    BY <2>1 DEF IInv, CopyUnread
  <2>3. \A j \in i + 1..Len(toClient') : j \in 1..Len(toClient') /\ j + 1 \in i + 1 + 1..Len(toClient)
    BY <1>1
  <2>4. i < Len(toClient') => i + 1 \in 1..Len(toClient') /\ i + 1 < Len(toClient)
    BY <1>1
  <2>5. toServer = <<>> /\ (i = Len(toClient') => (alive => copying))
    <3>1. i = Len(toClient') => i + 1 = Len(toClient)
      BY Shortened DEF IInv, TypeOK
    <3> QED BY <2>2, <3>1
  <2>6. i < Len(toClient') => ~copying /\ rest = <<>> /\ toClient'[i + 1].fate = "rejected"
    <3>1. i < Len(toClient') => toClient'[i + 1] = toClient[i + 1 + 1]
      BY <1>1, <2>4
    <3> QED BY <2>2, <2>4, <3>1
  <2>7. \A j \in i + 1..Len(toClient') : toClient'[j].status # "COPY_IN"
    <3>1. \A j \in i + 1..Len(toClient') : toClient'[j] = toClient[j + 1]
      BY <1>1, <2>3
    <3> QED BY <2>2, <2>3, <3>1
  <2> QED BY <2>5, <2>6, <2>7
<1>5. NoneUnread => NoneUnread'
  BY <1>1 DEF NoneUnread
<1> QED BY <1>1, <1>2, <1>3, <1>4, <1>5

\* A call that does not touch the connection, or drops what a COPY TO leaves.
LEMMA NothingRead ==
  ASSUME IInv, pc # "finish", pc' # "finish",
         ended' = ended \/ (ended' = FALSE /\ asyncStatus # "BUSY"),
         asyncStatus' = asyncStatus \/ (asyncStatus = "COPY_OUT" /\ asyncStatus' = "BUSY"),
         UNCHANGED <<bad, toServer, toClient, alive, serving, rest, copying, sent>>
  PROVE  Streams'
<1>1. ~Asked /\ ~Asked'
  BY NoneAsked DEF Asked, IsQuery
<1>2. OwnQuery'
  BY <1>1 DEF OwnQuery, Asked
<1>3. DeadIsDone' /\ BadIsDead' /\ OwnAnswers' /\ CopyUnread' /\ LateData'
  BY DEF IInv, DeadIsDone, BadIsDead, OwnAnswers, CopyUnread, LateData, NoneUnread
<1>4. Turn'
  BY <1>1 DEF IInv, Turn, Idle
<1>5. ClientCopies' /\ EndedCopy'
  BY DEF IInv, ClientCopies, EndedCopy, NoneUnread
<1>6. ServerCopies'
  <2>1. CASE asyncStatus = "BUSY"
    BY <2>1 DEF IInv, ServerCopies
  <2>2. CASE asyncStatus # "BUSY"
    BY <2>2 DEF IInv, ServerCopies
  <2> QED BY <2>1, <2>2
<1> QED BY <1>2, <1>3, <1>4, <1>5, <1>6 DEF Streams

\* A call on a connection whose backend is gone.
LEMMA CutOff ==
  ASSUME IInv, ~alive, UNCHANGED <<toServer, alive, serving, rest, copying, sent>>,
         toClient' = toClient \/ (toClient # <<>> /\ toClient' = Tail(toClient)),
         asyncStatus' = "IDLE" => bad' \/ toClient' = <<>>
  PROVE  Streams' /\ toClient' \in Seq(Replies)
<1>1. toServer = <<>> /\ serving = 0 /\ rest = <<>> /\ ~copying
  BY DEF IInv, DeadIsDone
<1>2. OwnAnswers' /\ CopyUnread' /\ toClient' \in Seq(Replies)
  <2>1. CASE toClient' = toClient
    BY <2>1 DEF IInv, TypeOK, OwnAnswers, CopyUnread
  <2>2. CASE toClient # <<>> /\ toClient' = Tail(toClient)
    BY <2>2, AnswersLeft
  <2> QED BY <2>1, <2>2
<1>3. DeadIsDone' /\ BadIsDead'
  BY <1>1 DEF DeadIsDone, BadIsDead
<1>4. OwnQuery'
  BY <1>1 DEF OwnQuery
<1>5. Turn'
  BY <1>1 DEF Turn, Idle
<1>6. ClientCopies' /\ ServerCopies' /\ LateData' /\ EndedCopy'
  BY <1>1 DEF ClientCopies, ServerCopies, LateData, EndedCopy
<1> QED BY <1>2, <1>3, <1>4, <1>5, <1>6 DEF Streams

\* An answer is read; if it is that of a COPY FROM, the client is to copy.
LEMMA AnswerRead ==
  ASSUME IInv, asyncStatus = "BUSY", toClient # <<>>, toClient[1].status # "READY",
         toClient' = Tail(toClient),
         UNCHANGED <<bad, toServer, alive, serving, rest, copying, sent>>,
         alive /\ toClient[1].status = "COPY_IN" <=> alive /\ asyncStatus' = "COPY_IN",
         asyncStatus' = "IDLE" => bad, ended' => ~alive
  PROVE  Streams'
<1>1. /\ Len(toClient) \in Nat /\ Len(toClient') = Len(toClient) - 1
      /\ toClient' \in Seq(Replies) /\ toClient \in Seq(Replies)
      /\ \A i \in 1..Len(toClient') : i + 1 \in 1..Len(toClient) /\ toClient'[i] = toClient[i + 1]
      /\ toClient' # <<>> => toClient'[Len(toClient')] = toClient[Len(toClient)]
      /\ OwnAnswers' /\ CopyUnread' /\ (NoneUnread => NoneUnread')
  BY AnswersLeft DEF IInv, TypeOK
<1>2. 1 \in 1..Len(toClient)
  BY <1>1
<1>3. ~Asked /\ ~Asked'
  BY DEF IInv, OwnQuery, Asked, IsQuery
<1>4. toClient' = <<>> <=> Len(toClient) = 1
  <2>1. toClient' = <<>> <=> Len(toClient') = 0
    BY <1>1, Empty
  <2> QED BY <1>1, <2>1
<1>5. bad => ~alive
  BY DEF IInv, BadIsDead
<1>6. DeadIsDone' /\ BadIsDead'
  BY DEF IInv, DeadIsDone, BadIsDead
<1>7. OwnQuery'
  BY <1>3 DEF OwnQuery, Asked
<1>8. Turn'
  <2>1. serving \in {0, sent} /\ (serving = 0 => rest = <<>> /\ ~copying)
    BY DEF IInv, Turn
  <2>2. serving > 0 => ~Idle' /\ \A i \in 1..Len(toClient') : toClient'[i].status # "READY"
    <3>1. serving > 0 => alive
      BY DEF IInv, DeadIsDone
    <3>2. serving > 0 => \A i \in 1..Len(toClient) : toClient[i].status # "READY"
      BY DEF IInv, Turn
    <3> QED BY <1>1, <1>5, <3>1, <3>2 DEF Idle
  <2>3. Idle' /\ ~bad' => toClient' = <<>>
    BY DEF Idle
  <2>4. alive /\ serving = 0 => toClient[Len(toClient)].status = "READY"
    BY <1>3 DEF IInv, Turn, Idle
  <2>5. alive /\ serving = 0 => toClient' # <<>> /\ toClient'[Len(toClient')].status = "READY"
    BY <1>1, <1>4, <2>4
  <2> QED BY <2>1, <2>2, <2>3, <2>5 DEF Turn
<1>9. ClientCopies'
  <2> SUFFICES ASSUME alive, toClient[1].status = "COPY_IN"
               PROVE  \/ copying /\ toClient' = <<>> /\ toServer = <<>>
                      \/ /\ ~copying /\ rest = <<>> /\ toClient' # <<>>
                         /\ toClient'[1].fate = "rejected" /\ NoneUnread'
    BY DEF ClientCopies
  <2>1. /\ toServer = <<>>
        /\ 1 = Len(toClient) => copying
        /\ 1 < Len(toClient) => ~copying /\ rest = <<>> /\ toClient[1 + 1].fate = "rejected"
        /\ \A j \in 1 + 1..Len(toClient) : toClient[j].status # "COPY_IN"
    BY <1>2 DEF IInv, CopyUnread
  <2>2. CASE Len(toClient) = 1
    BY <1>1, <2>1, <2>2
  <2>3. CASE Len(toClient) > 1
    <3>1. \A i \in 1..Len(toClient') : i + 1 \in 1 + 1..Len(toClient)
      BY <1>1
    <3>2. 1 \in 1..Len(toClient')
      BY <1>1, <2>3
    <3>3. NoneUnread'
      BY <1>1, <2>1, <3>1 DEF NoneUnread
    <3>4. toClient'[1].fate = "rejected" /\ toClient' # <<>>
      BY <1>1, <1>4, <2>1, <2>3, <3>2
    <3> QED BY <2>1, <2>3, <3>3, <3>4
  <2> QED BY <1>1, <1>2, <2>2, <2>3
<1>10. ServerCopies'
  <2> SUFFICES ASSUME copying
               PROVE  \/ toClient' # <<>> /\ toClient'[Len(toClient')].status = "COPY_IN"
                      \/ toClient' = <<>> /\ asyncStatus' = "COPY_IN"
    BY DEF ServerCopies
  <2>1. alive
    BY DEF IInv, DeadIsDone
  <2>2. toClient[Len(toClient)].status = "COPY_IN"
    BY DEF IInv, ServerCopies
  <2> QED BY <1>1, <1>4, <2>1, <2>2
<1>11. LateData' /\ EndedCopy'
  BY <1>1 DEF IInv, LateData, EndedCopy
<1> QED BY <1>1, <1>6, <1>7, <1>8, <1>9, <1>10, <1>11 DEF Streams

\* ReadyForQuery is read: both sides are idle.
LEMMA ReadyRead ==
  ASSUME IInv, ReadsReady, asyncStatus' = "IDLE", ended' => ~alive,
         UNCHANGED <<toServer, alive, serving, rest, copying, sent>>
  PROVE  Streams'
<1>1. serving = 0 /\ rest = <<>> /\ ~copying /\ toClient' = <<>> /\ toClient # <<>> /\ UNCHANGED bad
  BY DEF IInv, Turn, ReadsReady
<1>2. ~Asked'
  BY <1>1 DEF IInv, OwnQuery, Asked, IsQuery
<1>3. DeadIsDone' /\ BadIsDead'
  BY <1>1 DEF IInv, DeadIsDone, BadIsDead
<1>4. OwnAnswers' /\ CopyUnread'
  BY <1>1 DEF OwnAnswers, CopyUnread
<1>5. OwnQuery'
  BY <1>2 DEF OwnQuery, Asked
<1>6. Turn'
  BY <1>1 DEF Turn, Idle
<1>7. ClientCopies' /\ ServerCopies' /\ LateData' /\ EndedCopy'
  BY <1>1 DEF ClientCopies, ServerCopies, LateData, EndedCopy
<1> QED BY <1>3, <1>4, <1>5, <1>6, <1>7 DEF Streams

-----------------------------------------------------------------------------
(* Calls that leave the connection alone. *)

LEMMA EnterKeeps ==
  ASSUME IInv, NEW e \in {"exec", "params", "pqexec"}, NEW q \in Queries,
         Enter(e, q), rs' = rs \/ rs' = NULL
  PROVE  IInv'
<1>1. /\ pc = "idle" /\ pc' = "start" /\ op' = e /\ query' = q /\ sent < MaxQueries
      /\ call' = [ran |-> FALSE, outcome |-> "none"] /\ reported' = NoReport
      /\ UNCHANGED <<asyncStatus, bad, toServer, toClient, alive, serving, rest, copying,
                     last, chunks, lookups, sent, ended>>
  BY DEF Enter, libpqVars, channelVars, serverVars
<1>2. q \in Seq(Kinds) /\ q # <<>>
  BY QueriesAssumption
<1>3. Streams'
  BY <1>1, NothingRead
<1>4. TypeOK'
  BY <1>1, <1>2 DEF IInv, TypeOK, NoReport, Fates
<1>5. Calling' /\ LookingUp'
  BY <1>1, <1>2 DEF Calling, LookingUp, AtLookup
<1>6. ReportIsTrue'
  BY <1>1 DEF ReportIsTrue, NoReport
<1> QED BY <1>3, <1>4, <1>5, <1>6, Recombined

\* A call that stays in R, or only comes back from libpq.
OnlyR ==
  /\ pc \in {"idle", "return", "map"} /\ pc' \in {"idle", "crashed", "map", "copy"}
  /\ UNCHANGED <<asyncStatus, bad, toServer, toClient, alive, serving, rest, copying,
                 op, query, last, sent, ended, reported>>

LEMMA OnlyRKeeps ==
  ASSUME IInv, OnlyR, chunks' \in 0..MaxChunks, lookups' \in 0..MaxQueries,
         rs' \in ResultSets \cup {NULL},
         call' \in [ran : BOOLEAN, outcome : {"none", "ok", "error", "refused"}],
         pc' = "map" => (Idle \/ ~alive) /\ sent + lookups' <= MaxQueries /\ rs' # NULL
  PROVE  IInv'
<1>1. Streams'
  BY NothingRead DEF OnlyR
<1>2. TypeOK'
  BY DEF IInv, TypeOK, OnlyR
<1>3. Calling' /\ LookingUp'
  BY DEF Calling, LookingUp, AtLookup, OnlyR, Idle
<1>4. ReportIsTrue'
  BY DEF IInv, ReportIsTrue, OnlyR
<1> QED BY <1>1, <1>2, <1>3, <1>4, Recombined

LEMMA RCallsKeep ==
  ASSUME IInv,
         \/ ExecRefused \/ Fetch \/ ClearResult \/ InfoOfNullStatement
         \/ \E n \in 0..MaxChunks : CopyIn(n)
  PROVE  IInv'
<1> USE DEF libpqVars, channelVars, serverVars, driverVars, historyVars, OnlyResultSet
<1>0. /\ chunks \in 0..MaxChunks /\ lookups \in 0..MaxQueries /\ rs \in ResultSets \cup {NULL}
      /\ call \in [ran : BOOLEAN, outcome : {"none", "ok", "error", "refused"}]
  BY DEF IInv, TypeOK
<1>1. CASE ExecRefused
  <2>1. /\ pc = "idle" /\ call' = [ran |-> FALSE, outcome |-> "refused"]
        /\ UNCHANGED <<asyncStatus, bad, toServer, toClient, alive, serving, rest, copying, pc,
                       op, query, last, chunks, lookups, rs, sent, ended, reported>>
    BY <1>1 DEF ExecRefused
  <2>2. OnlyR /\ call' \in [ran : BOOLEAN, outcome : {"none", "ok", "error", "refused"}]
    BY <2>1 DEF OnlyR
  <2> QED BY <1>0, <2>1, <2>2, OnlyRKeeps
<1>2. CASE Fetch
  <2>1. rs' \in ResultSets
    BY <1>0, <1>2 DEF Fetch, Pending, ResultSets
  <2>2. OnlyR /\ pc' # "map" /\ UNCHANGED <<chunks, lookups, call>>
    BY <1>2 DEF Fetch, OnlyR
  <2> QED BY <1>0, <2>1, <2>2, OnlyRKeeps
<1>3. CASE ClearResult
  <2>1. OnlyR /\ pc' # "map" /\ UNCHANGED <<chunks, lookups, call>> /\ rs' = NULL
    BY <1>3 DEF ClearResult, OnlyR
  <2> QED BY <1>0, <2>1, OnlyRKeeps
<1>4. CASE InfoOfNullStatement
  <2>1. OnlyR /\ pc' # "map" /\ UNCHANGED <<chunks, lookups, call, rs>>
    BY <1>4 DEF InfoOfNullStatement, OnlyR
  <2> QED BY <1>0, <2>1, OnlyRKeeps
<1>5. CASE \E n \in 0..MaxChunks : CopyIn(n)
  <2>1. /\ OnlyR /\ pc' # "map" /\ chunks' \in 0..MaxChunks /\ UNCHANGED <<lookups, rs>>
        /\ call' = [ran |-> FALSE, outcome |-> "none"]
    BY <1>5 DEF CopyIn, OnlyR
  <2>2. call' \in [ran : BOOLEAN, outcome : {"none", "ok", "error", "refused"}]
    BY <2>1
  <2> QED BY <1>0, <2>1, <2>2, OnlyRKeeps
<1> QED BY <1>1, <1>2, <1>3, <1>4, <1>5

\* What a call ends with.
LEMMA Finished ==
  ASSUME IInv, NEW outcome \in {"ok", "error", "refused"}, Finish(outcome)
  PROVE  /\ pc' = "idle"
         /\ call' \in [ran : BOOLEAN, outcome : {"none", "ok", "error", "refused"}]
BY DEF IInv, TypeOK, Finish

LEMMA ReturnsKeep ==
  ASSUME IInv, ReturnError \/ ReturnCleared \/ ReturnLookup \/ ReturnWrapped \/ ReturnRefused
  PROVE  IInv'
<1> USE DEF libpqVars, channelVars, serverVars
<1>0. /\ chunks \in 0..MaxChunks /\ lookups \in 0..MaxQueries /\ rs \in ResultSets \cup {NULL}
      /\ call \in [ran : BOOLEAN, outcome : {"none", "ok", "error", "refused"}]
      /\ sent \in 0..MaxQueries
  BY DEF IInv, TypeOK
<1>1. /\ pc = "return"
      /\ UNCHANGED <<asyncStatus, bad, toServer, toClient, alive, serving, rest, copying,
                     op, query, last, chunks, sent, ended, reported>>
  BY DEF ReturnError, ReturnCleared, ReturnLookup, ReturnWrapped, ReturnRefused, Wrap, Returning
<1>2. Idle \/ ~alive \/ last.status \in {"COPY_IN", "COPY_OUT"}
  BY <1>1 DEF IInv, Calling
<1>3. CASE ReturnError \/ ReturnCleared \/ ReturnRefused
  <2>1. UNCHANGED <<lookups, rs>> /\ (Finish("ok") \/ Finish("error") \/ Finish("refused"))
    BY <1>3 DEF ReturnError, ReturnCleared, ReturnRefused
  <2>2. /\ pc' = "idle"
        /\ call' \in [ran : BOOLEAN, outcome : {"none", "ok", "error", "refused"}]
    BY <2>1, Finished
  <2>3. OnlyR
    BY <1>1, <2>2 DEF OnlyR
  <2> QED BY <1>0, <1>1, <2>1, <2>2, <2>3, OnlyRKeeps
<1>4. CASE ReturnLookup
  <2>1. op = "lookup" /\ pc' = "map" /\ UNCHANGED <<lookups, rs, call>>
    BY <1>4 DEF ReturnLookup
  <2>2. rs # NULL /\ sent + lookups <= MaxQueries /\ last.status \notin {"COPY_IN", "COPY_OUT"}
    BY <1>1, <2>1 DEF IInv, LookingUp, AtLookup
  <2>3. OnlyR
    BY <1>1, <2>1 DEF OnlyR
  <2> QED BY <1>0, <1>1, <1>2, <2>1, <2>2, <2>3, OnlyRKeeps
<1>5. CASE ReturnWrapped
  <2>1. CASE last.status = "TUPLES_OK"
    <3>1. /\ rs' = ResultSet(0, TRUE) /\ pc' = "map" /\ lookups' \in 0..MaxQueries - sent
          /\ UNCHANGED call
      BY <1>5, <2>1 DEF ReturnWrapped, Wrap
    <3>2. rs' \in ResultSets /\ rs' # NULL
      <4>1. rs' \in ResultSets
        BY <3>1 DEF ResultSet, ResultSets
      <4> QED BY <4>1, NullAssumption
    <3>3. lookups' \in 0..MaxQueries /\ sent + lookups' <= MaxQueries
      <4>1. sent \in Nat /\ MaxQueries \in Nat /\ lookups' \in 0..MaxQueries - sent
        BY <1>0, <3>1, BoundsAssumption
      <4> QED BY <4>1, Within
    <3>4. OnlyR /\ (Idle \/ ~alive)
      BY <1>1, <1>2, <2>1, <3>1 DEF OnlyR
    <3> QED BY <1>0, <1>1, <3>1, <3>2, <3>3, <3>4, OnlyRKeeps
  <2>2. CASE last.status # "TUPLES_OK"
    <3>1. rs' = ResultSet(1, TRUE) /\ Finish("ok") /\ UNCHANGED lookups
      BY <1>5, <2>2 DEF ReturnWrapped, Wrap
    <3>2. /\ pc' = "idle"
          /\ call' \in [ran : BOOLEAN, outcome : {"none", "ok", "error", "refused"}]
      BY <3>1, Finished
    <3>3. rs' \in ResultSets
      BY <3>1 DEF ResultSet, ResultSets
    <3>4. OnlyR
      BY <1>1, <3>2 DEF OnlyR
    <3> QED BY <1>0, <1>1, <3>1, <3>2, <3>3, <3>4, OnlyRKeeps
  <2> QED BY <2>1, <2>2
<1> QED BY <1>3, <1>4, <1>5

LEMMA MappingKeeps ==
  ASSUME IInv, MapLooksUp \/ MapDone \/ MapAborts
  PROVE  IInv'
<1> USE DEF libpqVars, channelVars, serverVars
<1>0. /\ chunks \in 0..MaxChunks /\ lookups \in 0..MaxQueries /\ rs \in ResultSets \cup {NULL}
      /\ call \in [ran : BOOLEAN, outcome : {"none", "ok", "error", "refused"}]
      /\ sent \in 0..MaxQueries
  BY DEF IInv, TypeOK
<1>1. /\ pc = "map"
      /\ UNCHANGED <<asyncStatus, bad, toServer, toClient, alive, serving, rest, copying,
                     last, chunks, sent, ended, reported>>
  BY DEF MapLooksUp, MapDone, MapAborts, Mapping
<1>2. (Idle \/ ~alive) /\ sent + lookups <= MaxQueries /\ rs # NULL
  BY <1>1 DEF IInv, Calling
<1>3. CASE MapLooksUp
  <2>1. /\ lookups > 0 /\ lookups' = lookups - 1 /\ pc' = "start" /\ op' = "lookup"
        /\ query' = <<"select">> /\ UNCHANGED <<rs, call>>
    BY <1>3 DEF MapLooksUp
  <2>2. lookups' \in 0..MaxQueries /\ sent < MaxQueries /\ sent + lookups' < MaxQueries
    BY <1>0, <1>2, <2>1, BoundsAssumption
  <2>3. query' \in Seq(Kinds) /\ query' # <<>>
    BY <2>1 DEF Kinds
  <2>4. Streams'
    BY <1>1, <2>1, NothingRead
  <2>5. TypeOK'
    BY <1>1, <2>1, <2>2, <2>3 DEF IInv, TypeOK
  <2>6. Calling'
    BY <1>1, <2>1, <2>2, <2>3 DEF Calling
  <2>8. LookingUp'
    <3>1. sent' + lookups' < MaxQueries /\ sent' + lookups' <= MaxQueries
      BY <1>0, <1>1, <1>2, <2>1, BoundsAssumption
    <3>2. rs' # NULL /\ (Idle' \/ ~alive')
      BY <1>1, <1>2, <2>1 DEF Idle
    <3> QED BY <2>1, <3>1, <3>2 DEF LookingUp
  <2>7. ReportIsTrue'
    BY <1>1 DEF IInv, ReportIsTrue
  <2> QED BY <2>4, <2>5, <2>6, <2>7, <2>8, Recombined
<1>4. CASE MapDone \/ MapAborts
  <2>1. /\ UNCHANGED <<op, query, lookups>> /\ (Finish("ok") \/ Finish("error"))
        /\ rs' = rs \/ rs' = [rs EXCEPT !.fields = TRUE]
    BY <1>4 DEF MapDone, MapAborts
  <2>2. /\ pc' = "idle"
        /\ call' \in [ran : BOOLEAN, outcome : {"none", "ok", "error", "refused"}]
    BY <2>1, Finished
  <2>3. rs' \in ResultSets
    BY <1>0, <1>2, <2>1 DEF ResultSets
  <2>4. OnlyR
    BY <1>1, <2>1, <2>2 DEF OnlyR
  <2> QED BY <1>0, <1>1, <2>1, <2>2, <2>3, <2>4, OnlyRKeeps
<1> QED BY <1>3, <1>4

LEMMA GetResultKeeps ==
  ASSUME IInv, GetResult
  PROVE  IInv'
<1>1. /\ pc = "idle" /\ pc' = "getResult" /\ rs' = NULL
      /\ call' = [ran |-> FALSE, outcome |-> "none"]
      /\ UNCHANGED <<asyncStatus, bad, toServer, toClient, alive, serving, rest, copying,
                     op, query, last, chunks, lookups, sent, ended, reported>>
  BY DEF GetResult, libpqVars, channelVars, serverVars
<1>2. Streams'
  BY <1>1, NothingRead
<1>3. TypeOK'
  BY <1>1 DEF IInv, TypeOK
<1>4. Calling' /\ LookingUp'
  BY <1>1 DEF Calling, LookingUp, AtLookup
<1>5. ReportIsTrue'
  BY <1>1 DEF IInv, ReportIsTrue
<1> QED BY <1>2, <1>3, <1>4, <1>5, Recombined

-----------------------------------------------------------------------------
(* PQexecStart and PQsendQuery. *)

\* What PQexecStart discards: one of the three cases with a result.
LEMMA Discarded ==
  ASSUME IInv, NEW result \in Results, Discards(result)
  PROVE  /\ pc = "start" /\ result = PQgetResult /\ ~Asked
         /\ ReadsCopyState \/ ReadsEnd \/ ReadsAnswer
         /\ AtLookup => ~alive
<1>1. pc = "start" /\ result = PQgetResult /\ PQgetResult # NULL /\ Receive
  BY DEF Discards
<1>2. ReadsCopyState \/ ReadsEnd \/ ReadsAnswer
  BY <1>1, Received DEF ReadsNothing, ReadsReady
<1>3. ~Asked
  BY <1>1, NoneAsked
<1>4. ~Idle
  BY <1>2 DEF ReadsCopyState, ReadsEnd, ReadsAnswer, Idle
<1>5. AtLookup => ~alive
  BY <1>1, <1>4 DEF IInv, LookingUp
<1> QED BY <1>1, <1>2, <1>3, <1>5

\* What leaves a call of PQexec that fails.
LEMMA ExecLeft ==
  ASSUME IInv, pc = "start", ~alive',
         IF op = "lookup" THEN pc' = "map" /\ UNCHANGED call ELSE Finish("error"),
         UNCHANGED <<op, lookups, rs, sent>>
  PROVE  /\ pc' \in {"map", "idle"}
         /\ call' \in [ran : BOOLEAN, outcome : {"none", "ok", "error", "refused"}]
         /\ Calling' /\ LookingUp'
<1>1. CASE op = "lookup"
  <2>1. pc' = "map" /\ UNCHANGED call
    BY <1>1
  <2>2. rs # NULL /\ sent + lookups <= MaxQueries
    BY <1>1 DEF IInv, LookingUp, AtLookup
  <2>3. call \in [ran : BOOLEAN, outcome : {"none", "ok", "error", "refused"}]
    BY DEF IInv, TypeOK
  <2> QED BY <2>1, <2>2, <2>3 DEF Calling, LookingUp
<1>2. CASE op # "lookup"
  <2>1. /\ pc' = "idle"
        /\ call' \in [ran : BOOLEAN, outcome : {"none", "ok", "error", "refused"}]
    BY <1>2, Finished
  <2> QED BY <2>1 DEF Calling, LookingUp, AtLookup
<1> QED BY <1>1, <1>2

\* Where libpq stands after it read of a COPY FROM: the server copies, or the
\* news that it failed comes next.
CopyInRead ==
  \/ /\ copying /\ toClient' = <<>>
     /\ \A i \in 1..Len(toServer) : toServer[i].type = "CopyData"
  \/ /\ ~copying /\ rest = <<>> /\ toClient' # <<>> /\ toClient'[1].fate = "rejected"
     /\ NoneUnread'

LEMMA CopyingKnown ==
  ASSUME IInv, alive, asyncStatus = "COPY_IN", UNCHANGED <<toClient, sent, bad>>
  PROVE  CopyInRead /\ toClient' \in Seq(Replies) /\ OwnAnswers' /\ ~ended
<1>1. CopyInRead
  BY DEF IInv, ClientCopies, CopyInRead, NoneUnread
<1>2. toClient' \in Seq(Replies) /\ OwnAnswers' /\ ~ended
  BY DEF IInv, TypeOK, OwnAnswers, EndedCopy
<1> QED BY <1>1, <1>2

LEMMA CopyInAnswered ==
  ASSUME IInv, alive, ReadsAnswer, PQgetResult.status = "COPY_IN",
         UNCHANGED <<alive, serving, rest, copying, sent>>
  PROVE  CopyInRead /\ toClient' \in Seq(Replies) /\ OwnAnswers' /\ ~ended
<1>1. /\ asyncStatus = "BUSY" /\ toClient # <<>> /\ toClient[1].status = "COPY_IN"
      /\ toClient' = Tail(toClient) /\ UNCHANGED bad
  BY DEF ReadsAnswer
<1>2. /\ Len(toClient) \in Nat /\ Len(toClient') = Len(toClient) - 1 /\ Len(toClient) > 0
      /\ toClient' \in Seq(Replies) /\ OwnAnswers'
      /\ \A i \in 1..Len(toClient') : i + 1 \in 1..Len(toClient) /\ toClient'[i] = toClient[i + 1]
  BY <1>1, AnswersLeft
<1>3. 1 \in 1..Len(toClient) /\ toClient[1] \in Replies
  BY <1>1, <1>2, Shortened DEF IInv, TypeOK
<1>4. ~ended
  <2>1. toClient[1].fate = "none"
    BY <1>1, <1>3 DEF IInv, OwnAnswers, Replies, Fates
  <2> QED BY <1>1, <2>1 DEF IInv, EndedCopy
<1>5. /\ toServer = <<>>
      /\ 1 = Len(toClient) => copying
      /\ 1 < Len(toClient) => ~copying /\ rest = <<>> /\ toClient[1 + 1].fate = "rejected"
      /\ \A j \in 1 + 1..Len(toClient) : toClient[j].status # "COPY_IN"
  BY <1>1, <1>3 DEF IInv, CopyUnread
<1>6. toClient' = <<>> <=> Len(toClient) = 1
  <2>1. toClient' = <<>> <=> Len(toClient') = 0
    BY <1>2, Empty
  <2> QED BY <1>2, <2>1
<1>7. CASE Len(toClient) = 1
  <2>1. copying /\ toClient' = <<>>
    BY <1>5, <1>6, <1>7
  <2>2. \A i \in 1..Len(toServer) : toServer[i].type = "CopyData"
    BY <1>5
  <2> QED BY <1>2, <1>4, <2>1, <2>2 DEF CopyInRead
<1>8. CASE Len(toClient) # 1
  <2>1. 1 < Len(toClient) /\ 1 \in 1..Len(toClient')
    BY <1>2, <1>8
  <2>2. NoneUnread'
    <3>1. \A i \in 1..Len(toClient') : i + 1 \in 1 + 1..Len(toClient)
      BY <1>2
    <3> QED BY <1>2, <1>5, <3>1 DEF NoneUnread
  <2>3. toClient'[1].fate = "rejected" /\ ~copying /\ rest = <<>>
    BY <1>2, <1>5, <2>1
  <2>4. toClient' # <<>>
    BY <1>6, <1>8
  <2> QED BY <1>2, <1>4, <2>2, <2>3, <2>4 DEF CopyInRead
<1> QED BY <1>2, <1>4, <1>7, <1>8

\* A message of a COPY goes to a living server.
LEMMA CopySent ==
  ASSUME IInv, alive, pc # "finish", pc' # "finish", ~Idle,
         CopyInRead, toClient' \in Seq(Replies), OwnAnswers',
         toClient' = toClient \/ (toClient # <<>> /\ toClient' = Tail(toClient)),
         NEW type \in {"CopyData", "CopyDone", "CopyFail"},
         toServer' = Append(toServer, [type |-> type]),
         asyncStatus' = IF type = "CopyData" THEN "COPY_IN" ELSE "BUSY",
         ended' <=> type = "CopyDone",
         UNCHANGED <<bad, alive, serving, rest, copying, sent>>
  PROVE  Streams' /\ toServer' \in Seq(Messages)
<1> DEFINE m == [type |-> type]
<1>1. m \in Messages /\ m.type = type /\ toServer \in Seq(Messages)
  BY DEF Messages, IInv, TypeOK
<1>2. toServer' = Append(toServer, m)
  OBVIOUS
<1> HIDE DEF m
<1>3. /\ toServer' \in Seq(Messages) /\ toServer' # <<>> /\ Len(toServer') = Len(toServer) + 1
      /\ Len(toServer) \in Nat /\ toServer'[Len(toServer')] = m
      /\ \A i \in 1..Len(toServer) : toServer'[i] = toServer[i]
  BY <1>1, <1>2, Appended
<1>4. \A i \in 1..Len(toServer') : i \in 1..Len(toServer) \/ toServer'[i] = m
  BY <1>3
<1>5. ~Asked /\ ~Asked'
  <2>1. ~Asked
    BY NoneAsked
  <2> QED BY <1>1, <1>3, <1>4, <2>1 DEF Asked, IsQuery
<1>6. DeadIsDone' /\ BadIsDead'
  BY DEF IInv, DeadIsDone, BadIsDead
<1>7. OwnQuery'
  BY <1>5 DEF OwnQuery, Asked
<1>8. Turn'
  <2>1. serving \in {0, sent} /\ (serving = 0 => rest = <<>> /\ ~copying)
    BY DEF IInv, Turn
  <2>2. serving > 0 => \A i \in 1..Len(toClient') : toClient'[i].status # "READY"
    <3>1. serving > 0 => \A i \in 1..Len(toClient) : toClient[i].status # "READY"
      BY DEF IInv, Turn
    <3>2. toClient' = toClient \/ \A i \in 1..Len(toClient') :
                                    i + 1 \in 1..Len(toClient) /\ toClient'[i] = toClient[i + 1]
      BY AnswersLeft
    <3> QED BY <3>1, <3>2
  <2>3. alive /\ serving = 0 => toClient # <<>> /\ toClient[Len(toClient)].status = "READY"
    BY <1>5 DEF IInv, Turn
  <2>4. serving = 0 => toClient' # <<>>
    BY <2>1 DEF CopyInRead
  <2>5. serving = 0 => toClient'[Len(toClient')].status = "READY"
    <3>1. CASE toClient' = toClient
      BY <2>3, <3>1
    <3>2. CASE toClient # <<>> /\ toClient' = Tail(toClient)
      <4>1. toClient' # <<>> => toClient'[Len(toClient')] = toClient[Len(toClient)]
        BY <3>2, AnswersLeft
      <4> QED BY <2>3, <2>4, <4>1
    <3> QED BY <3>1, <3>2
  <2> QED BY <2>1, <2>2, <2>4, <2>5 DEF Turn, Idle
<1>9. CopyUnread'
  BY DEF CopyInRead, CopyUnread, NoneUnread
<1>10. ClientCopies'
  BY <1>1, <1>3, <1>4 DEF CopyInRead, ClientCopies, NoneUnread
<1>11. ServerCopies'
  <2> SUFFICES ASSUME copying
               PROVE  \/ toClient' = <<>> /\ asyncStatus' = "COPY_IN"
                      \/ /\ toClient' = <<>> /\ asyncStatus' = "BUSY"
                         /\ toServer'[Len(toServer')].type \in {"CopyDone", "CopyFail"}
                         /\ \A i \in 1..Len(toServer') - 1 : toServer'[i].type = "CopyData"
                         /\ toServer'[Len(toServer')].type = "CopyDone" => ended'
    BY <1>3 DEF ServerCopies
  <2>1. toClient' = <<>> /\ \A i \in 1..Len(toServer) : toServer[i].type = "CopyData"
    BY DEF CopyInRead
  <2>2. \A i \in 1..Len(toServer') - 1 : toServer'[i].type = "CopyData"
    <3>1. \A i \in 1..Len(toServer') - 1 : i \in 1..Len(toServer)
      BY <1>3
    <3> QED BY <1>3, <2>1, <3>1
  <2> QED BY <1>1, <1>3, <2>1, <2>2
<1>12. LateData' /\ EndedCopy'
  BY DEF CopyInRead, LateData, EndedCopy, NoneUnread
<1> QED BY <1>3, <1>6, <1>7, <1>8, <1>9, <1>10, <1>11, <1>12 DEF Streams

LEMMA DrainCopyInKeeps ==
  ASSUME IInv, DrainCopyIn
  PROVE  IInv'
<1>1. PICK result \in Results : Discards(result) /\ result.status = "COPY_IN"
  BY DEF DrainCopyIn
<1>2. /\ pc = "start" /\ result = PQgetResult /\ ~Asked /\ (AtLookup => ~alive)
      /\ ReadsCopyState \/ ReadsEnd \/ ReadsAnswer
  BY <1>1, Discarded
<1>3. /\ asyncStatus' = "BUSY" /\ Send([type |-> "CopyFail"])
      /\ UNCHANGED <<alive, serving, rest, copying, pc, op, query, last, chunks, lookups, rs, sent,
                     call, ended, reported>>
  BY DEF DrainCopyIn, serverVars, driverVars, historyVars
<1>4. PQgetResult.status = "COPY_IN"
  BY <1>1, <1>2
<1>5. \/ ReadsCopyState /\ ~bad /\ asyncStatus = "COPY_IN" /\ UNCHANGED <<toClient, bad>>
      \/ ReadsAnswer /\ toClient # <<>> /\ toClient' = Tail(toClient) /\ UNCHANGED bad
  BY <1>2, <1>4 DEF ReadsCopyState, ReadsEnd, ReadsAnswer
<1>6. Streams' /\ toServer' \in Seq(Messages) /\ toClient' \in Seq(Replies)
  <2>1. CASE alive
    <3>1. CopyInRead /\ toClient' \in Seq(Replies) /\ OwnAnswers' /\ ~ended
      <4>1. CASE ReadsCopyState /\ ~bad /\ asyncStatus = "COPY_IN" /\ UNCHANGED <<toClient, bad>>
        BY <1>3, <2>1, <4>1, CopyingKnown
      <4>2. CASE ReadsAnswer
        BY <1>3, <1>4, <2>1, <4>2, CopyInAnswered
      <4> QED BY <1>5, <4>1, <4>2
    <3>2. toServer' = Append(toServer, [type |-> "CopyFail"])
      BY <1>3, <2>1 DEF Send
    <3>3. ~Idle
      BY <1>5 DEF ReadsCopyState, ReadsAnswer, Idle
    <3> QED BY <1>2, <1>3, <1>5, <2>1, <3>1, <3>2, <3>3, CopySent
  <2>2. CASE ~alive
    <3>1. UNCHANGED toServer
      BY <1>3, <2>2 DEF Send
    <3>2. toServer' \in Seq(Messages)
      BY <3>1 DEF IInv, TypeOK
    <3>3. Streams' /\ toClient' \in Seq(Replies)
      BY <1>3, <1>5, <2>2, <3>1, CutOff
    <3> QED BY <3>2, <3>3
  <2> QED BY <2>1, <2>2
<1>7. TypeOK'
  BY <1>3, <1>5, <1>6 DEF IInv, TypeOK
<1>8. Calling' /\ LookingUp'
  <2>1. Calling'
    BY <1>2, <1>3 DEF IInv, Calling
  <2>2. LookingUp'
    BY <1>2, <1>3 DEF IInv, LookingUp, AtLookup
  <2> QED BY <2>1, <2>2
<1>9. ReportIsTrue'
  BY <1>3 DEF IInv, ReportIsTrue
<1> QED BY <1>6, <1>7, <1>8, <1>9, Recombined

LEMMA DrainCopyInFailsKeeps ==
  ASSUME IInv, DrainCopyInFails
  PROVE  IInv'
<1>1. PICK result \in Results : Discards(result) /\ result.status = "COPY_IN"
  BY DEF DrainCopyInFails
<1>2. /\ pc = "start" /\ result = PQgetResult
      /\ ReadsCopyState \/ ReadsEnd \/ ReadsAnswer
  BY <1>1, Discarded
<1>3. /\ ~alive /\ asyncStatus' \in {"COPY_IN", "BUSY"}
      /\ IF op = "lookup" THEN pc' = "map" /\ UNCHANGED call ELSE Finish("error")
      /\ UNCHANGED <<toServer, alive, serving, rest, copying, op, query, last, chunks, lookups, rs,
                     sent, ended, reported>>
  BY DEF DrainCopyInFails, serverVars
<1>4. /\ toClient' = toClient \/ (toClient # <<>> /\ toClient' = Tail(toClient))
      /\ bad' \in BOOLEAN
  BY <1>2 DEF ReadsCopyState, ReadsEnd, ReadsAnswer, IInv, TypeOK
<1>5. Streams' /\ toClient' \in Seq(Replies)
  BY <1>3, <1>4, CutOff
<1>6. /\ pc' \in {"map", "idle"}
      /\ call' \in [ran : BOOLEAN, outcome : {"none", "ok", "error", "refused"}]
      /\ Calling' /\ LookingUp'
  BY <1>2, <1>3, ExecLeft
<1>8. TypeOK'
  BY <1>3, <1>4, <1>5, <1>6 DEF IInv, TypeOK
<1>9. ReportIsTrue'
  BY <1>3 DEF IInv, ReportIsTrue
<1> QED BY <1>5, <1>6, <1>8, <1>9, Recombined

LEMMA DrainCopyOutKeeps ==
  ASSUME IInv, DrainCopyOut
  PROVE  IInv'
<1>1. PICK result \in Results : Discards(result) /\ result.status = "COPY_OUT"
  BY DEF DrainCopyOut
<1>2. /\ pc = "start" /\ result = PQgetResult /\ ~Asked /\ (AtLookup => ~alive)
      /\ ReadsCopyState \/ ReadsEnd \/ ReadsAnswer
  BY <1>1, Discarded
<1>3. /\ asyncStatus' = "BUSY"
      /\ UNCHANGED <<toServer, alive, serving, rest, copying, pc, op, query, last, chunks, lookups,
                     rs, sent, call, ended, reported>>
  BY DEF DrainCopyOut, serverVars, driverVars, historyVars
<1>4. PQgetResult.status = "COPY_OUT"
  BY <1>1, <1>2
<1>5. Streams' /\ toClient' \in Seq(Replies) /\ UNCHANGED bad
  <2>1. CASE ReadsCopyState
    <3>1. asyncStatus = "COPY_OUT" /\ UNCHANGED <<toClient, bad>>
      BY <1>4, <2>1 DEF ReadsCopyState
    <3>2. Streams'
      BY <1>2, <1>3, <3>1, NothingRead
    <3> QED BY <3>1, <3>2 DEF IInv, TypeOK
  <2>2. CASE ReadsAnswer
    <3>1. /\ asyncStatus = "BUSY" /\ toClient # <<>> /\ toClient[1].status = "COPY_OUT"
          /\ toClient' = Tail(toClient) /\ UNCHANGED bad
      BY <1>4, <2>2 DEF ReadsAnswer
    <3>2. toClient[1].fate = "none"
      <4>1. 1 \in 1..Len(toClient) /\ toClient[1] \in Replies
        BY <3>1, Shortened DEF IInv, TypeOK
      <4> QED BY <3>1, <4>1 DEF IInv, OwnAnswers, Replies, Fates
    <3>3. ended => ~alive
      BY <3>1, <3>2 DEF IInv, EndedCopy
    <3>4. Streams'
      BY <1>3, <3>1, <3>3, AnswerRead
    <3>5. toClient' \in Seq(Replies)
      BY <1>3, <3>1, AnswersLeft
    <3> QED BY <3>1, <3>4, <3>5
  <2> QED BY <1>2, <1>4, <2>1, <2>2 DEF ReadsEnd
<1>6. TypeOK'
  BY <1>3, <1>5 DEF IInv, TypeOK
<1>7. Calling'
  BY <1>2, <1>3 DEF IInv, Calling
<1>8. LookingUp'
  BY <1>2, <1>3 DEF IInv, LookingUp, AtLookup
<1>9. ReportIsTrue'
  BY <1>3 DEF IInv, ReportIsTrue
<1> QED BY <1>5, <1>6, <1>7, <1>8, <1>9, Recombined

LEMMA DrainResultKeeps ==
  ASSUME IInv, DrainResult
  PROVE  IInv'
<1>1. PICK result \in Results : Discards(result) /\ result.status \notin {"COPY_IN", "COPY_OUT"}
  BY DEF DrainResult
<1>2. /\ pc = "start" /\ result = PQgetResult /\ ~Asked /\ (AtLookup => ~alive)
      /\ ReadsCopyState \/ ReadsEnd \/ ReadsAnswer
  BY <1>1, Discarded
<1>3. /\ asyncStatus' = StatusAfter /\ ended' = FALSE
      /\ IF bad' THEN IF op = "lookup" THEN pc' = "map" /\ UNCHANGED call ELSE Finish("error")
         ELSE UNCHANGED <<pc, call>>
      /\ UNCHANGED <<toServer, alive, serving, rest, copying, op, query, last, chunks, lookups,
                     rs, sent, reported>>
  BY DEF DrainResult, serverVars
<1>4. PQgetResult.status \notin {"COPY_IN", "COPY_OUT"}
  BY <1>1, <1>2
<1>5. /\ Streams' /\ toClient' \in Seq(Replies) /\ bad' \in BOOLEAN
      /\ asyncStatus' \in {"IDLE", "BUSY"}
  <2>0. toClient \in Seq(Replies) /\ bad \in BOOLEAN
    BY DEF IInv, TypeOK
  <2>1. CASE ReadsCopyState
    <3>1. bad /\ asyncStatus' = "IDLE" /\ UNCHANGED <<toClient, bad>>
      BY <1>3, <1>4, <2>1 DEF ReadsCopyState
    <3>2. ~alive
      BY <3>1 DEF IInv, BadIsDead
    <3>3. Streams'
      BY <1>3, <3>1, <3>2, CutOff
    <3> QED BY <2>0, <3>1, <3>3
  <2>2. CASE ReadsEnd
    <3>1. ~alive /\ bad' = TRUE /\ asyncStatus' = "IDLE" /\ UNCHANGED toClient
      BY <1>3, <2>2 DEF ReadsEnd
    <3>2. Streams'
      BY <1>3, <3>1, CutOff
    <3> QED BY <2>0, <3>1, <3>2
  <2>3. CASE ReadsAnswer
    <3>1. /\ asyncStatus = "BUSY" /\ toClient # <<>> /\ toClient[1].status # "READY"
          /\ toClient[1].status # "COPY_IN"
          /\ toClient' = Tail(toClient) /\ UNCHANGED bad
          /\ asyncStatus' = IF bad THEN "IDLE" ELSE "BUSY"
      BY <1>3, <1>4, <2>3 DEF ReadsAnswer
    <3>2. Streams'
      BY <1>3, <3>1, AnswerRead
    <3>3. toClient' \in Seq(Replies)
      BY <1>3, <3>1, AnswersLeft
    <3> QED BY <2>0, <3>1, <3>2, <3>3
  <2> QED BY <1>2, <2>1, <2>2, <2>3
<1>6. /\ pc' \in {"start", "map", "idle"}
      /\ call' \in [ran : BOOLEAN, outcome : {"none", "ok", "error", "refused"}]
      /\ Calling' /\ LookingUp'
  <2>1. CASE bad'
    <3>1. ~alive'
      BY <1>5, <2>1 DEF Streams, BadIsDead
    <3>2. /\ pc' \in {"map", "idle"}
          /\ call' \in [ran : BOOLEAN, outcome : {"none", "ok", "error", "refused"}]
          /\ Calling' /\ LookingUp'
      BY <1>2, <1>3, <2>1, <3>1, ExecLeft
    <3> QED BY <3>2
  <2>2. CASE ~bad'
    <3>1. UNCHANGED <<pc, call>>
      BY <1>3, <2>2
    <3>2. Calling'
      BY <1>2, <1>3, <3>1 DEF IInv, Calling
    <3>3. LookingUp'
      BY <1>2, <1>3, <3>1 DEF IInv, LookingUp, AtLookup
    <3> QED BY <1>2, <3>1, <3>2, <3>3 DEF IInv, TypeOK
  <2> QED BY <2>1, <2>2
<1>7. TypeOK'
  <2>1. /\ serving' \in 0..MaxQueries /\ rest' \in Seq(Kinds) /\ toServer' \in Seq(Messages)
        /\ alive' \in BOOLEAN /\ copying' \in BOOLEAN
    BY <1>3, <1>5 DEF IInv, TypeOK
  <2>2. /\ op' \in {"none", "exec", "params", "pqexec", "lookup"}
        /\ query' \in Seq(Kinds) /\ last' \in Results \cup {NULL} /\ chunks' \in 0..MaxChunks
        /\ lookups' \in 0..MaxQueries /\ rs' \in ResultSets \cup {NULL} /\ sent' \in 0..MaxQueries
        /\ ended' \in BOOLEAN /\ reported' \in [says : {"none", "ok", "failed"}, fate : Fates]
    BY <1>3 DEF IInv, TypeOK
  <2> QED BY <1>5, <1>6, <2>1, <2>2 DEF TypeOK
<1>8. ReportIsTrue'
  BY <1>3 DEF IInv, ReportIsTrue
<1> QED BY <1>5, <1>6, <1>7, <1>8, Recombined

\* Nothing is left to read: the server is done with what it was sent.
LEMMA Drained ==
  ASSUME IInv, pc = "start", Receive, PQgetResult = NULL
  PROVE  /\ ~Asked /\ (toClient' = toClient \/ (toClient # <<>> /\ toClient' = Tail(toClient)))
         /\ UNCHANGED bad
         /\ ~bad => toClient' = <<>> /\ serving = 0 /\ rest = <<>> /\ ~copying /\ (alive => ~ended)
<1>1. ReadsNothing \/ ReadsReady
  BY Received DEF ReadsCopyState, ReadsEnd, ReadsAnswer
<1>2. ~Asked
  BY NoneAsked
<1>3. CASE ReadsNothing
  <2>1. Idle /\ asyncStatus = "IDLE" /\ UNCHANGED <<toClient, bad>>
    BY <1>3 DEF ReadsNothing, Idle
  <2>2. ~bad => toClient = <<>> /\ serving = 0 /\ rest = <<>> /\ ~copying
    BY <2>1 DEF IInv, Turn, TypeOK
  <2>3. alive => ~ended
    BY <2>1 DEF IInv, EndedCopy
  <2> QED BY <1>2, <2>1, <2>2, <2>3
<1>4. CASE ReadsReady
  <2>1. /\ toClient # <<>> /\ toClient' = <<>> /\ toClient' = Tail(toClient) /\ UNCHANGED bad
        /\ serving = 0 /\ toClient[1].fate = "none"
    BY <1>4 DEF ReadsReady
  <2>2. rest = <<>> /\ ~copying
    BY <2>1 DEF IInv, Turn
  <2>3. alive => ~ended
    BY <2>1 DEF IInv, EndedCopy
  <2> QED BY <1>2, <2>1, <2>2, <2>3
<1> QED BY <1>1, <1>3, <1>4

LEMMA SendQueryKeeps ==
  ASSUME IInv, SendQuery
  PROVE  IInv'
<1>1. /\ pc = "start" /\ Receive /\ PQgetResult = NULL /\ ~bad
      /\ sent' = sent + 1 /\ asyncStatus' = "BUSY" /\ pc' = "finish" /\ last' = NULL
      /\ call' = [call EXCEPT !.ran = TRUE]
      /\ UNCHANGED <<alive, serving, rest, copying, op, query, chunks, lookups, rs, ended, reported>>
  BY DEF SendQuery, serverVars
<1> DEFINE m == [type |-> "Query", id |-> sent + 1, statements |-> query]
<1>2. toServer' = IF alive THEN Append(toServer, m) ELSE toServer
  BY DEF SendQuery, Send
<1>3. sent \in Nat /\ sent < MaxQueries /\ query # <<>> /\ query \in Seq(Kinds) /\ MaxQueries \in Nat
  BY <1>1, BoundsAssumption DEF IInv, Calling, TypeOK
<1>4. /\ m \in Messages /\ m.type = "Query" /\ m.id = sent' /\ m.statements = query'
  BY <1>1, <1>3 DEF Messages
<1> HIDE DEF m
<1>5. /\ ~Asked /\ UNCHANGED bad
      /\ toClient' = <<>> /\ serving = 0 /\ rest = <<>> /\ ~copying /\ (alive => ~ended)
  BY <1>1, Drained
<1>6. toServer \in Seq(Messages) /\ (~alive => toServer = <<>>)
  BY DEF IInv, TypeOK, DeadIsDone
<1>7. /\ toServer' \in Seq(Messages)
      /\ \A i \in 1..Len(toServer') : IsQuery(toServer'[i]) => i = Len(toServer') /\ toServer'[i] = m
      /\ alive => Asked'
  <2>1. CASE alive
    <3>1. /\ toServer' \in Seq(Messages) /\ Len(toServer') = Len(toServer) + 1 /\ Len(toServer) \in Nat
          /\ \A i \in 1..Len(toServer) : toServer'[i] = toServer[i]
          /\ toServer'[Len(toServer')] = m
      BY <1>2, <1>4, <1>6, <2>1, Appended
    <3>2. \A i \in 1..Len(toServer') : i \in 1..Len(toServer) \/ i = Len(toServer')
      BY <3>1
    <3>3. \A i \in 1..Len(toServer') : IsQuery(toServer'[i]) => i = Len(toServer')
      BY <1>5, <3>1, <3>2 DEF Asked, IsQuery
    <3>4. Asked'
      <4>1. Len(toServer') \in 1..Len(toServer')
        BY <3>1
      <4> QED BY <1>4, <3>1, <4>1 DEF Asked, IsQuery
    <3> QED BY <3>1, <3>3, <3>4
  <2>2. CASE ~alive
    BY <1>2, <1>6, <2>2
  <2> QED BY <2>1, <2>2
<1>8. Streams'
  <2>1. DeadIsDone' /\ BadIsDead'
    BY <1>1, <1>2, <1>5 DEF IInv, DeadIsDone, BadIsDead
  <2>2. OwnAnswers' /\ CopyUnread'
    BY <1>5 DEF OwnAnswers, CopyUnread
  <2>3. OwnQuery'
    BY <1>1, <1>4, <1>5, <1>7 DEF OwnQuery, IsQuery
  <2>4. Turn'
    BY <1>1, <1>5, <1>7 DEF Turn, Idle
  <2>5. ClientCopies' /\ ServerCopies' /\ LateData' /\ EndedCopy'
    BY <1>1, <1>5 DEF ClientCopies, ServerCopies, LateData, EndedCopy
  <2> QED BY <2>1, <2>2, <2>3, <2>4, <2>5 DEF Streams
<1>9. TypeOK'
  <2>1. sent' \in 0..MaxQueries
    BY <1>1, <1>3
  <2>2. call' \in [ran : BOOLEAN, outcome : {"none", "ok", "error", "refused"}]
    BY <1>1 DEF IInv, TypeOK
  <2>3. toClient' \in Seq(Replies)
    BY <1>5
  <2> QED BY <1>1, <1>5, <1>7, <2>1, <2>2, <2>3 DEF IInv, TypeOK
<1>10. Calling'
  BY <1>1, <1>3, <1>5, <1>7 DEF Calling
<1>11. LookingUp'
  <2> SUFFICES ASSUME AtLookup'
               PROVE  rs # NULL /\ sent' + lookups <= MaxQueries /\ query = <<"select">>
    BY <1>1, <1>5 DEF LookingUp
  <2>1. AtLookup
    BY <1>1 DEF AtLookup
  <2>2. rs # NULL /\ sent + lookups < MaxQueries /\ query = <<"select">>
    BY <1>1, <2>1 DEF IInv, LookingUp
  <2>3. lookups \in Nat
    BY BoundsAssumption DEF IInv, TypeOK
  <2> QED BY <1>1, <1>3, <2>2, <2>3
<1>12. ReportIsTrue'
  BY <1>1 DEF IInv, ReportIsTrue
<1> QED BY <1>8, <1>9, <1>10, <1>11, <1>12, Recombined

LEMMA SendQueryFailsKeeps ==
  ASSUME IInv, SendQueryFails
  PROVE  IInv'
<1>1. /\ pc = "start" /\ Receive /\ PQgetResult = NULL /\ ~alive /\ asyncStatus' = "IDLE"
      /\ IF op = "lookup" THEN pc' = "map" /\ UNCHANGED call ELSE Finish("error")
      /\ UNCHANGED <<toServer, alive, serving, rest, copying, op, query, last, chunks, lookups, rs,
                     sent, ended, reported>>
  BY DEF SendQueryFails, serverVars
<1>2. /\ toClient' = toClient \/ (toClient # <<>> /\ toClient' = Tail(toClient))
      /\ UNCHANGED bad /\ (~bad => toClient' = <<>>)
  BY <1>1, Drained
<1>3. Streams' /\ toClient' \in Seq(Replies)
  BY <1>1, <1>2, CutOff
<1>4. /\ pc' \in {"map", "idle"}
      /\ call' \in [ran : BOOLEAN, outcome : {"none", "ok", "error", "refused"}]
      /\ Calling' /\ LookingUp'
  BY <1>1, ExecLeft
<1>5. TypeOK'
  BY <1>1, <1>2, <1>3, <1>4 DEF IInv, TypeOK
<1>6. ReportIsTrue'
  BY <1>1 DEF IInv, ReportIsTrue
<1> QED BY <1>3, <1>4, <1>5, <1>6, Recombined

-----------------------------------------------------------------------------
(* PQexecFinish. *)

LEMMA FinishQueryKeeps ==
  ASSUME IInv, FinishQuery
  PROVE  IInv'
<1>1. /\ pc = "finish" /\ Receive /\ asyncStatus' = StatusAfter
      /\ IF PQgetResult = NULL
           THEN pc' = "return" /\ UNCHANGED last
           ELSE /\ last' = PQgetResult
                /\ pc' = IF PQgetResult.status \in {"COPY_IN", "COPY_OUT"} \/ bad'
                           THEN "return" ELSE "finish"
      /\ UNCHANGED <<toServer, alive, serving, rest, copying, op, query, chunks, lookups, rs,
                     sent, call, ended, reported>>
  BY DEF FinishQuery, serverVars, historyVars
<1>2. asyncStatus = "BUSY" /\ ~bad
  BY <1>1 DEF IInv, Calling
<1>3. ReadsEnd \/ ReadsReady \/ ReadsAnswer
  BY <1>1, <1>2, Received DEF ReadsNothing, ReadsCopyState
<1>4. ~Asked /\ ~Asked' /\ (alive => toServer = <<>>)
  <2>1. Asked => toClient = <<>> /\ alive
    BY DEF IInv, OwnQuery, Asked, DeadIsDone
  <2>2. ~Asked
    BY <1>3, <2>1 DEF ReadsEnd, ReadsReady, ReadsAnswer
  <2>3. alive => toServer = <<>>
    BY <1>1, <2>2 DEF IInv, Calling
  <2> QED BY <1>1, <2>2, <2>3 DEF Asked, IsQuery
<1>5. ended => ~alive
  BY <1>1 DEF IInv, EndedCopy
<1>6. last # NULL => last.query = sent /\ last.status \notin {"COPY_IN", "COPY_OUT"}
  BY <1>1 DEF IInv, Calling
<1>7. ReportIsTrue'
  BY <1>1 DEF IInv, ReportIsTrue
<1>8. toClient \in Seq(Replies) /\ bad \in BOOLEAN /\ query # <<>>
  BY <1>1 DEF IInv, TypeOK, Calling
<1>9. AtLookup => rs # NULL /\ sent + lookups <= MaxQueries
  BY DEF IInv, LookingUp
<1>10. CASE ReadsEnd
  <2>1. /\ ~alive /\ bad' = TRUE /\ UNCHANGED toClient /\ asyncStatus' = "IDLE"
        /\ pc' = "return" /\ last' = PQgetResult /\ last' \in Results /\ last' # NULL
        /\ last'.query = sent /\ last'.status = "FATAL_ERROR"
    BY <1>1, <1>10 DEF ReadsEnd
  <2>2. Streams'
    BY <1>1, <2>1, CutOff
  <2>3. TypeOK'
    BY <1>1, <1>8, <2>1 DEF IInv, TypeOK
  <2>4. Calling' /\ LookingUp'
    BY <1>1, <1>9, <2>1 DEF Calling, LookingUp, AtLookup
  <2> QED BY <1>7, <2>2, <2>3, <2>4, Recombined
<1>11. CASE ReadsReady
  <2>1. /\ toClient # <<>> /\ toClient[1].status = "READY" /\ toClient' = <<>> /\ UNCHANGED bad
        /\ asyncStatus' = "IDLE" /\ pc' = "return" /\ UNCHANGED last
    BY <1>1, <1>11 DEF ReadsReady
  <2>2. last # NULL
    BY <1>1, <2>1 DEF IInv, Calling
  <2>3. Streams'
    BY <1>1, <1>5, <1>11, <2>1, ReadyRead
  <2>4. toClient' \in Seq(Replies)
    BY <2>1
  <2>5. TypeOK'
    BY <1>1, <2>1, <2>4 DEF IInv, TypeOK
  <2>6. Calling' /\ LookingUp'
    BY <1>1, <1>6, <1>9, <2>1, <2>2 DEF Calling, LookingUp, AtLookup, Idle
  <2> QED BY <1>7, <2>3, <2>5, <2>6, Recombined
<1>12. CASE ReadsAnswer
  <2>1. /\ toClient # <<>> /\ toClient[1].status # "READY" /\ toClient' = Tail(toClient)
        /\ UNCHANGED bad /\ last' = toClient[1] /\ last' \in Results /\ last' # NULL
        /\ last'.query = sent
        /\ asyncStatus' = IF last'.status \in {"COPY_IN", "COPY_OUT"} THEN last'.status ELSE "BUSY"
        /\ pc' = IF last'.status \in {"COPY_IN", "COPY_OUT"} THEN "return" ELSE "finish"
    BY <1>1, <1>2, <1>12 DEF ReadsAnswer
  <2>2. Streams'
    BY <1>1, <1>2, <1>5, <2>1, AnswerRead
  <2>3. /\ toClient' \in Seq(Replies)
        /\ \A i \in 1..Len(toClient') : i + 1 \in 1..Len(toClient) /\ toClient'[i] = toClient[i + 1]
    BY <1>1, <2>1, AnswersLeft
  <2>4. TypeOK'
    BY <1>1, <2>1, <2>3 DEF IInv, TypeOK
  <2>5. Calling'
    BY <1>1, <1>2, <1>4, <1>8, <2>1 DEF Calling
  <2>6. LookingUp'
    <3> SUFFICES ASSUME AtLookup' PROVE LookingUp'
      BY DEF LookingUp
    <3>1. AtLookup
      BY <1>1 DEF AtLookup
    <3>2. /\ rs # NULL /\ sent + lookups <= MaxQueries /\ query = <<"select">>
          /\ rest \in {<<>>, <<"select">>} /\ ~copying
          /\ \A i \in 1..Len(toClient) : toClient[i].status \notin {"COPY_IN", "COPY_OUT"}
      BY <1>1, <3>1 DEF IInv, LookingUp
    <3>3. 1 \in 1..Len(toClient)
      BY <1>8, <2>1, Shortened
    <3>4. last'.status \notin {"COPY_IN", "COPY_OUT"} /\ pc' = "finish"
      BY <2>1, <3>2, <3>3
    <3>5. \A i \in 1..Len(toClient') : toClient'[i].status \notin {"COPY_IN", "COPY_OUT"}
      BY <2>3, <3>2
    <3> QED BY <1>1, <3>2, <3>4, <3>5 DEF LookingUp
  <2> QED BY <1>7, <2>2, <2>4, <2>5, <2>6, Recombined
<1> QED BY <1>3, <1>10, <1>11, <1>12

-----------------------------------------------------------------------------
(* COPY FROM STDIN. *)

LEMMA PutCopyDataKeeps ==
  ASSUME IInv, PutCopyData
  PROVE  IInv'
<1>1. /\ pc = "copy" /\ chunks > 0 /\ asyncStatus = "COPY_IN" /\ Send([type |-> "CopyData"])
      /\ chunks' = chunks - 1 /\ call' = [call EXCEPT !.ran = TRUE]
      /\ UNCHANGED <<asyncStatus, bad, toClient, alive, serving, rest, copying, pc, op, query, last,
                     lookups, rs, sent, ended, reported>>
  BY DEF PutCopyData, Copying, libpqVars, serverVars
<1>2. Streams' /\ toServer' \in Seq(Messages)
  <2>1. CASE alive
    <3>1. CopyInRead /\ toClient' \in Seq(Replies) /\ OwnAnswers' /\ ~ended
      BY <1>1, <2>1, CopyingKnown
    <3>2. toServer' = Append(toServer, [type |-> "CopyData"])
      BY <1>1, <2>1 DEF Send
    <3>3. ended' <=> FALSE
      BY <1>1, <3>1
    <3> QED BY <1>1, <2>1, <3>1, <3>2, <3>3, CopySent DEF Idle
  <2>2. CASE ~alive
    <3>1. UNCHANGED toServer
      BY <1>1, <2>2 DEF Send
    <3>2. Streams'
      BY <1>1, <2>2, <3>1, CutOff
    <3> QED BY <3>1, <3>2 DEF IInv, TypeOK
  <2> QED BY <2>1, <2>2
<1>3. TypeOK'
  <2>1. chunks' \in 0..MaxChunks
    BY <1>1, BoundsAssumption DEF IInv, TypeOK
  <2>2. call' \in [ran : BOOLEAN, outcome : {"none", "ok", "error", "refused"}]
    BY <1>1 DEF IInv, TypeOK
  <2> QED BY <1>1, <1>2, <2>1, <2>2 DEF IInv, TypeOK
<1>4. Calling' /\ LookingUp'
  BY <1>1 DEF Calling, LookingUp, AtLookup
<1>5. ReportIsTrue'
  BY <1>1 DEF IInv, ReportIsTrue
<1> QED BY <1>2, <1>3, <1>4, <1>5, Recombined

LEMMA PutCopyDataFailsKeeps ==
  ASSUME IInv, PutCopyDataFails
  PROVE  IInv'
<1>1. /\ pc = "copy" /\ bad' \in {bad, bad \/ ~alive} /\ Finish("error")
      /\ UNCHANGED <<asyncStatus, toServer, toClient, alive, serving, rest, copying, op, query, last,
                     chunks, lookups, rs, sent, ended, reported>>
  BY DEF PutCopyDataFails, Copying, serverVars
<1>2. /\ pc' = "idle"
      /\ call' \in [ran : BOOLEAN, outcome : {"none", "ok", "error", "refused"}]
  BY <1>1, Finished
<1>3. bad \in BOOLEAN /\ alive \in BOOLEAN
  BY DEF IInv, TypeOK
<1>4. Streams'
  <2>1. CASE alive
    <3>1. bad' = bad
      BY <1>1, <1>3, <2>1
    <3> QED BY <1>1, <1>2, <3>1, NothingRead
  <2>2. CASE ~alive
    <3>1. bad => bad'
      BY <1>1, <1>3
    <3>2. asyncStatus = "IDLE" /\ ~bad => toClient = <<>>
      BY DEF IInv, Turn, Idle
    <3> QED BY <1>1, <2>2, <3>1, <3>2, CutOff
  <2> QED BY <2>1, <2>2
<1>5. TypeOK'
  <2>1. bad' \in BOOLEAN
    BY <1>1, <1>3
  <2> QED BY <1>1, <1>2, <2>1 DEF IInv, TypeOK
<1>6. Calling' /\ LookingUp'
  BY <1>2 DEF Calling, LookingUp, AtLookup
<1>7. ReportIsTrue'
  BY <1>1 DEF IInv, ReportIsTrue
<1> QED BY <1>4, <1>5, <1>6, <1>7, Recombined

LEMMA PutCopyEndKeeps ==
  ASSUME IInv, PutCopyEnd
  PROVE  IInv'
<1>1. /\ pc = "copy" /\ Finish("ok")
      /\ IF asyncStatus = "COPY_IN"
           THEN /\ Send([type |-> "CopyDone"])
                /\ asyncStatus' = "BUSY" \/ (~alive /\ asyncStatus' = "COPY_IN")
                /\ ended' = TRUE
           ELSE UNCHANGED <<toServer, asyncStatus, ended>>
      /\ UNCHANGED <<bad, toClient, alive, serving, rest, copying, op, query, last, chunks,
                     lookups, rs, sent, reported>>
  BY DEF PutCopyEnd, Copying, serverVars
<1>2. /\ pc' = "idle"
      /\ call' \in [ran : BOOLEAN, outcome : {"none", "ok", "error", "refused"}]
  BY <1>1, Finished
<1>3. /\ Streams' /\ toServer' \in Seq(Messages) /\ ended' \in BOOLEAN
      /\ asyncStatus' \in {"IDLE", "BUSY", "COPY_IN", "COPY_OUT"}
  <2>1. CASE asyncStatus = "COPY_IN" /\ alive
    <3>1. CopyInRead /\ toClient' \in Seq(Replies) /\ OwnAnswers'
      BY <1>1, <2>1, CopyingKnown
    <3>2. toServer' = Append(toServer, [type |-> "CopyDone"])
      BY <1>1, <2>1 DEF Send
    <3>3. (ended' <=> TRUE) /\ asyncStatus' = "BUSY" /\ ended' \in BOOLEAN
      BY <1>1, <2>1
    <3>4. Streams' /\ toServer' \in Seq(Messages)
      BY <1>1, <1>2, <2>1, <3>1, <3>2, <3>3, CopySent DEF Idle
    <3> QED BY <3>3, <3>4
  <2>2. CASE asyncStatus = "COPY_IN" /\ ~alive
    <3>1. UNCHANGED toServer /\ asyncStatus' \in {"BUSY", "COPY_IN"} /\ ended' \in BOOLEAN
      BY <1>1, <2>2 DEF Send
    <3>2. Streams'
      BY <1>1, <2>2, <3>1, CutOff
    <3> QED BY <3>1, <3>2 DEF IInv, TypeOK
  <2>3. CASE asyncStatus # "COPY_IN"
    <3>1. UNCHANGED <<toServer, asyncStatus, ended>>
      BY <1>1, <2>3
    <3>2. Streams'
      BY <1>1, <1>2, <3>1, NothingRead
    <3> QED BY <3>1, <3>2 DEF IInv, TypeOK
  <2> QED BY <2>1, <2>2, <2>3
<1>4. TypeOK'
  BY <1>1, <1>2, <1>3 DEF IInv, TypeOK
<1>5. Calling' /\ LookingUp'
  BY <1>2 DEF Calling, LookingUp, AtLookup
<1>6. ReportIsTrue'
  BY <1>1 DEF IInv, ReportIsTrue
<1> QED BY <1>3, <1>4, <1>5, <1>6, Recombined

\* The report on an ended COPY is read from the message that ended it.
LEMMA GotResultKeeps ==
  ASSUME IInv, GotResult
  PROVE  IInv'
<1> DEFINE ok == PQgetResult # NULL /\ PQgetResult.status # "FATAL_ERROR"
<1>1. /\ pc = "getResult" /\ Receive /\ asyncStatus' = StatusAfter /\ ended' = FALSE
      /\ rs' = IF ok THEN ResultSet(1, FALSE) ELSE NULL
      /\ reported' = IF ~ended THEN reported
                     ELSE [says |-> IF ok THEN "ok" ELSE "failed",
                           fate |-> IF PQgetResult = NULL THEN "none" ELSE PQgetResult.fate]
      /\ Finish("ok") \/ Finish("error")
      /\ UNCHANGED <<toServer, alive, serving, rest, copying, op, query, last, chunks, lookups, sent>>
  BY DEF GotResult, serverVars
<1>2. /\ pc' = "idle"
      /\ call' \in [ran : BOOLEAN, outcome : {"none", "ok", "error", "refused"}]
  BY <1>1, Finished
<1>3. ReadsNothing \/ ReadsCopyState \/ ReadsEnd \/ ReadsReady \/ ReadsAnswer
  BY <1>1, Received
<1>4. toClient \in Seq(Replies) /\ bad \in BOOLEAN
  BY DEF IInv, TypeOK
<1>5. /\ Streams' /\ toClient' \in Seq(Replies) /\ bad' \in BOOLEAN
      /\ asyncStatus' \in {"IDLE", "BUSY", "COPY_IN", "COPY_OUT"}
      /\ PQgetResult # NULL => PQgetResult \in Results
  <2>1. CASE ReadsNothing
    <3>1. /\ asyncStatus = "IDLE" /\ asyncStatus' = "IDLE" /\ UNCHANGED <<toClient, bad>>
          /\ PQgetResult = NULL
      BY <1>1, <2>1 DEF ReadsNothing
    <3>2. Streams'
      BY <1>1, <1>2, <3>1, NothingRead
    <3> QED BY <1>4, <3>1, <3>2
  <2>2. CASE ReadsCopyState
    <3>1. /\ asyncStatus \in {"COPY_IN", "COPY_OUT"} /\ UNCHANGED <<toClient, bad>>
          /\ asyncStatus' = IF bad THEN "IDLE" ELSE asyncStatus
          /\ PQgetResult \in Results
      BY <1>1, <2>2 DEF ReadsCopyState
    <3>2. CASE bad
      <4>1. ~alive
        BY <3>2 DEF IInv, BadIsDead
      <4>2. Streams'
        BY <1>1, <3>1, <3>2, <4>1, CutOff
      <4> QED BY <1>4, <3>1, <4>2
    <3>3. CASE ~bad
      <4>1. Streams'
        BY <1>1, <1>2, <3>1, <3>3, NothingRead
      <4> QED BY <1>4, <3>1, <4>1
    <3> QED BY <3>2, <3>3
  <2>3. CASE ReadsEnd
    <3>1. /\ ~alive /\ bad' = TRUE /\ UNCHANGED toClient /\ asyncStatus' = "IDLE"
          /\ PQgetResult \in Results
      BY <1>1, <2>3 DEF ReadsEnd
    <3>2. Streams'
      BY <1>1, <3>1, CutOff
    <3> QED BY <1>4, <3>1, <3>2
  <2>4. CASE ReadsReady
    <3>1. toClient' = <<>> /\ UNCHANGED bad /\ asyncStatus' = "IDLE" /\ PQgetResult = NULL
      BY <1>1, <2>4 DEF ReadsReady
    <3>2. Streams'
      BY <1>1, <2>4, <3>1, ReadyRead
    <3>3. toClient' \in Seq(Replies)
      BY <3>1
    <3> QED BY <1>4, <3>1, <3>2, <3>3
  <2>5. CASE ReadsAnswer
    <3>1. /\ asyncStatus = "BUSY" /\ toClient # <<>> /\ toClient[1].status # "READY"
          /\ toClient' = Tail(toClient) /\ UNCHANGED bad
          /\ PQgetResult = toClient[1] /\ PQgetResult \in Results
          /\ asyncStatus' = IF bad THEN "IDLE"
                            ELSE IF toClient[1].status \in {"COPY_IN", "COPY_OUT"}
                                   THEN toClient[1].status ELSE "BUSY"
      BY <1>1, <2>5 DEF ReadsAnswer
    <3>2. bad => ~alive
      BY DEF IInv, BadIsDead
    <3>3. Streams'
      BY <1>1, <3>1, <3>2, AnswerRead
    <3>4. toClient' \in Seq(Replies)
      BY <1>1, <3>1, AnswersLeft
    <3> QED BY <1>4, <3>1, <3>3, <3>4
  <2> QED BY <1>3, <2>1, <2>2, <2>3, <2>4, <2>5
<1>6. TypeOK'
  <2>1. rs' \in ResultSets \cup {NULL}
    BY <1>1 DEF ResultSet, ResultSets
  <2>2. reported' \in [says : {"none", "ok", "failed"}, fate : Fates]
    <3>1. (IF PQgetResult = NULL THEN "none" ELSE PQgetResult.fate) \in Fates
      BY <1>5 DEF Results, Fates
    <3> QED BY <1>1, <3>1 DEF IInv, TypeOK
  <2> QED BY <1>1, <1>2, <1>5, <2>1, <2>2 DEF IInv, TypeOK
<1>7. Calling' /\ LookingUp'
  BY <1>2 DEF Calling, LookingUp, AtLookup
<1>8. ReportIsTrue'
  <2>1. CASE ~ended
    BY <1>1, <2>1 DEF IInv, ReportIsTrue
  <2>2. CASE ended /\ alive
    <3>1. /\ asyncStatus = "BUSY"
          /\ toClient # <<>> => toClient[1].fate # "none"
      BY <2>2 DEF IInv, EndedCopy
    <3>2. ReadsAnswer
      BY <1>3, <2>2, <3>1 DEF ReadsNothing, ReadsCopyState, ReadsEnd, ReadsReady
    <3>3. /\ PQgetResult = toClient[1] /\ PQgetResult # NULL /\ toClient # <<>>
      BY <3>2 DEF ReadsAnswer
    <3>4. 1 \in 1..Len(toClient) /\ toClient[1] \in Replies
      BY <1>4, <3>3, Shortened
    <3>5. /\ toClient[1].fate \in {"stored", "rejected"}
          /\ toClient[1].fate = "stored" => toClient[1].status = "COMMAND_OK"
          /\ toClient[1].fate = "rejected" => toClient[1].status = "FATAL_ERROR"
      BY <3>1, <3>3, <3>4 DEF IInv, OwnAnswers, Replies, Fates
    <3>6. /\ reported'.says = IF toClient[1].status # "FATAL_ERROR" THEN "ok" ELSE "failed"
          /\ reported'.fate = toClient[1].fate
      BY <1>1, <2>2, <3>3
    <3> QED BY <3>5, <3>6 DEF ReportIsTrue
  <2>3. CASE ~alive
    BY <1>1, <2>3 DEF ReportIsTrue
  <2> QED BY <2>1, <2>2, <2>3
<1> QED BY <1>5, <1>6, <1>7, <1>8, Recombined

-----------------------------------------------------------------------------
(* The theorems. *)

LEMMA InitIInv == Init => IInv
<1> SUFFICES ASSUME Init PROVE IInv
  OBVIOUS
<1>1. TypeOK
  <2>1. <<>> \in Seq(Messages) /\ <<>> \in Seq(Replies) /\ <<>> \in Seq(Kinds)
    OBVIOUS
  <2>2. 0 \in 0..MaxQueries /\ 0 \in 0..MaxChunks
    BY BoundsAssumption
  <2>3. reported \in [says : {"none", "ok", "failed"}, fate : Fates]
    BY DEF Init, NoReport, Fates
  <2> QED BY <2>1, <2>2, <2>3 DEF Init, TypeOK
<1>2. DeadIsDone /\ BadIsDead /\ OwnAnswers /\ OwnQuery /\ CopyUnread
  BY DEF Init, DeadIsDone, BadIsDead, OwnAnswers, OwnQuery, CopyUnread
<1>3. Turn /\ ClientCopies /\ ServerCopies /\ LateData /\ EndedCopy
  BY DEF Init, Turn, Idle, ClientCopies, ServerCopies, LateData, EndedCopy
<1>4. Calling /\ LookingUp /\ ReportIsTrue
  BY DEF Init, Calling, LookingUp, AtLookup, ReportIsTrue, NoReport
<1> QED BY <1>1, <1>2, <1>3, <1>4 DEF IInv

LEMMA StutterKeeps ==
  ASSUME IInv, UNCHANGED vars
  PROVE  IInv'
<1>1. UNCHANGED <<asyncStatus, bad, toServer, toClient, alive, serving, rest, copying, pc, op, query,
                  last, chunks, lookups, rs, sent, call, ended, reported>>
  BY DEF vars, libpqVars, channelVars, serverVars, driverVars, historyVars
<1>2. TypeOK' /\ ReportIsTrue'
  BY <1>1 DEF IInv, TypeOK, ReportIsTrue
<1>3. DeadIsDone' /\ BadIsDead' /\ OwnAnswers' /\ OwnQuery' /\ CopyUnread'
  BY <1>1 DEF IInv, DeadIsDone, BadIsDead, OwnAnswers, OwnQuery, IsQuery, CopyUnread
<1>4. Turn' /\ ClientCopies' /\ ServerCopies' /\ LateData' /\ EndedCopy'
  BY <1>1 DEF IInv, Turn, Idle, Asked, IsQuery, ClientCopies, ServerCopies, LateData, EndedCopy, NoneUnread
<1>5. Calling' /\ LookingUp'
  BY <1>1 DEF IInv, Calling, LookingUp, AtLookup, Idle, Asked, IsQuery
<1> QED BY <1>2, <1>3, <1>4, <1>5 DEF IInv

LEMMA NextIInv == IInv /\ [Next]_vars => IInv'
<1> SUFFICES ASSUME IInv, [Next]_vars PROVE IInv'
  OBVIOUS
<1>1. CASE UNCHANGED vars
  BY <1>1, StutterKeeps
<1>2. CASE ServerStep \/ ServerDies
  BY <1>2, ServerTakesKeeps, ServerRunsKeeps, ServerAnswersKeeps, ServerReadyKeeps,
     ServerReceivesDataKeeps, ServerDiesKeeps DEF ServerStep
<1>3. CASE \E q \in Queries : Exec(q) \/ ExecParams(q) \/ PqExec(q)
  BY <1>3, EnterKeeps DEF Exec, ExecParams, PqExec
<1>4. CASE \/ ExecRefused \/ Fetch \/ ClearResult \/ InfoOfNullStatement
           \/ \E n \in 0..MaxChunks : CopyIn(n)
  BY <1>4, RCallsKeep
<1>5. CASE GetResult \/ GotResult
  BY <1>5, GetResultKeeps, GotResultKeeps
<1>6. CASE DrainCopyIn \/ DrainCopyInFails \/ DrainCopyOut \/ DrainResult
  BY <1>6, DrainCopyInKeeps, DrainCopyInFailsKeeps, DrainCopyOutKeeps, DrainResultKeeps
<1>7. CASE SendQuery \/ SendQueryFails \/ FinishQuery
  BY <1>7, SendQueryKeeps, SendQueryFailsKeeps, FinishQueryKeeps
<1>8. CASE ReturnError \/ ReturnCleared \/ ReturnLookup \/ ReturnWrapped \/ ReturnRefused
  BY <1>8, ReturnsKeep
<1>9. CASE MapLooksUp \/ MapDone \/ MapAborts
  BY <1>9, MappingKeeps
<1>10. CASE PutCopyData \/ PutCopyDataFails \/ PutCopyEnd
  BY <1>10, PutCopyDataKeeps, PutCopyDataFailsKeeps, PutCopyEndKeeps
<1> QED
  BY <1>1, <1>2, <1>3, <1>4, <1>5, <1>6, <1>7, <1>8, <1>9, <1>10 DEF Next, DriverStep, Call

\* In every state of the connection, the turn-taking of libpq and the server
\* holds: the inductive invariant.
THEOREM TurnsAreTaken == Spec => []IInv
<1>1. Init => IInv
  BY InitIInv
<1>2. IInv /\ [Next]_vars => IInv'
  BY NextIInv
<1> QED BY <1>1, <1>2, PTL DEF Spec

LEMMA IInvInStep == IInv => InStep
<1> SUFFICES ASSUME IInv PROVE InStep
  OBVIOUS
<1>1. ResultAnswersItsQuery
  BY DEF IInv, Calling, ResultAnswersItsQuery
<1>2. IdleMeansQuiet
  <2> SUFFICES ASSUME asyncStatus = "IDLE", ~bad, alive
               PROVE  /\ toClient = <<>> /\ serving = 0
                      /\ \A m \in 1..Len(toServer) : toServer[m].type # "Query"
    BY DEF IdleMeansQuiet
  <2>1. toClient = <<>> /\ serving = 0
    BY DEF IInv, Turn, Idle, TypeOK
  <2>2. pc # "finish"
    BY DEF IInv, Calling
  <2>3. \A m \in 1..Len(toServer) : toServer[m].type # "Query"
    BY <2>2 DEF IInv, OwnQuery, IsQuery
  <2> QED BY <2>1, <2>3
<1>3. LookupDisturbsNothing
  BY DEF IInv, Calling, LookupDisturbsNothing, Idle
<1> QED BY <1>1, <1>2, <1>3 DEF InStep, IInv

\* The result a call hands to the driver answers the string the call sent, what
\* libpq takes for idle is idle, catalogue lookups find nothing of the user's
\* to discard, and what getResult says of a COPY is what became of it: for any
\* strings, any number of them and of blocks, wherever the backend fails or dies.
THEOREM ClientAndServerInStep == Spec => []InStep
<1>1. IInv => InStep
  BY IInvInStep
<1> QED BY <1>1, TurnsAreTaken, PTL

\* The server stores a COPY only if CopyIn ended it: a COPY left open by an R
\* error is made to fail by the next statement, however far its data got.
THEOREM LeftOpenIsNotStored == Spec => StoredOnlyIfEnded
<1>1. IInv /\ [Next]_vars => [ServerStores => ended]_vars
  <2> SUFFICES ASSUME IInv, ServerStores PROVE ended
    OBVIOUS
  <2>1. /\ alive /\ copying /\ toServer # <<>> /\ toServer[1].type = "CopyDone"
        /\ toClient' = Append(toClient, Reply("COMMAND_OK", "stored"))
    BY DEF ServerStores, EndsCopy
  <2>2. toClient # <<>> => toClient[Len(toClient)].status # "COPY_IN"
    BY <2>1 DEF IInv, CopyUnread, TypeOK
  <2>3. 1 \in 1..Len(toServer) /\ Len(toServer) \in Nat
    BY <2>1, Shortened DEF IInv, TypeOK
  <2>4. ~(toClient = <<>> /\ asyncStatus = "COPY_IN")
    BY <2>1, <2>3 DEF IInv, ClientCopies
  <2>5. /\ \A i \in 1..Len(toServer) - 1 : toServer[i].type = "CopyData"
        /\ toServer[Len(toServer)].type = "CopyDone" => ended
    BY <2>1, <2>2, <2>4 DEF IInv, ServerCopies
  <2>6. Len(toServer) = 1
    <3>1. Len(toServer) > 1 => 1 \in 1..Len(toServer) - 1
      BY <2>3
    <3>2. Len(toServer) > 1 => toServer[1].type = "CopyData"
      BY <2>5, <3>1
    <3>3. toServer[1].type # "CopyData" /\ Len(toServer) \in Nat /\ Len(toServer) > 0
      BY <2>1, <2>3
    <3> QED BY <3>2, <3>3
  <2> QED BY <2>1, <2>5, <2>6
<1> QED BY <1>1, TurnsAreTaken, PTL DEF Spec, StoredOnlyIfEnded

\* Pending rows are given up by dbClearResult() alone: no statement, lookup or
\* getResult of any history of calls closes a result set that is not completed.
THEOREM PendingRowsKept == Spec => PendingRowsSurvive
<1>1. IInv /\ [Next]_vars => [Pending /\ rs' = NULL => ClearResult]_vars
  <2> SUFFICES ASSUME IInv, Next, Pending, rs' = NULL PROVE ClearResult
    OBVIOUS
  <2>1. rs # NULL /\ rs \in ResultSets /\ rs' # rs
    BY DEF Pending, IInv, TypeOK
  <2>2. NULL \notin ResultSets
    BY NullAssumption
  <2>3. ~ServerStep /\ ~ServerDies
    BY <2>1 DEF ServerStep, ServerDies, ServerTakes, ServerRuns, ServerFails, ServerReady,
                ServerReceivesData, ServerStores, ServerAborts, ServerUnchanged, driverVars
  <2>4. ~(\E q \in Queries : Exec(q) \/ ExecParams(q) \/ PqExec(q))
    BY <2>1 DEF Exec, ExecParams, PqExec
  <2>5. ~ExecRefused /\ ~InfoOfNullStatement /\ ~GetResult /\ ~(\E n \in 0..MaxChunks : CopyIn(n))
    BY <2>1 DEF ExecRefused, driverVars, InfoOfNullStatement, GetResult, CopyIn
  <2>6. ~Fetch
    <3>1. Fetch => rs' = [rs EXCEPT !.completed = 1]
      BY DEF Fetch
    <3>2. [rs EXCEPT !.completed = 1] \in ResultSets
      BY <2>1 DEF ResultSets
    <3> QED BY <2>2, <3>1, <3>2
  <2>7. ~DrainCopyIn /\ ~DrainCopyInFails /\ ~DrainCopyOut /\ ~DrainResult
    BY <2>1 DEF DrainCopyIn, DrainCopyInFails, DrainCopyOut, DrainResult, driverVars
  <2>8. ~SendQuery /\ ~SendQueryFails /\ ~FinishQuery
    BY <2>1 DEF SendQuery, SendQueryFails, FinishQuery
  <2>9. ~ReturnError /\ ~ReturnCleared /\ ~ReturnLookup /\ ~ReturnRefused /\ ~ReturnWrapped
    BY <2>1 DEF ReturnError, ReturnCleared, ReturnLookup, ReturnRefused, ReturnWrapped, Wrap
  <2>10. ~MapLooksUp /\ ~MapAborts /\ ~MapDone
    <3>1. MapDone => rs' = [rs EXCEPT !.fields = TRUE]
      BY DEF MapDone
    <3>2. [rs EXCEPT !.fields = TRUE] \in ResultSets
      BY <2>1 DEF ResultSets
    <3> QED BY <2>1, <2>2, <3>1, <3>2 DEF MapLooksUp, MapAborts
  <2>11. ~PutCopyData /\ ~PutCopyDataFails /\ ~PutCopyEnd
    BY <2>1 DEF PutCopyData, PutCopyDataFails, PutCopyEnd, Copying
  <2>12. ~GotResult
    BY <2>1 DEF GotResult, IInv, Calling
  <2> QED BY <2>3, <2>4, <2>5, <2>6, <2>7, <2>8, <2>9, <2>10, <2>11, <2>12 DEF Next, DriverStep, Call
<1> QED BY <1>1, TurnsAreTaken, PTL DEF Spec, PendingRowsSurvive
=============================================================================

----------------------------- MODULE DbiManager -----------------------------
(***************************************************************************)
(* The object database of RS-DBI.c as the PostgreSQL driver drives it: the *)
(* singleton manager, its table of connections, the table of result sets   *)
(* each connection keeps, and the integer handles R holds on them.         *)
(*                                                                         *)
(* R calls the entry points one at a time, so one call is one step.  What  *)
(* is hard is the life of the handles: R copies them freely, keeps them    *)
(* after the object is gone and across reloads of the driver, and presents *)
(* them again in any later call.                                           *)
(*                                                                         *)
(* A session is a backend process of the server together with the PGconn   *)
(* that reaches it; a token is one PGresult.  Both are numbered in order   *)
(* of creation, and the bounds below only stop TLC from creating more.     *)
(***************************************************************************)
EXTENDS DbiTable

CONSTANTS
  NULL,           \* the C null pointer
  MaxRes,         \* max_res of RS_DBI_allocConnection; the driver passes 1
  MaxConChoices,  \* the max.con values R passes to dbDriver()
  CallocLimit,    \* the largest max_con whose tables calloc can provide
  MaxSessions,    \* bound: sessions ever opened on the server
  MaxTokens       \* bound: PGresults ever wrapped in a result set

ASSUME MaxResAssumption == MaxRes \in Nat \ {0}
ASSUME ChoicesAssumption == MaxConChoices \subseteq Nat \ {0} /\ CallocLimit \in Nat
ASSUME BoundsAssumption == MaxSessions \in Nat /\ MaxTokens \in Nat

VARIABLES
  mgr,            \* dbManager: "absent" (NULL), "live", "closed" (its tables
                  \* are NULL) or "freed" (the pointer is left dangling)
  counter,        \* mgr->counter
  num_con,        \* mgr->num_con
  connectionIds,  \* mgr->connectionIds
  connections,    \* mgr->connections
  sessions,       \* sessions now open on the server
  nextSession,    \* sessions opened so far
  nextToken,      \* PGresults wrapped so far
  conHandles,     \* history: <<id, session>> of every connection handle issued
  resHandles      \* history: <<con id, res id, token>> of every result handle

mgrVars == <<mgr, counter, num_con, connectionIds, connections>>
serverVars == <<sessions, nextSession, nextToken>>
historyVars == <<conHandles, resHandles>>
vars == <<mgrVars, serverVars, historyVars>>

ResultSets ==
  [resultSetId : Nat, drvResultSet : Nat, completed : {0, 1}]

Connections ==
  [connectionId : Nat, drvConnection : Nat, counter : Nat, num_res : Nat,
   resultSetIds : Tables(MaxRes, Nat),
   resultSets : [0..MaxRes-1 -> ResultSets \cup {NULL}]]

ASSUME NullAssumption == NULL \notin Connections /\ NULL \notin ResultSets

-----------------------------------------------------------------------------
(* Resolving handles. *)

\* is_validHandle(.., MGR_HANDLE_TYPE)
ValidManager == mgr = "live"

\* The connection RS_DBI_getConnection returns for id; NULL where it raises an
\* R error (id not in the table).
Connection(id) ==
  LET indx == Lookup(connectionIds, id)
  IN  IF indx < 0 THEN NULL ELSE connections[indx]

\* is_validHandle(.., CON_HANDLE_TYPE)
ValidConnection(id) == ValidManager /\ Connection(id) # NULL

\* RS_DBI_getResultSet, NULL where it raises an R error.
ResultSet(id, rid) ==
  LET con  == Connection(id)
      indx == Lookup(con.resultSetIds, rid)
  IN  IF indx < 0 THEN NULL ELSE con.resultSets[indx]

\* is_validHandle(.., RES_HANDLE_TYPE)
ValidResult(id, rid) == ValidConnection(id) /\ ResultSet(id, rid) # NULL

OpenSessions == {connections[i].drvConnection : i \in UsedSlots(connectionIds)}

-----------------------------------------------------------------------------
Init ==
  /\ mgr = "absent"
  /\ counter = 0 /\ num_con = 0
  /\ connectionIds = NewTable(0)
  /\ connections = [i \in 0..-1 |-> NULL]
  /\ sessions = {} /\ nextSession = 0 /\ nextToken = 0
  /\ conHandles = {} /\ resHandles = {}

(***************************************************************************)
(* dbDriver(): RS_PostgreSQL_init, all of it RS_DBI_allocManager.          *)
(***************************************************************************)

\* Re-entered on a valid manager without force.reload: the old handle.
InitIgnored ==
  /\ mgr = "live"
  /\ UNCHANGED vars

\* Mutant: the counter starts again with the new tables.
InitAllocates_CounterReset(max_con) ==
  /\ mgr # "freed"
  /\ max_con <= CallocLimit
  /\ mgr' = "live"
  /\ num_con' = 0 /\ counter' = 0
  /\ connectionIds' = NewTable(max_con)
  /\ connections' = [i \in 0..max_con-1 |-> NULL]
  /\ UNCHANGED <<serverVars, historyVars>>

\* The first call, a call after dbUnloadDriver, or a forced reload.  The
\* latter drops the connection table without closing what it lists.
InitAllocates(max_con) ==
  /\ mgr # "freed"
  /\ max_con <= CallocLimit
  /\ mgr' = "live"
  /\ num_con' = 0
  /\ connectionIds' = NewTable(max_con)
  /\ connections' = [i \in 0..max_con-1 |-> NULL]
  /\ UNCHANGED <<counter, serverVars, historyVars>>

\* calloc fails.  A first call leaves dbManager NULL.  A later one has already
\* run RS_DBI_freeManager, and frees the block dbManager still points to.
InitFails(max_con) ==
  /\ mgr # "freed"
  /\ max_con > CallocLimit
  /\ mgr' = IF mgr = "absent" THEN "absent" ELSE "freed"
  /\ num_con' = 0
  /\ connectionIds' = NewTable(0)
  /\ connections' = [i \in 0..-1 |-> NULL]
  /\ UNCHANGED <<counter, serverVars, historyVars>>

\* dbUnloadDriver(): refused by RS_PostgreSQL_closeManager while connections
\* are open; an expired handle is TRUE at once.
CloseManager ==
  /\ mgr = "live" /\ num_con = 0
  /\ mgr' = "closed"
  /\ connectionIds' = NewTable(0)
  /\ connections' = [i \in 0..-1 |-> NULL]
  /\ UNCHANGED <<counter, num_con, serverVars, historyVars>>

(***************************************************************************)
(* dbConnect(): RS_PostgreSQL_newConnection opens the session first and    *)
(* asks RS_DBI_allocConnection for a place second.                         *)
(***************************************************************************)
OpenSession ==
  /\ nextSession < MaxSessions
  /\ nextSession' = nextSession + 1
  /\ sessions' = sessions \cup {nextSession}
  /\ UNCHANGED nextToken

FreshConnection(con_id, session) ==
  [connectionId |-> con_id, drvConnection |-> session, counter |-> 0,
   num_res |-> 0, resultSetIds |-> NewTable(MaxRes),
   resultSets |-> [i \in 0..MaxRes-1 |-> NULL]]

\* Mutant: the next id is the number of open connections.
NewConnection_IdFromCount ==
  /\ ValidManager
  /\ OpenSession
  /\ LET indx == NewEntry(connectionIds)
     IN  /\ indx >= 0
         /\ connections' =
              [connections EXCEPT ![indx] = FreshConnection(num_con, nextSession)]
         /\ connectionIds' = ClaimEntry(connectionIds, indx, num_con)
  /\ num_con' = num_con + 1
  /\ counter' = counter + 1
  /\ conHandles' = conHandles \cup {<<num_con, nextSession>>}
  /\ UNCHANGED <<mgr, resHandles>>

NewConnection ==
  /\ ValidManager
  /\ OpenSession
  /\ LET indx == NewEntry(connectionIds)
     IN  /\ indx >= 0
         /\ connections' =
              [connections EXCEPT ![indx] = FreshConnection(counter, nextSession)]
         /\ connectionIds' = ClaimEntry(connectionIds, indx, counter)
  /\ num_con' = num_con + 1
  /\ counter' = counter + 1
  /\ conHandles' = conHandles \cup {<<counter, nextSession>>}
  /\ UNCHANGED <<mgr, resHandles>>

\* RS_DBI_errorMessage does not return: the cell is left (or made) empty and
\* the PGconn is never finished, for want of a free cell or of memory.
ConnectionLost ==
  /\ OpenSession
  /\ UNCHANGED <<mgrVars, historyVars>>

NewConnectionTableFull ==
  ValidManager /\ NewEntry(connectionIds) < 0 /\ ConnectionLost

NewConnectionNoMemory ==
  ValidManager /\ NewEntry(connectionIds) >= 0 /\ ConnectionLost

\* dbConnect(con): RS_PostgreSQL_cloneConnection resolves the handle first.
CloneConnection(id) ==
  /\ ValidConnection(id)
  /\ NewConnection

(***************************************************************************)
(* Result sets.                                                            *)
(***************************************************************************)

\* Mutant: the entry of the freed result set stays in the id table.
WithoutResult_EntryKept(con, rid) ==
  [con EXCEPT !.resultSets[Lookup(con.resultSetIds, rid)] = NULL,
              !.num_res = @ - 1]

\* con with its result-set table replaced.
WithTable(con, ids, sets, num) ==
  [con EXCEPT !.resultSetIds = ids, !.resultSets = sets, !.num_res = num]

\* con after RS_DBI_freeResultSet: PQclear has run, the entry is freed.
WithoutResult(con, rid) ==
  LET indx == Lookup(con.resultSetIds, rid)
  IN  WithTable(con, FreeEntry(con.resultSetIds, indx),
                [con.resultSets EXCEPT ![indx] = NULL], con.num_res - 1)

\* con after RS_DBI_allocResultSet wrapped a PGresult.
WithResult(con, token, completed) ==
  LET indx   == NewEntry(con.resultSetIds)
      result == [resultSetId |-> con.counter, drvResultSet |-> token,
                 completed |-> completed]
      filled == WithTable(con, ClaimEntry(con.resultSetIds, indx, con.counter),
                          [con.resultSets EXCEPT ![indx] = result], con.num_res + 1)
  IN  [filled EXCEPT !.counter = @ + 1]

\* con after the rows of result set rid ran out.
WithCompleted(con, rid) ==
  LET indx == Lookup(con.resultSetIds, rid)
      done == [con.resultSets[indx] EXCEPT !.completed = 1]
  IN  [con EXCEPT !.resultSets = [@ EXCEPT ![indx] = done]]

\* The object of handle id is replaced.
UpdateConnection(id, con) ==
  connections' = [connections EXCEPT ![Lookup(connectionIds, id)] = con]

\* What is left of the connection once RS_PostgreSQL_exec and its like have
\* looked at the first result set: it is closed if completed; an incomplete
\* one is an R error (NULL).
ReadyForStatement(con) ==
  IF con.num_res = 0 THEN con
  ELSE IF con.resultSets[0] = NULL \/ con.resultSets[0].completed = 0 THEN NULL
  ELSE WithoutResult(con, con.resultSetIds[0])

\* A PGresult is wrapped in a result set of con, the connection id stands for.
Wrap(id, con, isSelect) ==
  /\ NewEntry(con.resultSetIds) >= 0
  /\ nextToken < MaxTokens
  /\ UpdateConnection(id, WithResult(con, nextToken, IF isSelect THEN 0 ELSE 1))
  /\ resHandles' = resHandles \cup {<<id, con.counter, nextToken>>}
  /\ nextToken' = nextToken + 1
  /\ UNCHANGED <<mgr, counter, num_con, connectionIds, sessions, nextSession,
                 conHandles>>

\* dbSendQuery(): RS_PostgreSQL_exec.  A SELECT starts incomplete.
Exec(id, isSelect) ==
  /\ ValidConnection(id)
  /\ LET con == ReadyForStatement(Connection(id))
     IN  con # NULL /\ Wrap(id, con, isSelect)

\* dbSendQuery(.., params): RS_PostgreSQL_pqexecparams does not look at what is
\* open.  It runs the statement, and fails after it when there is no cell.
ExecParams(id, isSelect) ==
  /\ ValidConnection(id)
  /\ Wrap(id, Connection(id), isSelect)

\* The statement fails on the server after the old result set was closed.
ExecFails(id) ==
  /\ ValidConnection(id)
  /\ LET con == ReadyForStatement(Connection(id))
     IN  con # NULL /\ UpdateConnection(id, con)
  /\ UNCHANGED <<mgr, counter, num_con, connectionIds, serverVars, historyVars>>

\* fetch(): an incomplete result set stays so or completes as the rows run
\* out.  Once completed it stays completed; FetchLoop models the call itself.
Fetch(id, rid) ==
  /\ ValidResult(id, rid)
  /\ ResultSet(id, rid).completed = 0
  /\ UpdateConnection(id, WithCompleted(Connection(id), rid))
  /\ UNCHANGED <<mgr, counter, num_con, connectionIds, serverVars, historyVars>>

\* dbClearResult(): RS_PostgreSQL_closeResultSet.
CloseResultSet(id, rid) ==
  /\ ValidResult(id, rid)
  /\ UpdateConnection(id, WithoutResult(Connection(id), rid))
  /\ UNCHANGED <<mgr, counter, num_con, connectionIds, serverVars, historyVars>>

(***************************************************************************)
(* dbDisconnect(): postgresqlCloseConnection clears a completed first      *)
(* result set and stops on an incomplete one; RS_PostgreSQL_closeConnection*)
(* then refuses if any result set is left, PQfinish-es and frees.          *)
(***************************************************************************)

\* Mutant: a pending result set is cleared without asking whether it completed.
ClearedForClose_Pending(con) ==
  IF con.num_res = 0 THEN con
  ELSE WithoutResult(con, FirstListed(con.resultSetIds))

\* con after the R code dealt with the first listed result set, NULL if it stops.
ClearedForClose(con) ==
  LET listed == UsedSlots(con.resultSetIds)
  IN  IF listed = {} THEN con
      ELSE IF con.resultSets[First(listed)].completed = 0 THEN NULL
      ELSE WithoutResult(con, FirstListed(con.resultSetIds))

CloseConnection(id) ==
  /\ ValidConnection(id)
  /\ LET con  == ClearedForClose(Connection(id))
         indx == Lookup(connectionIds, id)
     IN  /\ con # NULL
         /\ con.num_res = 0
         /\ sessions' = sessions \ {con.drvConnection}
         /\ connectionIds' = FreeEntry(connectionIds, indx)
         /\ connections' = [connections EXCEPT ![indx] = NULL]
  /\ num_con' = num_con - 1
  /\ UNCHANGED <<mgr, counter, nextSession, nextToken, historyVars>>

\* More than one result set was open: the first was cleared, the call refused.
CloseConnectionRefused(id) ==
  /\ ValidConnection(id)
  /\ LET con == ClearedForClose(Connection(id))
     IN  con # NULL /\ con.num_res > 0 /\ UpdateConnection(id, con)
  /\ UNCHANGED <<mgr, counter, num_con, connectionIds, serverVars, historyVars>>

-----------------------------------------------------------------------------
\* R presents any handle it was ever given; the call succeeds if it is valid.
Next ==
  \/ InitIgnored
  \/ \E max_con \in MaxConChoices : InitAllocates(max_con) \/ InitFails(max_con)
  \/ CloseManager
  \/ NewConnection
  \/ NewConnectionTableFull
  \/ NewConnectionNoMemory
  \/ \E h \in conHandles :
       \/ CloneConnection(h[1])
       \/ \E isSelect \in BOOLEAN : Exec(h[1], isSelect)
       \/ \E isSelect \in BOOLEAN : ExecParams(h[1], isSelect)
       \/ ExecFails(h[1])
       \/ CloseConnection(h[1])
       \/ CloseConnectionRefused(h[1])
  \/ \E h \in resHandles :
       \/ Fetch(h[1], h[2])
       \/ CloseResultSet(h[1], h[2])

Spec == Init /\ [][Next]_vars

-----------------------------------------------------------------------------
(* Properties. *)

\* The shape of every variable.
TypeOK ==
  /\ mgr \in {"absent", "live", "closed", "freed"}
  /\ counter \in Nat /\ num_con \in Nat
  /\ \E len \in MaxConChoices \cup {0} :
       /\ connectionIds \in Tables(len, Nat)
       /\ connections \in [0..len-1 -> Connections \cup {NULL}]
  /\ nextSession \in Nat /\ nextToken \in Nat
  /\ sessions \subseteq Nat
  /\ conHandles \subseteq Nat \X Nat
  /\ resHandles \subseteq Nat \X Nat \X Nat

\* The two arrays of a connection's result-set table agree cell by cell.
ResultTableAgrees(con) ==
  \A j \in 0..MaxRes-1 :
    IF con.resultSetIds[j] = EmptyVal THEN con.resultSets[j] = NULL
    ELSE /\ con.resultSets[j] # NULL
         /\ con.resultSets[j].resultSetId = con.resultSetIds[j]

\* The two arrays of the manager, and of every connection, tell one story: an id
\* is in cell i exactly if cell i of the other array holds the object of that
\* id.  The "corrupt connection object" and "missing resultSet" errors of
\* RS_DBI_getConnection and RS_DBI_getResultSet are unreachable.
TablesAgree ==
  \A i \in DOMAIN connectionIds :
    IF connectionIds[i] = EmptyVal THEN connections[i] = NULL
    ELSE /\ connections[i] # NULL
         /\ connections[i].connectionId = connectionIds[i]
         /\ ResultTableAgrees(connections[i])

\* No id is in two cells, and every id is below the counter it was drawn from.
IdsDistinct ==
  \A i \in UsedSlots(connectionIds) :
    /\ connectionIds[i] < counter
    /\ \A j \in UsedSlots(connectionIds) : connectionIds[i] = connectionIds[j] => i = j

\* mgr->num_con counts the used cells: the "corrupt RS_DBI connection table"
\* error of RS_PostgreSQL_managerInfo never happens.
NumConCounts == num_con = Cardinality(UsedSlots(connectionIds))

\* con->num_res counts the open result sets of each connection: the "corrupt
\* RS_DBI resultSet table" error of RS_PostgreSQL_connectionInfo never happens.
NumResCounts ==
  \A i \in UsedSlots(connectionIds) :
    connections[i].num_res = Cardinality(UsedSlots(connections[i].resultSetIds))

\* What dbGetInfo() counts is what it lists, for the driver and for a connection.
CountsMatchTables == NumConCounts /\ NumResCounts

\* A connection handle R kept, however old, either fails the validity test or
\* reaches the very session it was issued for, and that session is still open.
HandleDenotesItsSession ==
  \A h \in conHandles :
    ValidConnection(h[1]) => /\ Connection(h[1]).drvConnection = h[2]
                             /\ h[2] \in sessions

\* A result handle R kept either fails the validity test or reaches the very
\* PGresult it was issued for.
ResultHandleDenotesItsResult ==
  \A h \in resHandles :
    ValidResult(h[1], h[2]) => ResultSet(h[1], h[2]).drvResultSet = h[3]

\* Two connections never share a session: closing one cannot cut off another.
SessionsNotShared ==
  \A i, j \in UsedSlots(connectionIds) :
    connections[i].drvConnection = connections[j].drvConnection => i = j

\* The object database is in order: its two arrays and the counts agree, ids are
\* unique and each connection has a session of its own, through every sequence
\* of connects, statements, disconnects, unloads and reloads.
TablesConsistent ==
  TypeOK /\ TablesAgree /\ CountsMatchTables /\ IdsDistinct /\ SessionsNotShared

\* No handle, of a connection or of a result and however old, reaches another
\* object than its own.
HandlesDenoteTheirObjects == HandleDenotesItsSession /\ ResultHandleDenotesItsResult

\* A handle that has become invalid never becomes valid again, through any
\* sequence of closes, unloads, reloads and new connections.
RetiredStaysRetired ==
  [][\A h \in conHandles : ~ValidConnection(h[1]) => ~ValidConnection(h[1])']_vars

\* A session is only ever closed while no rows are pending on its connection.
ClosedOnlyWhenIdle ==
  [][\A s \in sessions \ sessions', i \in UsedSlots(connectionIds) :
       connections[i].drvConnection = s =>
         \A j \in UsedSlots(connections[i].resultSetIds) :
           connections[i].resultSets[j].completed = 1]_vars

\* The registry of handles this object database implements.
Registry ==
  INSTANCE HandleRegistry WITH
    Ids      <- 0..MaxSessions,
    Sessions <- 0..MaxSessions,
    live     <- [id \in UsedIds(connectionIds) |-> Connection(id).drvConnection],
    retired  <- 0..counter-1 \ UsedIds(connectionIds)

\* Every behaviour of the tables is a behaviour of the registry.
RefinesRegistry == Registry!Spec
=============================================================================

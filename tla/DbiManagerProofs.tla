-------------------------- MODULE DbiManagerProofs --------------------------
(***************************************************************************)
(* What holds of the object database for every table size, every number of *)
(* result sets per connection and any number of connections ever opened.   *)
(***************************************************************************)
EXTENDS DbiManager, FiniteSetTheorems, WellFoundedInduction, TLAPS

-----------------------------------------------------------------------------
(* The object-id tables, for every length and whatever they hold: the scan, *)
(* and how claiming and freeing a cell change the set of used cells.        *)

\* A non-empty set of natural numbers has a least element.
LEMMA LeastElement ==
  ASSUME NEW S \in SUBSET Nat, S # {}
  PROVE  \E i \in S : \A j \in S : i <= j
<1> DEFINE R == {ss \in Nat \X Nat : ss[1] < ss[2]}
<1>1. OpToRel(<, Nat) = R
  BY DEF OpToRel
<1>2. IsWellFoundedOn(R, Nat)
  BY <1>1, NatLessThanWellFounded
<1>3. \A i, j \in Nat : j < i => <<j, i>> \in R
  OBVIOUS
<1> HIDE DEF R
<1>4. PICK i \in S : \A j \in S : ~ (<<j, i>> \in R)
  BY <1>2, WFMin
<1>5. \A j \in S : i <= j
  <2> TAKE j \in S
  <2>1. i \in Nat /\ j \in Nat /\ ~(j < i)
    BY <1>3, <1>4
  <2> QED BY <2>1
<1> QED BY <1>5

\* RS_DBI_newEntry and RS_DBI_lookup return the first cell that holds the id,
\* and -1 exactly when there is none.
THEOREM FirstHoldingIsFirst ==
  ASSUME NEW len \in Nat, NEW table, DOMAIN table = 0..len-1, NEW id
  PROVE  LET k == FirstHolding(table, id)
         IN  IF SlotsHolding(table, id) = {} THEN k = -1
             ELSE /\ k \in 0..len-1 /\ table[k] = id
                  /\ \A j \in SlotsHolding(table, id) : k <= j
<1> DEFINE slots == SlotsHolding(table, id)
<1>1. slots \in SUBSET (0..len-1)
  BY DEF SlotsHolding
<1>2. CASE slots = {}
  BY <1>2 DEF FirstHolding
<1>3. CASE slots # {}
  <2>1. \E i \in slots : \A j \in slots : i <= j
    BY <1>1, <1>3, LeastElement
  <2>2. /\ FirstHolding(table, id) \in slots
        /\ \A j \in slots : FirstHolding(table, id) <= j
    BY <2>1, <1>3 DEF FirstHolding, First
  <2> QED BY <2>2, <1>3 DEF SlotsHolding
<1> QED BY <1>2, <1>3

\* RS_DBI_allocManager and RS_DBI_allocConnection start from a table that is
\* all empty.
THEOREM NewTableIsEmpty ==
  ASSUME NEW len \in Nat
  PROVE  /\ NewTable(len) \in Tables(len, Nat)
         /\ DOMAIN NewTable(len) = 0..len-1
         /\ UsedSlots(NewTable(len)) = {}
         /\ IsFiniteSet(UsedSlots(NewTable(len)))
         /\ Cardinality(UsedSlots(NewTable(len))) = 0
<1>1. UsedSlots(NewTable(len)) = {}
  BY DEF UsedSlots, NewTable
<1>2. NewTable(len) \in Tables(len, Nat) /\ DOMAIN NewTable(len) = 0..len-1
  BY DEF NewTable, Tables
<1> QED BY <1>1, <1>2, FS_EmptySet

\* The used cells of a table are finitely many.
LEMMA UsedSlotsFinite ==
  ASSUME NEW len \in Nat, NEW table \in Tables(len, Nat)
  PROVE  /\ IsFiniteSet(UsedSlots(table))
         /\ Cardinality(UsedSlots(table)) \in Nat
<1>1. UsedSlots(table) \in SUBSET (0..len-1)
  BY DEF UsedSlots, Tables
<1>2. IsFiniteSet(0..len-1)
  BY FS_Interval
<1> QED BY <1>1, <1>2, FS_Subset, FS_CardinalityType

\* Writing an id into an empty cell makes that cell, and no other, used.
THEOREM ClaimedCell ==
  ASSUME NEW len \in Nat, NEW table \in Tables(len, Nat),
         NEW i \in 0..len-1, table[i] = EmptyVal, NEW id \in Nat
  PROVE  /\ ClaimEntry(table, i, id) \in Tables(len, Nat)
         /\ UsedSlots(ClaimEntry(table, i, id)) = UsedSlots(table) \cup {i}
         /\ Cardinality(UsedSlots(ClaimEntry(table, i, id))) =
              Cardinality(UsedSlots(table)) + 1
<1>1. ClaimEntry(table, i, id) \in Tables(len, Nat)
  BY DEF Tables, ClaimEntry
<1>2. UsedSlots(ClaimEntry(table, i, id)) = UsedSlots(table) \cup {i}
  BY DEF Tables, UsedSlots, EmptyVal, ClaimEntry
<1>3. i \notin UsedSlots(table)
  BY DEF UsedSlots
<1> QED BY <1>1, <1>2, <1>3, UsedSlotsFinite, FS_AddElement

\* RS_DBI_freeEntry on a used cell makes that cell, and no other, empty.
THEOREM FreedCell ==
  ASSUME NEW len \in Nat, NEW table \in Tables(len, Nat), NEW i \in UsedSlots(table)
  PROVE  /\ FreeEntry(table, i) \in Tables(len, Nat)
         /\ UsedSlots(FreeEntry(table, i)) = UsedSlots(table) \ {i}
         /\ Cardinality(UsedSlots(FreeEntry(table, i))) =
              Cardinality(UsedSlots(table)) - 1
<1>1. FreeEntry(table, i) \in Tables(len, Nat)
  BY DEF Tables, FreeEntry, EmptyVal
<1>2. UsedSlots(FreeEntry(table, i)) = UsedSlots(table) \ {i}
  BY DEF Tables, UsedSlots, EmptyVal, FreeEntry
<1> QED BY <1>1, <1>2, UsedSlotsFinite, FS_RemoveElement

-----------------------------------------------------------------------------
(* One connection: its result-set table. *)

\* A connection object whose result-set table is in order.
ConOK(con) ==
  /\ con \in Connections
  /\ ResultTableAgrees(con)
  /\ con.num_res = Cardinality(UsedSlots(con.resultSetIds))

\* A new connection is in order.
LEMMA FreshConnectionOK ==
  ASSUME NEW con_id \in Nat, NEW session \in Nat
  PROVE  ConOK(FreshConnection(con_id, session))
<1> DEFINE con == FreshConnection(con_id, session)
<1>1. MaxRes \in Nat
  BY MaxResAssumption
<1>2. con \in Connections
  BY <1>1, NewTableIsEmpty DEF FreshConnection, Connections
<1>3. ResultTableAgrees(con)
  BY <1>1 DEF FreshConnection, ResultTableAgrees, NewTable
<1>4. con.num_res = Cardinality(UsedSlots(con.resultSetIds))
  BY <1>1, NewTableIsEmpty DEF FreshConnection
<1> QED BY <1>2, <1>3, <1>4 DEF ConOK

\* Replacing the result-set table of a connection leaves the rest of it alone.
LEMMA WithTableFields ==
  ASSUME NEW con \in Connections, NEW ids \in Tables(MaxRes, Nat),
         NEW sets \in [0..MaxRes-1 -> ResultSets \cup {NULL}], NEW num \in Nat
  PROVE  LET new == WithTable(con, ids, sets, num)
         IN  /\ new \in Connections
             /\ new.resultSetIds = ids /\ new.resultSets = sets
             /\ new.num_res = num /\ new.counter = con.counter
             /\ new.connectionId = con.connectionId
             /\ new.drvConnection = con.drvConnection
<1> DEFINE one == [con EXCEPT !.resultSetIds = ids]
           two == [one EXCEPT !.resultSets = sets]
           new == [two EXCEPT !.num_res = num]
<1>1. one \in Connections
  BY DEF Connections
<1>2. two \in Connections
  <2> HIDE DEF one
  <2> QED BY <1>1 DEF Connections
<1>3. new \in Connections
  <2> HIDE DEF two
  <2> QED BY <1>2 DEF Connections
<1>4. WithTable(con, ids, sets, num) = new
  BY DEF WithTable
<1> QED BY <1>3, <1>4 DEF WithTable, Connections

\* The table of a connection in order, spelt out.
LEMMA ConOKFacts ==
  ASSUME NEW con, ConOK(con)
  PROVE  /\ MaxRes \in Nat /\ 0 \in 0..MaxRes-1
         /\ con \in Connections
         /\ con.counter \in Nat /\ con.num_res \in Nat
         /\ con.connectionId \in Nat /\ con.drvConnection \in Nat
         /\ con.resultSetIds \in Tables(MaxRes, Nat)
         /\ DOMAIN con.resultSetIds = 0..MaxRes-1
         /\ con.resultSets \in [0..MaxRes-1 -> ResultSets \cup {NULL}]
BY MaxResAssumption DEF ConOK, Connections, Tables

\* RS_DBI_allocResultSet keeps a connection in order when it finds a cell.
LEMMA WithResultOK ==
  ASSUME NEW con, ConOK(con), NewEntry(con.resultSetIds) >= 0,
         NEW token \in Nat, NEW completed \in {0, 1}
  PROVE  /\ ConOK(WithResult(con, token, completed))
         /\ WithResult(con, token, completed).connectionId = con.connectionId
         /\ WithResult(con, token, completed).drvConnection = con.drvConnection
<1> DEFINE indx == NewEntry(con.resultSetIds)
           new  == WithResult(con, token, completed)
           rs   == [resultSetId |-> con.counter, drvResultSet |-> token,
                    completed |-> completed]
           ids  == ClaimEntry(con.resultSetIds, indx, con.counter)
           sets == [con.resultSets EXCEPT ![indx] = rs]
           num  == con.num_res + 1
           filled == WithTable(con, ids, sets, num)
<1>0. /\ MaxRes \in Nat /\ con \in Connections
      /\ con.counter \in Nat /\ con.num_res \in Nat
      /\ con.resultSetIds \in Tables(MaxRes, Nat)
      /\ DOMAIN con.resultSetIds = 0..MaxRes-1
      /\ con.resultSets \in [0..MaxRes-1 -> ResultSets \cup {NULL}]
  BY ConOKFacts
<1> USE <1>0
<1>1. indx \in 0..MaxRes-1 /\ con.resultSetIds[indx] = EmptyVal
  BY FirstHoldingIsFirst DEF NewEntry
<1>2. /\ ids \in Tables(MaxRes, Nat)
      /\ Cardinality(UsedSlots(ids)) = Cardinality(UsedSlots(con.resultSetIds)) + 1
  BY <1>1, ClaimedCell
<1>3. rs \in ResultSets /\ rs # NULL
  BY NullAssumption DEF ResultSets
<1>4. sets \in [0..MaxRes-1 -> ResultSets \cup {NULL}] /\ num \in Nat
  <2> HIDE DEF rs, indx
  <2>1. sets \in [0..MaxRes-1 -> ResultSets \cup {NULL}]
    BY <1>3
  <2> QED BY <2>1
<1>5. /\ filled \in Connections
      /\ filled.resultSetIds = ids /\ filled.resultSets = sets
      /\ filled.num_res = num /\ filled.counter = con.counter
      /\ filled.connectionId = con.connectionId
      /\ filled.drvConnection = con.drvConnection
  <2> HIDE DEF ids, sets, num
  <2> QED BY <1>2, <1>4, WithTableFields
<1>6. new = [filled EXCEPT !.counter = @ + 1]
  BY DEF WithResult
<1>7. /\ new \in Connections
      /\ new.resultSetIds = ids /\ new.resultSets = sets
      /\ new.num_res = num /\ new.connectionId = con.connectionId
      /\ new.drvConnection = con.drvConnection
  <2> HIDE DEF filled, ids, sets, num, new
  <2>1. filled.counter + 1 \in Nat
    BY <1>5
  <2>2. new \in Connections
    BY <1>5, <1>6, <2>1 DEF Connections
  <2> QED BY <1>5, <1>6, <2>2 DEF Connections
<1>8. ResultTableAgrees(new)
  <2> SUFFICES ASSUME NEW j \in 0..MaxRes-1
               PROVE  IF ids[j] = EmptyVal THEN sets[j] = NULL
                      ELSE sets[j] # NULL /\ sets[j].resultSetId = ids[j]
    BY <1>7 DEF ResultTableAgrees
  <2>1. CASE j = indx
    <3>1. ids[j] = con.counter /\ sets[j] = rs
      BY <2>1 DEF ClaimEntry
    <3> QED BY <3>1, <1>3 DEF EmptyVal
  <2>2. CASE j # indx
    <3>1. ids[j] = con.resultSetIds[j] /\ sets[j] = con.resultSets[j]
      BY <2>2 DEF ClaimEntry
    <3> QED BY <3>1 DEF ConOK, ResultTableAgrees
  <2> QED BY <2>1, <2>2
<1>9. new.num_res = Cardinality(UsedSlots(new.resultSetIds))
  BY <1>2, <1>7 DEF ConOK
<1> QED BY <1>7, <1>8, <1>9 DEF ConOK

\* RS_DBI_freeResultSet keeps a connection in order when the id is in the table.
LEMMA WithoutResultOK ==
  ASSUME NEW con, ConOK(con), NEW rid \in Nat, Lookup(con.resultSetIds, rid) >= 0
  PROVE  /\ ConOK(WithoutResult(con, rid))
         /\ WithoutResult(con, rid).connectionId = con.connectionId
         /\ WithoutResult(con, rid).drvConnection = con.drvConnection
<1> DEFINE indx == Lookup(con.resultSetIds, rid)
           new  == WithoutResult(con, rid)
           ids  == FreeEntry(con.resultSetIds, indx)
           sets == [con.resultSets EXCEPT ![indx] = NULL]
           num  == con.num_res - 1
<1>0. /\ MaxRes \in Nat /\ con \in Connections
      /\ con.counter \in Nat /\ con.num_res \in Nat
      /\ con.resultSetIds \in Tables(MaxRes, Nat)
      /\ DOMAIN con.resultSetIds = 0..MaxRes-1
      /\ con.resultSets \in [0..MaxRes-1 -> ResultSets \cup {NULL}]
  BY ConOKFacts
<1> USE <1>0
<1>1. indx \in 0..MaxRes-1 /\ con.resultSetIds[indx] = rid
  BY FirstHoldingIsFirst DEF Lookup
<1>2. indx \in UsedSlots(con.resultSetIds)
  BY <1>1 DEF UsedSlots, EmptyVal
<1>3. /\ ids \in Tables(MaxRes, Nat)
      /\ Cardinality(UsedSlots(ids)) = Cardinality(UsedSlots(con.resultSetIds)) - 1
      /\ Cardinality(UsedSlots(ids)) \in Nat
  BY <1>2, FreedCell, UsedSlotsFinite
<1>4. sets \in [0..MaxRes-1 -> ResultSets \cup {NULL}]
  OBVIOUS
<1>5. num = Cardinality(UsedSlots(ids)) /\ num \in Nat
  BY <1>3 DEF ConOK
<1>6. /\ new \in Connections
      /\ new.resultSetIds = ids /\ new.resultSets = sets
      /\ new.num_res = num /\ new.connectionId = con.connectionId
      /\ new.drvConnection = con.drvConnection
  <2>1. new = WithTable(con, ids, sets, num)
    BY DEF WithoutResult
  <2> HIDE DEF ids, sets, num, new
  <2>2. ids \in Tables(MaxRes, Nat) /\ num \in Nat
    BY <1>3, <1>5
  <2> DEFINE w == WithTable(con, ids, sets, num)
  <2>3. /\ w \in Connections
        /\ w.resultSetIds = ids /\ w.resultSets = sets
        /\ w.num_res = num /\ w.connectionId = con.connectionId
        /\ w.drvConnection = con.drvConnection
    BY <1>4, <2>2, WithTableFields
  <2> QED BY <2>1, <2>3
<1>7. ResultTableAgrees(new)
  <2> SUFFICES ASSUME NEW j \in 0..MaxRes-1
               PROVE  IF ids[j] = EmptyVal THEN sets[j] = NULL
                      ELSE sets[j] # NULL /\ sets[j].resultSetId = ids[j]
    BY <1>6 DEF ResultTableAgrees
  <2>1. CASE j = indx
    BY <2>1 DEF FreeEntry
  <2>2. CASE j # indx
    <3>1. ids[j] = con.resultSetIds[j] /\ sets[j] = con.resultSets[j]
      BY <2>2 DEF FreeEntry
    <3> QED BY <3>1 DEF ConOK, ResultTableAgrees
  <2> QED BY <2>1, <2>2
<1> QED BY <1>5, <1>6, <1>7 DEF ConOK

\* A fetch that exhausts the rows keeps a connection in order.
LEMMA WithCompletedOK ==
  ASSUME NEW con, ConOK(con), NEW rid \in Nat,
         Lookup(con.resultSetIds, rid) \in 0..MaxRes-1,
         con.resultSets[Lookup(con.resultSetIds, rid)] # NULL
  PROVE  /\ ConOK(WithCompleted(con, rid))
         /\ WithCompleted(con, rid).connectionId = con.connectionId
         /\ WithCompleted(con, rid).drvConnection = con.drvConnection
<1> DEFINE indx == Lookup(con.resultSetIds, rid)
           old  == con.resultSets[indx]
           done == [old EXCEPT !.completed = 1]
           sets == [con.resultSets EXCEPT ![indx] = done]
           new  == [con EXCEPT !.resultSets = sets]
<1>1. /\ con \in Connections
      /\ con.resultSets \in [0..MaxRes-1 -> ResultSets \cup {NULL}]
  BY ConOKFacts
<1>2. WithCompleted(con, rid) = new
  BY DEF WithCompleted
<1>3. old \in ResultSets
  BY <1>1
<1>4. done \in ResultSets /\ done.resultSetId = old.resultSetId /\ done # NULL
  BY <1>3, NullAssumption DEF ResultSets
<1> HIDE DEF indx, done
<1>5. sets \in [0..MaxRes-1 -> ResultSets \cup {NULL}]
  BY <1>1, <1>4
<1>6. sets[indx] = done /\ \A j \in 0..MaxRes-1 : j # indx => sets[j] = con.resultSets[j]
  BY <1>1 DEF indx
<1> HIDE DEF sets
<1>7. /\ new \in Connections
      /\ new.resultSets = sets /\ new.resultSetIds = con.resultSetIds
      /\ new.num_res = con.num_res /\ new.connectionId = con.connectionId
      /\ new.drvConnection = con.drvConnection
  BY <1>1, <1>5 DEF Connections
<1>8. ResultTableAgrees(new)
  <2> SUFFICES ASSUME NEW j \in 0..MaxRes-1
               PROVE  IF con.resultSetIds[j] = EmptyVal THEN sets[j] = NULL
                      ELSE sets[j] # NULL /\ sets[j].resultSetId = con.resultSetIds[j]
    BY <1>7 DEF ResultTableAgrees
  <2>1. IF con.resultSetIds[j] = EmptyVal THEN con.resultSets[j] = NULL
        ELSE con.resultSets[j] # NULL /\ con.resultSets[j].resultSetId = con.resultSetIds[j]
    BY DEF ConOK, ResultTableAgrees
  <2>2. CASE j = indx
    BY <2>1, <2>2, <1>4, <1>6 DEF indx
  <2>3. CASE j # indx
    BY <2>1, <2>3, <1>6
  <2> QED BY <2>2, <2>3
<1> QED BY <1>2, <1>7, <1>8 DEF ConOK

\* A result handle that passes the validity test stands for a cell of its
\* connection that holds a result set.
LEMMA ValidResultCell ==
  ASSUME NEW id, NEW rid \in Nat, ConOK(Connection(id)), ValidResult(id, rid)
  PROVE  LET con  == Connection(id)
             indx == Lookup(con.resultSetIds, rid)
         IN  /\ indx \in 0..MaxRes-1 /\ indx >= 0
             /\ con.resultSetIds[indx] = rid
             /\ con.resultSets[indx] # NULL
             /\ ResultSet(id, rid) = con.resultSets[indx]
<1> DEFINE con == Connection(id)
           indx == Lookup(con.resultSetIds, rid)
<1>1. MaxRes \in Nat /\ DOMAIN con.resultSetIds = 0..MaxRes-1
  BY ConOKFacts
<1>2. ~(indx < 0) /\ ResultSet(id, rid) = con.resultSets[indx] /\ con.resultSets[indx] # NULL
  BY DEF ValidResult, ResultSet
<1>3. indx \in 0..MaxRes-1 /\ con.resultSetIds[indx] = rid
  BY <1>1, <1>2, FirstHoldingIsFirst DEF Lookup
<1> QED BY <1>2, <1>3

\* What RS_PostgreSQL_exec leaves of a connection is in order.
LEMMA ReadyForStatementOK ==
  ASSUME NEW con, ConOK(con), ReadyForStatement(con) # NULL
  PROVE  /\ ConOK(ReadyForStatement(con))
         /\ ReadyForStatement(con).connectionId = con.connectionId
         /\ ReadyForStatement(con).drvConnection = con.drvConnection
<1> DEFINE rid == con.resultSetIds[0]
<1>1. CASE con.num_res = 0
  BY <1>1 DEF ReadyForStatement
<1>2. CASE con.num_res # 0
  <2>1. con.resultSets[0] # NULL /\ ReadyForStatement(con) = WithoutResult(con, rid)
    BY <1>2 DEF ReadyForStatement
  <2>2. 0 \in 0..MaxRes-1 /\ con.resultSetIds \in Tables(MaxRes, Nat)
        /\ DOMAIN con.resultSetIds = 0..MaxRes-1 /\ MaxRes \in Nat
    BY ConOKFacts
  <2>3. rid # EmptyVal
    BY <2>1, <2>2 DEF ConOK, ResultTableAgrees
  <2>4. rid \in Nat
    BY <2>2, <2>3 DEF Tables
  <2>5. SlotsHolding(con.resultSetIds, rid) # {}
    BY <2>2 DEF SlotsHolding
  <2>6. Lookup(con.resultSetIds, rid) >= 0
    BY <2>2, <2>5, FirstHoldingIsFirst DEF Lookup
  <2> QED BY <2>1, <2>4, <2>6, WithoutResultOK
<1> QED BY <1>1, <1>2

\* What postgresqlCloseConnection leaves of a connection is in order.
LEMMA ClearedForCloseOK ==
  ASSUME NEW con, ConOK(con), ClearedForClose(con) # NULL
  PROVE  /\ ConOK(ClearedForClose(con))
         /\ ClearedForClose(con).connectionId = con.connectionId
         /\ ClearedForClose(con).drvConnection = con.drvConnection
<1> DEFINE listed == UsedSlots(con.resultSetIds)
           rid == FirstListed(con.resultSetIds)
<1>1. CASE listed = {}
  BY <1>1 DEF ClearedForClose
<1>2. CASE listed # {}
  <2>1. ClearedForClose(con) = WithoutResult(con, rid)
    BY <1>2 DEF ClearedForClose
  <2>2. con.resultSetIds \in Tables(MaxRes, Nat)
        /\ DOMAIN con.resultSetIds = 0..MaxRes-1 /\ MaxRes \in Nat
    BY ConOKFacts
  <2>3. listed \in SUBSET (0..MaxRes-1)
    BY <2>2 DEF UsedSlots
  <2>4. First(listed) \in listed
    <3>1. \E i \in listed : \A j \in listed : i <= j
      BY <2>2, <2>3, <1>2, LeastElement
    <3> QED BY <3>1 DEF First
  <2>5. rid \in Nat /\ SlotsHolding(con.resultSetIds, rid) # {}
    BY <2>2, <2>4 DEF FirstListed, SlotsHolding, UsedSlots, Tables
  <2>6. Lookup(con.resultSetIds, rid) >= 0
    BY <2>2, <2>5, FirstHoldingIsFirst DEF Lookup
  <2> QED BY <2>1, <2>5, <2>6, WithoutResultOK
<1> QED BY <1>1, <1>2

-----------------------------------------------------------------------------
(* The manager: its connection table. *)

\* The part of the invariant that speaks of the tables.
TableInv ==
  /\ mgr \in {"absent", "live", "closed", "freed"}
  /\ counter \in Nat
  /\ \E len \in MaxConChoices \cup {0} :
       /\ connectionIds \in Tables(len, Nat)
       /\ connections \in [0..len-1 -> Connections \cup {NULL}]
  /\ TablesAgree
  /\ NumConCounts
  /\ NumResCounts

\* The part that speaks of the server and of the handles issued.
WorldInv ==
  /\ nextSession \in Nat /\ nextToken \in Nat
  /\ sessions \subseteq Nat
  /\ conHandles \subseteq Nat \X Nat
  /\ resHandles \subseteq Nat \X Nat \X Nat

IInv == TableInv /\ WorldInv

\* The length of the connection table.
LEMMA TableLength ==
  ASSUME TableInv
  PROVE  \E len \in MaxConChoices \cup {0} :
           /\ len \in Nat
           /\ DOMAIN connectionIds = 0..len-1
           /\ connectionIds \in Tables(len, Nat)
           /\ connections \in [0..len-1 -> Connections \cup {NULL}]
BY ChoicesAssumption DEF TableInv, Tables

\* A used cell holds a connection that is in order.
LEMMA UsedCellOK ==
  ASSUME TableInv, NEW i \in UsedSlots(connectionIds)
  PROVE  /\ ConOK(connections[i])
         /\ connections[i] # NULL
         /\ connections[i].connectionId = connectionIds[i]
         /\ connectionIds[i] \in Nat
<1>1. PICK len \in MaxConChoices \cup {0} :
        /\ len \in Nat
        /\ DOMAIN connectionIds = 0..len-1
        /\ connectionIds \in Tables(len, Nat)
        /\ connections \in [0..len-1 -> Connections \cup {NULL}]
  BY TableLength
<1>2. i \in 0..len-1 /\ connectionIds[i] # EmptyVal
  BY <1>1 DEF UsedSlots
<1>3. /\ connections[i] # NULL
      /\ connections[i].connectionId = connectionIds[i]
      /\ ResultTableAgrees(connections[i])
  BY <1>1, <1>2 DEF TableInv, TablesAgree
<1>4. connections[i] \in Connections /\ connectionIds[i] \in Nat
  BY <1>1, <1>2, <1>3 DEF Tables
<1>5. connections[i].num_res = Cardinality(UsedSlots(connections[i].resultSetIds))
  BY DEF TableInv, NumResCounts
<1> QED BY <1>3, <1>4, <1>5 DEF ConOK

\* A handle that passes the validity test stands for a used cell.
LEMMA ValidConnectionCell ==
  ASSUME TableInv, NEW id \in Nat, ValidConnection(id)
  PROVE  LET indx == Lookup(connectionIds, id)
         IN  /\ indx \in UsedSlots(connectionIds)
             /\ connectionIds[indx] = id
             /\ Connection(id) = connections[indx]
             /\ ConOK(Connection(id))
             /\ Connection(id).connectionId = id
<1> DEFINE indx == Lookup(connectionIds, id)
<1>1. PICK len \in MaxConChoices \cup {0} :
        len \in Nat /\ DOMAIN connectionIds = 0..len-1
  BY TableLength
<1>2. ~(indx < 0) /\ Connection(id) = connections[indx]
  BY DEF ValidConnection, Connection
<1>3. indx \in 0..len-1 /\ connectionIds[indx] = id
  BY <1>1, <1>2, FirstHoldingIsFirst DEF Lookup
<1>4. indx \in UsedSlots(connectionIds)
  BY <1>1, <1>3 DEF UsedSlots, EmptyVal
<1> QED BY <1>2, <1>3, <1>4, UsedCellOK

\* Replacing the object of a valid handle by one in order keeps the tables so.
LEMMA UpdateKeepsTables ==
  ASSUME TableInv, NEW id \in Nat, ValidConnection(id),
         NEW con, ConOK(con), con.connectionId = id,
         UpdateConnection(id, con),
         UNCHANGED <<mgr, counter, num_con, connectionIds>>
  PROVE  TableInv'
<1> DEFINE indx == Lookup(connectionIds, id)
<1>1. PICK len \in MaxConChoices \cup {0} :
        /\ len \in Nat
        /\ DOMAIN connectionIds = 0..len-1
        /\ connectionIds \in Tables(len, Nat)
        /\ connections \in [0..len-1 -> Connections \cup {NULL}]
  BY TableLength
<1>2. indx \in UsedSlots(connectionIds) /\ connectionIds[indx] = id
  BY ValidConnectionCell
<1>3. indx \in 0..len-1 /\ connectionIds[indx] # EmptyVal
  BY <1>1, <1>2 DEF UsedSlots
<1>4. /\ con \in Connections /\ con # NULL
      /\ ResultTableAgrees(con)
      /\ con.num_res = Cardinality(UsedSlots(con.resultSetIds))
  BY NullAssumption DEF ConOK
<1>5. connections' = [connections EXCEPT ![indx] = con]
  BY DEF UpdateConnection
<1>6. connections' \in [0..len-1 -> Connections \cup {NULL}]
  BY <1>1, <1>4, <1>5
<1>7. connections'[indx] = con
      /\ \A i \in 0..len-1 : i # indx => connections'[i] = connections[i]
  BY <1>1, <1>3, <1>5
<1>8. TablesAgree'
  <2> SUFFICES ASSUME NEW i \in 0..len-1
               PROVE  IF connectionIds[i] = EmptyVal THEN connections'[i] = NULL
                      ELSE /\ connections'[i] # NULL
                           /\ connections'[i].connectionId = connectionIds[i]
                           /\ ResultTableAgrees(connections'[i])
    BY <1>1 DEF TablesAgree, ResultTableAgrees
  <2>1. CASE i = indx
    BY <2>1, <1>2, <1>3, <1>4, <1>7
  <2>2. CASE i # indx
    BY <2>2, <1>1, <1>7 DEF TableInv, TablesAgree
  <2> QED BY <2>1, <2>2
<1>9. NumResCounts'
  <2> SUFFICES ASSUME NEW i \in UsedSlots(connectionIds)
               PROVE  connections'[i].num_res =
                        Cardinality(UsedSlots(connections'[i].resultSetIds))
    BY DEF NumResCounts
  <2>1. CASE i = indx
    BY <2>1, <1>4, <1>7
  <2>2. CASE i # indx
    BY <2>2, <1>1, <1>7 DEF TableInv, NumResCounts, UsedSlots
  <2> QED BY <2>1, <2>2
<1>10. NumConCounts'
  BY DEF TableInv, NumConCounts
<1> QED BY <1>1, <1>6, <1>8, <1>9, <1>10 DEF TableInv

\* Empty tables of any length are in order.
LEMMA EmptyTables ==
  ASSUME NEW len \in MaxConChoices \cup {0}, counter' \in Nat,
         mgr' \in {"absent", "live", "closed", "freed"},
         num_con' = 0, connectionIds' = NewTable(len),
         connections' = [i \in 0..len-1 |-> NULL]
  PROVE  TableInv'
<1>1. len \in Nat
  BY ChoicesAssumption
<1>2. connectionIds' \in Tables(len, Nat)
      /\ connections' \in [0..len-1 -> Connections \cup {NULL}]
  BY <1>1, NewTableIsEmpty
<1>3. UsedSlots(connectionIds') = {} /\ Cardinality(UsedSlots(connectionIds')) = 0
  BY <1>1, NewTableIsEmpty
<1>4. TablesAgree'
  <2>1. \A i \in 0..len-1 : connectionIds'[i] = EmptyVal /\ connections'[i] = NULL
    BY DEF NewTable
  <2>2. DOMAIN connectionIds' = 0..len-1
    BY <1>1, NewTableIsEmpty
  <2> QED BY <2>1, <2>2 DEF TablesAgree
<1>5. NumConCounts' /\ NumResCounts'
  BY <1>3 DEF NumConCounts, NumResCounts
<1> QED BY <1>2, <1>4, <1>5 DEF TableInv

\* Claiming a cell for a new connection keeps the tables in order.
LEMMA NewConnectionKeepsTables ==
  ASSUME IInv, NewConnection
  PROVE  TableInv'
<1> DEFINE indx == NewEntry(connectionIds)
           con  == FreshConnection(counter, nextSession)
<1>1. PICK len \in MaxConChoices \cup {0} :
        /\ len \in Nat
        /\ DOMAIN connectionIds = 0..len-1
        /\ connectionIds \in Tables(len, Nat)
        /\ connections \in [0..len-1 -> Connections \cup {NULL}]
  BY TableLength DEF IInv
<1>2. /\ indx >= 0
      /\ connections' = [connections EXCEPT ![indx] = con]
      /\ connectionIds' = ClaimEntry(connectionIds, indx, counter)
      /\ num_con' = num_con + 1 /\ counter' = counter + 1 /\ mgr' = mgr
  BY DEF NewConnection
<1>3. indx \in 0..len-1 /\ connectionIds[indx] = EmptyVal
  BY <1>1, <1>2, FirstHoldingIsFirst DEF NewEntry
<1>4. counter \in Nat /\ nextSession \in Nat
  BY DEF IInv, TableInv, WorldInv
<1>5. ConOK(con) /\ con.connectionId = counter
  BY <1>4, FreshConnectionOK DEF FreshConnection
<1>6. /\ con \in Connections /\ con # NULL
      /\ ResultTableAgrees(con)
      /\ con.num_res = Cardinality(UsedSlots(con.resultSetIds))
  BY <1>5, NullAssumption DEF ConOK
<1> HIDE DEF con, indx
<1>7. /\ connectionIds' \in Tables(len, Nat)
      /\ UsedSlots(connectionIds') = UsedSlots(connectionIds) \cup {indx}
      /\ Cardinality(UsedSlots(connectionIds')) = Cardinality(UsedSlots(connectionIds)) + 1
  BY <1>1, <1>2, <1>3, <1>4, ClaimedCell
<1>8. connections' \in [0..len-1 -> Connections \cup {NULL}]
  BY <1>1, <1>2, <1>6
<1>9. /\ connectionIds'[indx] = counter /\ connections'[indx] = con
      /\ DOMAIN connectionIds' = 0..len-1
      /\ \A i \in 0..len-1 : i # indx => /\ connectionIds'[i] = connectionIds[i]
                                         /\ connections'[i] = connections[i]
  BY <1>1, <1>2, <1>3 DEF ClaimEntry
<1>10. TablesAgree'
  <2> SUFFICES ASSUME NEW i \in 0..len-1
               PROVE  IF connectionIds'[i] = EmptyVal THEN connections'[i] = NULL
                      ELSE /\ connections'[i] # NULL
                           /\ connections'[i].connectionId = connectionIds'[i]
                           /\ ResultTableAgrees(connections'[i])
    BY <1>9 DEF TablesAgree, ResultTableAgrees
  <2>1. CASE i = indx
    BY <2>1, <1>4, <1>5, <1>6, <1>9 DEF EmptyVal
  <2>2. CASE i # indx
    BY <2>2, <1>1, <1>9 DEF IInv, TableInv, TablesAgree
  <2> QED BY <2>1, <2>2
<1>11. NumResCounts'
  <2> SUFFICES ASSUME NEW i \in UsedSlots(connectionIds')
               PROVE  connections'[i].num_res =
                        Cardinality(UsedSlots(connections'[i].resultSetIds))
    BY DEF NumResCounts
  <2>1. CASE i = indx
    BY <2>1, <1>6, <1>9
  <2>2. CASE i # indx
    <3>1. i \in UsedSlots(connectionIds) /\ i \in 0..len-1
      BY <2>2, <1>1, <1>7 DEF UsedSlots
    <3> QED BY <2>2, <3>1, <1>9 DEF IInv, TableInv, NumResCounts
  <2> QED BY <2>1, <2>2
<1>12. NumConCounts'
  BY <1>2, <1>7 DEF IInv, TableInv, NumConCounts
<1>13. counter' \in Nat /\ mgr' \in {"absent", "live", "closed", "freed"}
  BY <1>2, <1>4 DEF IInv, TableInv
<1> QED BY <1>7, <1>8, <1>10, <1>11, <1>12, <1>13 DEF TableInv

\* Freeing the cell of a closed connection keeps the tables in order.
LEMMA CloseConnectionKeepsTables ==
  ASSUME TableInv, NEW id \in Nat, CloseConnection(id)
  PROVE  TableInv'
<1> DEFINE indx == Lookup(connectionIds, id)
<1>1. PICK len \in MaxConChoices \cup {0} :
        /\ len \in Nat
        /\ DOMAIN connectionIds = 0..len-1
        /\ connectionIds \in Tables(len, Nat)
        /\ connections \in [0..len-1 -> Connections \cup {NULL}]
  BY TableLength
<1>2. /\ connectionIds' = FreeEntry(connectionIds, indx)
      /\ connections' = [connections EXCEPT ![indx] = NULL]
      /\ num_con' = num_con - 1 /\ mgr' = mgr /\ counter' = counter
  BY DEF CloseConnection
<1>3. indx \in UsedSlots(connectionIds)
  BY ValidConnectionCell DEF CloseConnection
<1>4. indx \in 0..len-1
  BY <1>1, <1>3 DEF UsedSlots
<1> HIDE DEF indx
<1>5. /\ connectionIds' \in Tables(len, Nat)
      /\ UsedSlots(connectionIds') = UsedSlots(connectionIds) \ {indx}
      /\ Cardinality(UsedSlots(connectionIds')) = Cardinality(UsedSlots(connectionIds)) - 1
  BY <1>1, <1>2, <1>3, FreedCell
<1>6. connections' \in [0..len-1 -> Connections \cup {NULL}]
  BY <1>1, <1>2
<1>7. /\ connectionIds'[indx] = EmptyVal /\ connections'[indx] = NULL
      /\ DOMAIN connectionIds' = 0..len-1
      /\ \A i \in 0..len-1 : i # indx => /\ connectionIds'[i] = connectionIds[i]
                                         /\ connections'[i] = connections[i]
  BY <1>1, <1>2, <1>4 DEF FreeEntry
<1>8. TablesAgree'
  <2> SUFFICES ASSUME NEW i \in 0..len-1
               PROVE  IF connectionIds'[i] = EmptyVal THEN connections'[i] = NULL
                      ELSE /\ connections'[i] # NULL
                           /\ connections'[i].connectionId = connectionIds'[i]
                           /\ ResultTableAgrees(connections'[i])
    BY <1>7 DEF TablesAgree, ResultTableAgrees
  <2>1. CASE i = indx
    BY <2>1, <1>7
  <2>2. CASE i # indx
    BY <2>2, <1>1, <1>7 DEF TableInv, TablesAgree
  <2> QED BY <2>1, <2>2
<1>9. NumResCounts'
  <2> SUFFICES ASSUME NEW i \in UsedSlots(connectionIds')
               PROVE  connections'[i].num_res =
                        Cardinality(UsedSlots(connections'[i].resultSetIds))
    BY DEF NumResCounts
  <2>1. i # indx /\ i \in UsedSlots(connectionIds) /\ i \in 0..len-1
    BY <1>1, <1>5 DEF UsedSlots
  <2> QED BY <2>1, <1>7 DEF TableInv, NumResCounts
<1>10. NumConCounts'
  BY <1>2, <1>5 DEF TableInv, NumConCounts
<1> QED BY <1>2, <1>5, <1>6, <1>8, <1>9, <1>10 DEF TableInv

-----------------------------------------------------------------------------
(* The inductive step. *)

\* A call on one connection that leaves it open.
ConnectionStep(id, rid, isSelect) ==
  \/ Exec(id, isSelect) \/ ExecParams(id, isSelect) \/ ExecFails(id)
  \/ CloseConnectionRefused(id)
  \/ Fetch(id, rid) \/ CloseResultSet(id, rid)

\* Such a call replaces the object of the handle by one that is in order and
\* still has the id and the session of the old one.
LEMMA ConnectionStepUpdates ==
  ASSUME IInv, NEW id \in Nat, NEW rid \in Nat, NEW isSelect \in BOOLEAN,
         ConnectionStep(id, rid, isSelect)
  PROVE  /\ ValidConnection(id)
         /\ UNCHANGED <<mgr, counter, num_con, connectionIds, sessions, nextSession,
                        conHandles>>
         /\ \E new : /\ ConOK(new)
                     /\ new.connectionId = id
                     /\ new.drvConnection = Connection(id).drvConnection
                     /\ UpdateConnection(id, new)
<1> DEFINE con == Connection(id)
           flag == IF isSelect THEN 0 ELSE 1
           Updated == \E new : /\ ConOK(new)
                              /\ new.connectionId = id
                              /\ new.drvConnection = con.drvConnection
                              /\ UpdateConnection(id, new)
<1> USE DEF ConnectionStep
<1>1. /\ ValidConnection(id)
      /\ UNCHANGED <<mgr, counter, num_con, connectionIds, sessions, nextSession,
                     conHandles>>
  BY DEF Exec, ExecParams, Wrap, ExecFails, CloseConnectionRefused, Fetch,
         CloseResultSet, ValidResult, serverVars, historyVars
<1>2. TableInv /\ nextToken \in Nat /\ flag \in {0, 1}
  BY DEF IInv, WorldInv
<1>3. ConOK(con) /\ con.connectionId = id
  BY <1>1, <1>2, ValidConnectionCell
<1> HIDE DEF con
<1>4. ASSUME NEW from, ConOK(from), from.connectionId = id,
             from.drvConnection = con.drvConnection, Wrap(id, from, isSelect)
      PROVE  Updated
  BY <1>4, <1>2, WithResultOK DEF Wrap
<1>5. ASSUME Exec(id, isSelect) PROVE Updated
  <2>1. ReadyForStatement(con) # NULL /\ Wrap(id, ReadyForStatement(con), isSelect)
    BY <1>5 DEF Exec, con
  <2> QED BY <2>1, <1>3, <1>4, ReadyForStatementOK
<1>6. ASSUME ExecParams(id, isSelect) PROVE Updated
  BY <1>6, <1>3, <1>4 DEF ExecParams, con
<1>7. ASSUME ExecFails(id) PROVE Updated
  BY <1>7, <1>3, ReadyForStatementOK DEF ExecFails, con
<1>8. ASSUME CloseConnectionRefused(id) PROVE Updated
  BY <1>8, <1>3, ClearedForCloseOK DEF CloseConnectionRefused, con
<1>9. ASSUME Fetch(id, rid) PROVE Updated
  <2>1. /\ Lookup(con.resultSetIds, rid) \in 0..MaxRes-1
        /\ con.resultSets[Lookup(con.resultSetIds, rid)] # NULL
    BY <1>9, <1>3, ValidResultCell DEF Fetch, con
  <2>2. UpdateConnection(id, WithCompleted(con, rid))
    BY <1>9 DEF Fetch, con
  <2> QED BY <2>1, <2>2, <1>3, WithCompletedOK
<1>10. ASSUME CloseResultSet(id, rid) PROVE Updated
  <2>1. Lookup(con.resultSetIds, rid) >= 0
    BY <1>10, <1>3, ValidResultCell DEF CloseResultSet, con
  <2> QED BY <2>1, <1>3, <1>10, WithoutResultOK DEF CloseResultSet, con
<1> HIDE DEF Updated
<1>11. Updated
  BY <1>5, <1>6, <1>7, <1>8, <1>9, <1>10
<1> QED BY <1>1, <1>11 DEF con, Updated

\* Every step keeps the tables in order.
LEMMA NextKeepsTables ==
  ASSUME IInv, [Next]_vars
  PROVE  TableInv'
<1>1. ASSUME UNCHANGED vars PROVE TableInv'
  BY <1>1 DEF vars, mgrVars, IInv, TableInv, TablesAgree, NumConCounts, NumResCounts,
             ResultTableAgrees, UsedSlots
<1>2. counter \in Nat /\ MaxConChoices \cup {0} # {} /\ num_con = num_con
  BY DEF IInv, TableInv
<1>3. CASE InitIgnored
  BY <1>1, <1>3 DEF InitIgnored
<1>4. ASSUME NEW max_con \in MaxConChoices, InitAllocates(max_con) PROVE TableInv'
  BY <1>2, <1>4, EmptyTables DEF InitAllocates
<1>5. ASSUME NEW max_con \in MaxConChoices, InitFails(max_con) PROVE TableInv'
  <2>1. connections' = [i \in 0..0-1 |-> NULL]
    BY <1>5 DEF InitFails
  <2> QED BY <1>2, <1>5, <2>1, EmptyTables DEF InitFails
<1>6. CASE CloseManager
  <2>1. connections' = [i \in 0..0-1 |-> NULL]
    BY <1>6 DEF CloseManager
  <2> QED BY <1>2, <1>6, <2>1, EmptyTables DEF CloseManager
<1>7. CASE NewConnection
  BY <1>7, NewConnectionKeepsTables
<1>8. CASE NewConnectionTableFull \/ NewConnectionNoMemory
  <2>1. UNCHANGED mgrVars
    BY <1>8 DEF NewConnectionTableFull, NewConnectionNoMemory, ConnectionLost
  <2> QED BY <2>1 DEF mgrVars, IInv, TableInv, TablesAgree, NumConCounts, NumResCounts,
             ResultTableAgrees, UsedSlots
<1>9. ASSUME NEW h \in conHandles, NEW isSelect \in BOOLEAN,
             \/ CloneConnection(h[1]) \/ Exec(h[1], isSelect) \/ ExecParams(h[1], isSelect)
             \/ ExecFails(h[1]) \/ CloseConnection(h[1]) \/ CloseConnectionRefused(h[1])
      PROVE  TableInv'
  <2>1. h[1] \in Nat
    BY DEF IInv, WorldInv
  <2>2. CASE CloneConnection(h[1])
    BY <2>2, NewConnectionKeepsTables DEF CloneConnection
  <2>3. CASE CloseConnection(h[1])
    BY <2>1, <2>3, CloseConnectionKeepsTables DEF IInv
  <2>4. CASE ConnectionStep(h[1], 0, isSelect)
    <3>1. PICK new : /\ ConOK(new) /\ new.connectionId = h[1]
                     /\ UpdateConnection(h[1], new)
      BY <2>1, <2>4, ConnectionStepUpdates
    <3> QED BY <2>1, <2>4, <3>1, ConnectionStepUpdates, UpdateKeepsTables DEF IInv
  <2> QED BY <1>9, <2>2, <2>3, <2>4 DEF ConnectionStep
<1>10. ASSUME NEW h \in resHandles, Fetch(h[1], h[2]) \/ CloseResultSet(h[1], h[2])
       PROVE  TableInv'
  <2>1. h[1] \in Nat /\ h[2] \in Nat
    BY DEF IInv, WorldInv
  <2>2. ConnectionStep(h[1], h[2], TRUE)
    BY <1>10 DEF ConnectionStep
  <2>3. PICK new : /\ ConOK(new) /\ new.connectionId = h[1]
                   /\ UpdateConnection(h[1], new)
    BY <2>1, <2>2, ConnectionStepUpdates
  <2> QED BY <2>1, <2>2, <2>3, ConnectionStepUpdates, UpdateKeepsTables DEF IInv
<1> QED BY <1>1, <1>3, <1>4, <1>5, <1>6, <1>7, <1>8, <1>9, <1>10 DEF Next

\* Every step keeps the server and the handles well formed.
LEMMA NextKeepsWorld ==
  ASSUME IInv, [Next]_vars
  PROVE  WorldInv'
<1> USE DEF IInv, WorldInv
<1>1. CASE UNCHANGED <<serverVars, historyVars>>
  BY <1>1 DEF serverVars, historyVars
<1>2. CASE NewConnection
  BY <1>2 DEF NewConnection, OpenSession, TableInv
<1>3. CASE NewConnectionTableFull \/ NewConnectionNoMemory
  <2>1. OpenSession /\ UNCHANGED <<mgrVars, historyVars>>
    BY <1>3 DEF NewConnectionTableFull, NewConnectionNoMemory, ConnectionLost
  <2>2. UNCHANGED <<conHandles, resHandles>>
    BY <2>1 DEF historyVars
  <2> QED BY <2>1, <2>2 DEF OpenSession
<1>4. ASSUME NEW id \in Nat, NEW con, NEW isSelect \in BOOLEAN, con.counter \in Nat,
             Wrap(id, con, isSelect)
      PROVE  WorldInv'
  BY <1>4 DEF Wrap
<1>5. ASSUME NEW h \in conHandles, NEW isSelect \in BOOLEAN,
             Exec(h[1], isSelect) \/ ExecParams(h[1], isSelect)
      PROVE  WorldInv'
  <2>1. h[1] \in Nat /\ ValidConnection(h[1])
    BY <1>5 DEF Exec, ExecParams
  <2>2. ConOK(Connection(h[1]))
    BY <2>1, ValidConnectionCell
  <2>3. \A con : ConOK(con) => con.counter \in Nat
    BY ConOKFacts
  <2>4. CASE Exec(h[1], isSelect)
    <3>1. /\ ReadyForStatement(Connection(h[1])) # NULL
          /\ Wrap(h[1], ReadyForStatement(Connection(h[1])), isSelect)
      BY <2>4 DEF Exec
    <3> QED BY <2>1, <2>2, <2>3, <3>1, <1>4, ReadyForStatementOK
  <2>5. CASE ExecParams(h[1], isSelect)
    BY <2>1, <2>2, <2>3, <2>5, <1>4 DEF ExecParams
  <2> QED BY <1>5, <2>4, <2>5
<1>6. ASSUME NEW h \in conHandles, CloseConnection(h[1]) PROVE WorldInv'
  BY <1>6 DEF CloseConnection, historyVars
<1>7. ASSUME UNCHANGED vars PROVE UNCHANGED <<serverVars, historyVars>>
  BY <1>7 DEF vars
<1>8. ASSUME NEW h \in conHandles, CloneConnection(h[1]) PROVE NewConnection
  BY <1>8 DEF CloneConnection
<1>9. ASSUME Next PROVE WorldInv'
  <2>1. ASSUME \/ InitIgnored \/ CloseManager
               \/ \E n \in MaxConChoices : InitAllocates(n) \/ InitFails(n)
               \/ \E h \in conHandles : ExecFails(h[1]) \/ CloseConnectionRefused(h[1])
               \/ \E h \in resHandles : Fetch(h[1], h[2]) \/ CloseResultSet(h[1], h[2])
        PROVE  UNCHANGED <<serverVars, historyVars>>
    BY <2>1 DEF InitIgnored, vars, CloseManager, InitAllocates, InitFails, ExecFails,
                CloseConnectionRefused, Fetch, CloseResultSet
  <2> QED BY <1>9, <2>1, <1>1, <1>2, <1>3, <1>5, <1>6, <1>8 DEF Next
<1> QED BY <1>1, <1>7, <1>9

\* The first state is in order.
LEMMA InitEstablishes == Init => IInv
<1> SUFFICES ASSUME Init PROVE IInv
  OBVIOUS
<1>1. /\ connectionIds = NewTable(0) /\ connections = [i \in 0..0-1 |-> NULL]
      /\ num_con = 0 /\ counter = 0 /\ mgr = "absent"
  BY DEF Init
<1>2. /\ connectionIds \in Tables(0, Nat)
      /\ connections \in [0..0-1 -> Connections \cup {NULL}]
      /\ DOMAIN connectionIds = {}
      /\ UsedSlots(connectionIds) = {} /\ Cardinality(UsedSlots(connectionIds)) = 0
  BY <1>1, NewTableIsEmpty
<1>3. TableInv
  BY <1>1, <1>2 DEF TableInv, TablesAgree, NumConCounts, NumResCounts
<1> QED BY <1>3 DEF IInv, WorldInv, Init

LEMMA IInvHolds == Spec => []IInv
<1>1. IInv /\ [Next]_vars => IInv'
  BY NextKeepsTables, NextKeepsWorld DEF IInv
<1> QED BY <1>1, InitEstablishes, PTL DEF Spec

\* Every variable keeps its shape.
THEOREM TypeCorrect == Spec => []TypeOK
<1>1. IInv => TypeOK
  <2> SUFFICES ASSUME IInv PROVE TypeOK
    OBVIOUS
  <2>1. num_con \in Nat
    BY TableLength, UsedSlotsFinite DEF IInv, TableInv, NumConCounts
  <2> QED BY <2>1 DEF IInv, TableInv, WorldInv, TypeOK
<1> QED BY <1>1, IInvHolds, PTL

\* For every table size the parallel arrays agree: the "corrupt object" errors
\* of RS-DBI.c are unreachable.
THEOREM TablesAlwaysAgree == Spec => []TablesAgree
<1>1. IInv => TablesAgree
  BY DEF IInv, TableInv
<1> QED BY <1>1, IInvHolds, PTL

\* For every table size num_con and num_res count what the tables hold: the
\* "corrupt table" errors of managerInfo and connectionInfo are unreachable.
THEOREM CountsAlwaysRight == Spec => []CountsMatchTables
<1>1. IInv => CountsMatchTables
  BY DEF IInv, TableInv, CountsMatchTables
<1> QED BY <1>1, IInvHolds, PTL

-----------------------------------------------------------------------------
(***************************************************************************)
(* The handles of R: what a handle denotes, that it dies for good, and     *)
(* that the tables of RS-DBI.c implement HandleRegistry.                   *)
(***************************************************************************)

\* The session of the connection in cell i.
SessionAt(i) == connections[i].drvConnection

\* Every used cell holds an id that was issued, for a session that is still open and
\* that no other cell has; an id was issued once; and what is to come is new.
HandleInv ==
  /\ counter <= nextSession
  /\ \A s \in sessions : s < nextSession
  /\ \A h \in conHandles : h[1] < counter
  /\ \A g, h \in conHandles : g[1] = h[1] => g[2] = h[2]
  /\ \A i \in UsedSlots(connectionIds) :
       SessionAt(i) \in sessions /\ <<connectionIds[i], SessionAt(i)>> \in conHandles
  /\ IdsDistinct
  /\ SessionsNotShared

-----------------------------------------------------------------------------
(* Handles and cells. *)

\* A handle is valid exactly if its id is in the table of a live manager.
LEMMA ValidIffUsed ==
  TableInv =>
    \A id \in Nat : ValidConnection(id) <=> mgr = "live" /\ id \in UsedIds(connectionIds)
<1> SUFFICES ASSUME TableInv, NEW id \in Nat
             PROVE  ValidConnection(id) <=> mgr = "live" /\ id \in UsedIds(connectionIds)
  OBVIOUS
<1>1. ASSUME ValidConnection(id) PROVE mgr = "live" /\ id \in UsedIds(connectionIds)
  BY <1>1, ValidConnectionCell DEF ValidConnection, ValidManager, UsedIds
<1>2. ASSUME mgr = "live", id \in UsedIds(connectionIds) PROVE ValidConnection(id)
  <2>1. PICK len \in MaxConChoices \cup {0} :
          len \in Nat /\ DOMAIN connectionIds = 0..len-1
    BY TableLength
  <2>2. SlotsHolding(connectionIds, id) # {}
    BY <1>2 DEF SlotsHolding, UsedIds, UsedSlots
  <2>3. /\ Lookup(connectionIds, id) \in 0..len-1
        /\ connectionIds[Lookup(connectionIds, id)] = id
    BY <2>1, <2>2, FirstHoldingIsFirst DEF Lookup
  <2>4. Lookup(connectionIds, id) \in UsedSlots(connectionIds)
    BY <2>1, <2>3 DEF UsedSlots, EmptyVal
  <2>5. Connection(id) = connections[Lookup(connectionIds, id)]
    BY <2>1, <2>3 DEF Connection
  <2> QED BY <1>2, <2>4, <2>5, UsedCellOK DEF ValidConnection, ValidManager
<1> QED BY <1>1, <1>2

\* The id in a used cell resolves to the object in that cell.
LEMMA ConnectionOfCell ==
  TableInv /\ IdsDistinct =>
    \A i \in UsedSlots(connectionIds) : Connection(connectionIds[i]) = connections[i]
<1> SUFFICES ASSUME TableInv, IdsDistinct, NEW i \in UsedSlots(connectionIds)
             PROVE  Connection(connectionIds[i]) = connections[i]
  OBVIOUS
<1> DEFINE id == connectionIds[i]
           indx == Lookup(connectionIds, id)
<1>1. PICK len \in MaxConChoices \cup {0} :
        len \in Nat /\ DOMAIN connectionIds = 0..len-1
  BY TableLength
<1>2. SlotsHolding(connectionIds, id) # {}
  BY DEF SlotsHolding, UsedSlots
<1>3. indx \in 0..len-1 /\ connectionIds[indx] = id
  BY <1>1, <1>2, FirstHoldingIsFirst DEF Lookup
<1>4. indx \in UsedSlots(connectionIds)
  BY <1>1, <1>3 DEF UsedSlots
<1>5. indx = i
  BY <1>3, <1>4 DEF IdsDistinct
<1> QED BY <1>1, <1>3, <1>5 DEF Connection

-----------------------------------------------------------------------------
(* The steps, as they look from the handles. *)

\* The cells hold the same ids for the same sessions.
SameCells ==
  /\ UNCHANGED <<mgr, counter, connectionIds, conHandles>>
  /\ \A i \in UsedSlots(connectionIds) : SessionAt(i)' = SessionAt(i)

\* At most one of the objects is touched, by a call on its handle.
OneObject ==
  \/ UNCHANGED <<connections, resHandles>>
  \/ \E id, rid \in Nat, isSelect \in BOOLEAN : ConnectionStep(id, rid, isSelect)

\* Nothing happens to the handles; a session may have been opened in vain.
Quiet ==
  /\ SameCells /\ OneObject
  /\ \/ UNCHANGED <<sessions, nextSession>>
     \/ OpenSession

\* All cells are emptied.
Emptied ==
  /\ UsedSlots(connectionIds') = {}
  /\ UNCHANGED <<counter, conHandles, resHandles, sessions, nextSession>>

\* Cell indx gets the next id, for a new session.
Issued ==
  \E indx :
    /\ mgr = "live" /\ OpenSession
    /\ indx \notin UsedSlots(connectionIds)
    /\ UsedSlots(connectionIds') = UsedSlots(connectionIds) \cup {indx}
    /\ \A i \in UsedSlots(connectionIds) :
         connectionIds'[i] = connectionIds[i] /\ SessionAt(i)' = SessionAt(i)
    /\ connectionIds'[indx] = counter /\ SessionAt(indx)' = nextSession
    /\ \A i \in UsedSlots(connectionIds) : connections'[i] = connections[i]
    /\ connections'[indx] = FreshConnection(counter, nextSession)
    /\ counter' = counter + 1 /\ resHandles' = resHandles
    /\ conHandles' = conHandles \cup {<<counter, nextSession>>}

\* Cell indx is freed and its session closed.
Closed ==
  \E indx \in UsedSlots(connectionIds) :
    /\ mgr = "live"
    /\ UsedSlots(connectionIds') = UsedSlots(connectionIds) \ {indx}
    /\ \A i \in UsedSlots(connectionIds') :
         connectionIds'[i] = connectionIds[i] /\ SessionAt(i)' = SessionAt(i)
    /\ \A i \in UsedSlots(connectionIds') : connections'[i] = connections[i]
    /\ sessions' = sessions \ {SessionAt(indx)}
    /\ UNCHANGED <<counter, nextSession, conHandles, resHandles>>

\* A connect claims an empty cell.
LEMMA NewConnectionIssues ==
  ASSUME IInv, NewConnection
  PROVE  Issued
<1> DEFINE con == FreshConnection(counter, nextSession)
<1>0. PICK indx : indx = NewEntry(connectionIds)
  OBVIOUS
<1>1. PICK len \in MaxConChoices \cup {0} :
        /\ len \in Nat
        /\ DOMAIN connectionIds = 0..len-1
        /\ connectionIds \in Tables(len, Nat)
        /\ connections \in [0..len-1 -> Connections \cup {NULL}]
  BY TableLength DEF IInv
<1>2. /\ mgr = "live" /\ OpenSession /\ indx >= 0
      /\ connections' = [connections EXCEPT ![indx] = con]
      /\ connectionIds' = ClaimEntry(connectionIds, indx, counter)
      /\ counter' = counter + 1
      /\ conHandles' = conHandles \cup {<<counter, nextSession>>}
      /\ resHandles' = resHandles
  BY <1>0 DEF NewConnection, ValidManager
<1>3. indx \in 0..len-1 /\ connectionIds[indx] = EmptyVal
  BY <1>0, <1>1, <1>2, FirstHoldingIsFirst DEF NewEntry
<1>4. con.drvConnection = nextSession /\ counter \in Nat
  BY DEF FreshConnection, IInv, TableInv
<1> HIDE DEF con
<1>5. UsedSlots(connectionIds') = UsedSlots(connectionIds) \cup {indx}
  BY <1>1, <1>2, <1>3, <1>4, ClaimedCell
<1>6. indx \notin UsedSlots(connectionIds)
  BY <1>3 DEF UsedSlots
<1>7. \A i \in UsedSlots(connectionIds) : i \in 0..len-1 /\ i # indx
  BY <1>1, <1>6 DEF UsedSlots
<1>8. connectionIds'[indx] = counter /\ connections'[indx] = con
  BY <1>1, <1>2, <1>3 DEF ClaimEntry
<1>9. \A i \in UsedSlots(connectionIds) :
        connectionIds'[i] = connectionIds[i] /\ connections'[i] = connections[i]
  BY <1>1, <1>2, <1>7 DEF ClaimEntry
<1>10. /\ SessionAt(indx)' = nextSession
       /\ \A i \in UsedSlots(connectionIds) : SessionAt(i)' = SessionAt(i)
  BY <1>4, <1>8, <1>9 DEF SessionAt
<1> QED BY <1>2, <1>5, <1>6, <1>8, <1>9, <1>10 DEF Issued, con

\* A disconnect frees the cell of its handle.
LEMMA CloseConnectionCloses ==
  ASSUME IInv, NEW id \in Nat, CloseConnection(id)
  PROVE  Closed
<1> DEFINE indx == Lookup(connectionIds, id)
           con  == ClearedForClose(Connection(id))
<1>1. PICK len \in MaxConChoices \cup {0} :
        /\ len \in Nat
        /\ DOMAIN connectionIds = 0..len-1
        /\ connectionIds \in Tables(len, Nat)
        /\ connections \in [0..len-1 -> Connections \cup {NULL}]
  BY TableLength DEF IInv
<1>2. /\ ValidConnection(id) /\ mgr = "live" /\ con # NULL
      /\ connectionIds' = FreeEntry(connectionIds, indx)
      /\ connections' = [connections EXCEPT ![indx] = NULL]
      /\ sessions' = sessions \ {con.drvConnection}
      /\ UNCHANGED <<counter, nextSession, conHandles, resHandles>>
  BY DEF CloseConnection, ValidConnection, ValidManager, historyVars
<1>3. /\ indx \in UsedSlots(connectionIds)
      /\ Connection(id) = connections[indx] /\ ConOK(Connection(id))
  BY <1>2, ValidConnectionCell DEF IInv
<1>4. con.drvConnection = SessionAt(indx)
  BY <1>2, <1>3, ClearedForCloseOK DEF SessionAt
<1> HIDE DEF con, indx
<1>5. UsedSlots(connectionIds') = UsedSlots(connectionIds) \ {indx}
  BY <1>1, <1>2, <1>3, FreedCell
<1>6. \A i \in UsedSlots(connectionIds') : i \in 0..len-1 /\ i # indx
  BY <1>1, <1>5 DEF UsedSlots
<1>7. \A i \in UsedSlots(connectionIds') :
        connectionIds'[i] = connectionIds[i] /\ connections'[i] = connections[i]
  BY <1>1, <1>2, <1>6 DEF FreeEntry
<1> QED BY <1>2, <1>3, <1>4, <1>5, <1>7 DEF Closed, SessionAt

\* Any other call on a connection leaves the cells as they are.
LEMMA ConnectionStepIsQuiet ==
  ASSUME IInv, NEW id \in Nat, NEW rid \in Nat, NEW isSelect \in BOOLEAN,
         ConnectionStep(id, rid, isSelect)
  PROVE  Quiet
<1>1. /\ ValidConnection(id)
      /\ UNCHANGED <<mgr, counter, connectionIds, sessions, nextSession, conHandles>>
  BY ConnectionStepUpdates
<1>2. PICK new : /\ new.drvConnection = Connection(id).drvConnection
                 /\ UpdateConnection(id, new)
  BY ConnectionStepUpdates
<1> DEFINE indx == Lookup(connectionIds, id)
<1>3. connections' = [connections EXCEPT ![indx] = new]
  BY <1>2 DEF UpdateConnection
<1>4. indx \in UsedSlots(connectionIds) /\ Connection(id) = connections[indx]
  BY <1>1, ValidConnectionCell DEF IInv
<1>5. PICK len \in MaxConChoices \cup {0} :
        /\ DOMAIN connectionIds = 0..len-1
        /\ connections \in [0..len-1 -> Connections \cup {NULL}]
  BY TableLength DEF IInv
<1> HIDE DEF indx
<1>6. ASSUME NEW i \in UsedSlots(connectionIds) PROVE SessionAt(i)' = SessionAt(i)
  <2>1. i \in 0..len-1
    BY <1>5 DEF UsedSlots
  <2>2. CASE i = indx
    BY <1>2, <1>3, <1>4, <1>5, <2>1, <2>2 DEF SessionAt
  <2>3. CASE i # indx
    BY <1>3, <1>5, <2>1, <2>3 DEF SessionAt
  <2> QED BY <2>2, <2>3
<1> QED BY <1>1, <1>6 DEF Quiet, SameCells, OneObject

\* Every step is one of the four.
LEMMA StepsOfHandles ==
  ASSUME IInv, [Next]_vars
  PROVE  Quiet \/ Emptied \/ Issued \/ Closed
<1>1. ASSUME UNCHANGED vars PROVE Quiet
  BY <1>1 DEF vars, mgrVars, serverVars, historyVars, Quiet, SameCells, OneObject, SessionAt
<1>2. CASE InitIgnored
  BY <1>1, <1>2 DEF InitIgnored
<1>3. ASSUME NEW n \in MaxConChoices, InitAllocates(n) \/ InitFails(n) PROVE Emptied
  <2>1. n \in Nat
    BY ChoicesAssumption
  <2>2. connectionIds' \in {NewTable(n), NewTable(0)}
    BY <1>3 DEF InitAllocates, InitFails
  <2>3. UNCHANGED <<counter, serverVars, historyVars>>
    BY <1>3 DEF InitAllocates, InitFails
  <2>4. UsedSlots(connectionIds') = {}
    BY <2>1, <2>2, NewTableIsEmpty
  <2> QED BY <2>3, <2>4 DEF Emptied, serverVars, historyVars
<1>4. CASE CloseManager
  <2>1. UsedSlots(connectionIds') = {}
    BY <1>4, NewTableIsEmpty DEF CloseManager
  <2> QED BY <1>4, <2>1 DEF CloseManager, Emptied, serverVars, historyVars
<1>5. CASE NewConnectionTableFull \/ NewConnectionNoMemory
  BY <1>5 DEF NewConnectionTableFull, NewConnectionNoMemory, ConnectionLost,
              mgrVars, historyVars, Quiet, SameCells, OneObject, SessionAt
<1>6. ASSUME NEW h \in conHandles, NEW isSelect \in BOOLEAN,
             \/ CloneConnection(h[1]) \/ Exec(h[1], isSelect) \/ ExecParams(h[1], isSelect)
             \/ ExecFails(h[1]) \/ CloseConnection(h[1]) \/ CloseConnectionRefused(h[1])
      PROVE  Quiet \/ Issued \/ Closed
  <2>1. h[1] \in Nat
    BY DEF IInv, WorldInv
  <2>2. CASE CloneConnection(h[1])
    BY <2>2, NewConnectionIssues DEF CloneConnection
  <2>3. CASE CloseConnection(h[1])
    BY <2>1, <2>3, CloseConnectionCloses
  <2>4. CASE ConnectionStep(h[1], 0, isSelect)
    BY <2>1, <2>4, ConnectionStepIsQuiet
  <2> QED BY <1>6, <2>2, <2>3, <2>4 DEF ConnectionStep
<1>7. ASSUME NEW h \in resHandles, Fetch(h[1], h[2]) \/ CloseResultSet(h[1], h[2])
      PROVE  Quiet
  <2>1. h[1] \in Nat /\ h[2] \in Nat
    BY DEF IInv, WorldInv
  <2>2. ConnectionStep(h[1], h[2], TRUE)
    BY <1>7 DEF ConnectionStep
  <2> QED BY <2>1, <2>2, ConnectionStepIsQuiet
<1> QED BY <1>1, <1>2, <1>3, <1>4, <1>5, <1>6, <1>7, NewConnectionIssues DEF Next

-----------------------------------------------------------------------------
(* The invariant. *)

LEMMA InitEstablishesHandles == Init => HandleInv
<1> SUFFICES ASSUME Init PROVE HandleInv
  OBVIOUS
<1>1. UsedSlots(connectionIds) = {}
  BY NewTableIsEmpty DEF Init
<1> QED BY <1>1 DEF Init, HandleInv, IdsDistinct, SessionsNotShared

LEMMA QuietKeeps ==
  ASSUME IInv, HandleInv, Quiet
  PROVE  HandleInv'
<1> USE DEF HandleInv, Quiet, SameCells
<1>1. counter \in Nat /\ nextSession \in Nat /\ sessions \subseteq Nat
  BY DEF IInv, TableInv, WorldInv
<1>2. /\ counter' <= nextSession' /\ sessions \subseteq sessions'
      /\ \A s \in sessions' : s < nextSession'
  <2>1. CASE UNCHANGED <<sessions, nextSession>>
    BY <2>1
  <2>2. CASE OpenSession
    <3>1. nextSession' = nextSession + 1 /\ sessions' = sessions \cup {nextSession}
      BY <2>2 DEF OpenSession
    <3> QED BY <1>1, <3>1
  <2> QED BY <2>1, <2>2
<1>3. \A i \in UsedSlots(connectionIds) :
        /\ SessionAt(i)' \in sessions'
        /\ <<connectionIds[i], SessionAt(i)'>> \in conHandles
  BY <1>2
<1>4. SessionsNotShared'
  BY DEF SessionsNotShared, SessionAt
<1>5. IdsDistinct'
  BY DEF IdsDistinct
<1> QED BY <1>2, <1>3, <1>4, <1>5

LEMMA EmptiedKeeps ==
  ASSUME HandleInv, Emptied
  PROVE  HandleInv'
BY DEF HandleInv, Emptied, IdsDistinct, SessionsNotShared

LEMMA IssuedKeeps ==
  ASSUME IInv, HandleInv, Issued
  PROVE  HandleInv'
<1>1. /\ counter \in Nat /\ nextSession \in Nat /\ sessions \subseteq Nat
      /\ conHandles \subseteq Nat \X Nat
  BY DEF IInv, TableInv, WorldInv
<1>2. PICK indx :
        /\ OpenSession
        /\ UsedSlots(connectionIds') = UsedSlots(connectionIds) \cup {indx}
        /\ \A i \in UsedSlots(connectionIds) :
             connectionIds'[i] = connectionIds[i] /\ SessionAt(i)' = SessionAt(i)
        /\ connectionIds'[indx] = counter /\ SessionAt(indx)' = nextSession
        /\ counter' = counter + 1
        /\ conHandles' = conHandles \cup {<<counter, nextSession>>}
  BY DEF Issued
<1>3. nextSession' = nextSession + 1 /\ sessions' = sessions \cup {nextSession}
  BY <1>2 DEF OpenSession
<1>4. \A i \in UsedSlots(connectionIds) :
        /\ connectionIds[i] \in Nat /\ connectionIds[i] < counter
        /\ connectionIds[i] # counter /\ connectionIds[i] < counter + 1
        /\ SessionAt(i) \in sessions /\ SessionAt(i) # nextSession
        /\ <<connectionIds[i], SessionAt(i)>> \in conHandles
  <2> SUFFICES ASSUME NEW i \in UsedSlots(connectionIds)
               PROVE  /\ connectionIds[i] \in Nat /\ connectionIds[i] < counter
                      /\ SessionAt(i) \in sessions /\ SessionAt(i) \in Nat
                      /\ SessionAt(i) < nextSession
                      /\ <<connectionIds[i], SessionAt(i)>> \in conHandles
    BY <1>1
  <2>1. connectionIds[i] \in Nat
    BY UsedCellOK DEF IInv
  <2>2. connectionIds[i] < counter
    BY DEF HandleInv, IdsDistinct
  <2>3. SessionAt(i) \in sessions /\ <<connectionIds[i], SessionAt(i)>> \in conHandles
    BY DEF HandleInv
  <2> QED BY <1>1, <2>1, <2>2, <2>3 DEF HandleInv
<1>5. counter' <= nextSession' /\ \A s \in sessions' : s < nextSession'
  BY <1>1, <1>2, <1>3 DEF HandleInv
<1>6. \A h \in conHandles' : h[1] < counter'
  BY <1>1, <1>2 DEF HandleInv
<1>7. \A g, h \in conHandles' : g[1] = h[1] => g[2] = h[2]
  <2>1. \A h \in conHandles : h[1] # counter
    BY <1>1 DEF HandleInv
  <2> QED BY <1>2, <2>1 DEF HandleInv
<1>8. \A i \in UsedSlots(connectionIds') :
        SessionAt(i)' \in sessions' /\ <<connectionIds'[i], SessionAt(i)'>> \in conHandles'
  BY <1>2, <1>3, <1>4
<1>9. IdsDistinct'
  <2>1. \A i, j \in UsedSlots(connectionIds) : connectionIds[i] = connectionIds[j] => i = j
    BY DEF HandleInv, IdsDistinct
  <2>2. \A i \in UsedSlots(connectionIds) : connectionIds'[i] < counter /\ connectionIds'[i] # counter
    BY <1>1, <1>2, <1>4
  <2>3. \A i \in UsedSlots(connectionIds') : connectionIds'[i] < counter'
    <3> SUFFICES ASSUME NEW i \in UsedSlots(connectionIds')
                 PROVE  connectionIds'[i] < counter'
      OBVIOUS
    <3>1. CASE i \in UsedSlots(connectionIds)
      BY <3>1, <1>2, <1>4
    <3>2. CASE i = indx
      BY <3>2, <1>1, <1>2
    <3> QED BY <3>1, <3>2, <1>2
  <2>4. \A i, j \in UsedSlots(connectionIds') : connectionIds'[i] = connectionIds'[j] => i = j
    BY <1>2, <2>1, <2>2
  <2> QED BY <2>3, <2>4 DEF IdsDistinct
<1>10. SessionsNotShared'
  <2>1. \A i, j \in UsedSlots(connectionIds) : SessionAt(i) = SessionAt(j) => i = j
    BY DEF HandleInv, SessionsNotShared, SessionAt
  <2>2. \A i \in UsedSlots(connectionIds) : SessionAt(i)' # nextSession
    BY <1>1, <1>2, <1>4
  <2>3. \A i, j \in UsedSlots(connectionIds') : SessionAt(i)' = SessionAt(j)' => i = j
    BY <1>2, <2>1, <2>2
  <2> QED BY <2>3 DEF SessionsNotShared, SessionAt
<1> QED BY <1>5, <1>6, <1>7, <1>8, <1>9, <1>10 DEF HandleInv

LEMMA ClosedKeeps ==
  ASSUME HandleInv, Closed
  PROVE  HandleInv'
<1>1. PICK indx \in UsedSlots(connectionIds) :
        /\ UsedSlots(connectionIds') = UsedSlots(connectionIds) \ {indx}
        /\ \A i \in UsedSlots(connectionIds') :
             connectionIds'[i] = connectionIds[i] /\ SessionAt(i)' = SessionAt(i)
        /\ sessions' = sessions \ {SessionAt(indx)}
        /\ UNCHANGED <<counter, nextSession, conHandles>>
  BY DEF Closed
<1>2. \A i, j \in UsedSlots(connectionIds) : SessionAt(i) = SessionAt(j) => i = j
  BY DEF HandleInv, SessionsNotShared, SessionAt
<1>3. \A i \in UsedSlots(connectionIds') :
        SessionAt(i)' \in sessions' /\ <<connectionIds'[i], SessionAt(i)'>> \in conHandles'
  BY <1>1, <1>2 DEF HandleInv
<1>4. IdsDistinct'
  BY <1>1 DEF HandleInv, IdsDistinct
<1>5. SessionsNotShared'
  <2>1. \A i, j \in UsedSlots(connectionIds') : SessionAt(i)' = SessionAt(j)' => i = j
    BY <1>1, <1>2
  <2> QED BY <2>1 DEF SessionsNotShared, SessionAt
<1> QED BY <1>1, <1>3, <1>4, <1>5 DEF HandleInv

\* TableInv, WorldInv and HandleInv hold in every state.
LEMMA HandlesHold == Spec => [](IInv /\ HandleInv)
<1>1. Init => IInv /\ HandleInv
  BY InitEstablishes, InitEstablishesHandles
<1>2. IInv /\ HandleInv /\ [Next]_vars => (IInv /\ HandleInv)'
  BY NextKeepsTables, NextKeepsWorld, StepsOfHandles, QuietKeeps, EmptiedKeeps,
     IssuedKeeps, ClosedKeeps DEF IInv
<1> QED BY <1>1, <1>2, PTL DEF Spec

-----------------------------------------------------------------------------
(* The result handles. *)

\* The PGresult in cell j of con.
ResultIn(con, j) == con.resultSets[j].drvResultSet

\* new has no result set that con has not, in the same cells under the same ids.
Kept(con, new) ==
  /\ new.counter = con.counter
  /\ \A j \in UsedSlots(new.resultSetIds) :
       /\ j \in UsedSlots(con.resultSetIds)
       /\ new.resultSetIds[j] = con.resultSetIds[j]
       /\ ResultIn(new, j) = ResultIn(con, j)

\* new has what con has, and the PGresult token under the next id.
Added(con, new, token) ==
  /\ new.counter = con.counter + 1
  /\ \A j \in UsedSlots(new.resultSetIds) :
       \/ /\ new.resultSetIds[j] = con.counter
          /\ ResultIn(new, j) = token
       \/ /\ j \in UsedSlots(con.resultSetIds)
          /\ new.resultSetIds[j] = con.resultSetIds[j]
          /\ ResultIn(new, j) = ResultIn(con, j)

\* The ids in con were drawn from its counter, and a handle that has the id cid
\* of con was, too; if its own id is in a cell, its PGresult is in the same one.
Agrees(con, cid, handles) ==
  /\ \A j \in UsedSlots(con.resultSetIds) : con.resultSetIds[j] < con.counter
  /\ \A h \in handles : h[1] = cid =>
       /\ h[2] < con.counter
       /\ \A j \in UsedSlots(con.resultSetIds) :
            con.resultSetIds[j] = h[2] => ResultIn(con, j) = h[3]

\* Clearing a result set keeps the others.
LEMMA WithoutResultKeeps ==
  ASSUME NEW con, ConOK(con), NEW rid \in Nat, Lookup(con.resultSetIds, rid) >= 0
  PROVE  Kept(con, WithoutResult(con, rid))
<1> DEFINE indx == Lookup(con.resultSetIds, rid)
           new  == WithoutResult(con, rid)
           ids  == FreeEntry(con.resultSetIds, indx)
           sets == [con.resultSets EXCEPT ![indx] = NULL]
           num  == con.num_res - 1
<1>1. /\ MaxRes \in Nat /\ con \in Connections /\ con.num_res \in Nat
      /\ con.resultSetIds \in Tables(MaxRes, Nat)
      /\ DOMAIN con.resultSetIds = 0..MaxRes-1
      /\ con.resultSets \in [0..MaxRes-1 -> ResultSets \cup {NULL}]
  BY ConOKFacts
<1>2. indx \in 0..MaxRes-1 /\ con.resultSetIds[indx] = rid
  BY <1>1, FirstHoldingIsFirst DEF Lookup
<1>3. indx \in UsedSlots(con.resultSetIds)
  BY <1>1, <1>2 DEF UsedSlots, EmptyVal
<1>4. /\ ids \in Tables(MaxRes, Nat)
      /\ Cardinality(UsedSlots(ids)) = Cardinality(UsedSlots(con.resultSetIds)) - 1
      /\ Cardinality(UsedSlots(ids)) \in Nat
      /\ UsedSlots(ids) = UsedSlots(con.resultSetIds) \ {indx}
  BY <1>1, <1>3, FreedCell, UsedSlotsFinite
<1>5. num \in Nat
  BY <1>4 DEF ConOK
<1>6. \A j \in UsedSlots(ids) :
        /\ j \in UsedSlots(con.resultSetIds)
        /\ ids[j] = con.resultSetIds[j] /\ sets[j] = con.resultSets[j]
  BY <1>1, <1>4 DEF UsedSlots, FreeEntry
<1>7. new.resultSetIds = ids /\ new.resultSets = sets /\ new.counter = con.counter
  <2>1. new = WithTable(con, ids, sets, num)
    BY DEF WithoutResult
  <2>2. /\ con \in Connections /\ ids \in Tables(MaxRes, Nat) /\ num \in Nat
        /\ sets \in [0..MaxRes-1 -> ResultSets \cup {NULL}]
    BY <1>1, <1>4, <1>5
  <2> HIDE DEF ids, sets, num, new
  <2> DEFINE w == WithTable(con, ids, sets, num)
  <2>3. w.resultSetIds = ids /\ w.resultSets = sets /\ w.counter = con.counter
    BY <2>2, WithTableFields
  <2> QED BY <2>1, <2>3
<1> QED BY <1>6, <1>7 DEF Kept, ResultIn

\* A fetch that exhausts the rows keeps the PGresult in its cell.
LEMMA WithCompletedKeeps ==
  ASSUME NEW con, ConOK(con), NEW rid \in Nat,
         Lookup(con.resultSetIds, rid) \in 0..MaxRes-1,
         con.resultSets[Lookup(con.resultSetIds, rid)] # NULL
  PROVE  Kept(con, WithCompleted(con, rid))
<1> DEFINE indx == Lookup(con.resultSetIds, rid)
           done == [con.resultSets[indx] EXCEPT !.completed = 1]
           sets == [con.resultSets EXCEPT ![indx] = done]
           new  == [con EXCEPT !.resultSets = sets]
<1>1. /\ con \in Connections
      /\ DOMAIN con.resultSetIds = 0..MaxRes-1
      /\ con.resultSets \in [0..MaxRes-1 -> ResultSets \cup {NULL}]
  BY ConOKFacts
<1>2. WithCompleted(con, rid) = new
  BY DEF WithCompleted
<1>3. con.resultSets[indx] \in ResultSets
  BY <1>1
<1>4. done.drvResultSet = con.resultSets[indx].drvResultSet
  BY <1>3 DEF ResultSets
<1> HIDE DEF done, indx
<1>5. \A j \in 0..MaxRes-1 : sets[j].drvResultSet = con.resultSets[j].drvResultSet
  BY <1>1, <1>4
<1> HIDE DEF sets
<1>6. /\ new.counter = con.counter /\ new.resultSetIds = con.resultSetIds
      /\ new.resultSets = sets
  BY <1>1 DEF Connections
<1>7. UsedSlots(con.resultSetIds) \subseteq 0..MaxRes-1
  BY <1>1 DEF UsedSlots
<1> QED BY <1>2, <1>5, <1>6, <1>7 DEF Kept, ResultIn

\* So does what RS_PostgreSQL_exec clears.
LEMMA ReadyForStatementKeeps ==
  ASSUME NEW con, ConOK(con), ReadyForStatement(con) # NULL
  PROVE  Kept(con, ReadyForStatement(con))
<1> DEFINE rid == con.resultSetIds[0]
<1>1. CASE con.num_res = 0
  BY <1>1 DEF ReadyForStatement, Kept
<1>2. CASE con.num_res # 0
  <2>1. con.resultSets[0] # NULL /\ ReadyForStatement(con) = WithoutResult(con, rid)
    BY <1>2 DEF ReadyForStatement
  <2>2. 0 \in 0..MaxRes-1 /\ con.resultSetIds \in Tables(MaxRes, Nat)
        /\ DOMAIN con.resultSetIds = 0..MaxRes-1 /\ MaxRes \in Nat
    BY ConOKFacts
  <2>3. rid # EmptyVal
    BY <2>1, <2>2 DEF ConOK, ResultTableAgrees
  <2>4. rid \in Nat
    BY <2>2, <2>3 DEF Tables
  <2>5. SlotsHolding(con.resultSetIds, rid) # {}
    BY <2>2 DEF SlotsHolding
  <2>6. Lookup(con.resultSetIds, rid) >= 0
    BY <2>2, <2>5, FirstHoldingIsFirst DEF Lookup
  <2> QED BY <2>1, <2>4, <2>6, WithoutResultKeeps
<1> QED BY <1>1, <1>2

\* And what postgresqlCloseConnection clears.
LEMMA ClearedForCloseKeeps ==
  ASSUME NEW con, ConOK(con), ClearedForClose(con) # NULL
  PROVE  Kept(con, ClearedForClose(con))
<1> DEFINE listed == UsedSlots(con.resultSetIds)
           rid == FirstListed(con.resultSetIds)
<1>1. CASE listed = {}
  BY <1>1 DEF ClearedForClose, Kept
<1>2. CASE listed # {}
  <2>1. ClearedForClose(con) = WithoutResult(con, rid)
    BY <1>2 DEF ClearedForClose
  <2>2. con.resultSetIds \in Tables(MaxRes, Nat)
        /\ DOMAIN con.resultSetIds = 0..MaxRes-1 /\ MaxRes \in Nat
    BY ConOKFacts
  <2>3. listed \in SUBSET (0..MaxRes-1)
    BY <2>2 DEF UsedSlots
  <2>4. First(listed) \in listed
    <3>1. \E i \in listed : \A j \in listed : i <= j
      BY <2>2, <2>3, <1>2, LeastElement
    <3> QED BY <3>1 DEF First
  <2>5. rid \in Nat /\ SlotsHolding(con.resultSetIds, rid) # {}
    BY <2>2, <2>4 DEF FirstListed, SlotsHolding, UsedSlots, Tables
  <2>6. Lookup(con.resultSetIds, rid) >= 0
    BY <2>2, <2>5, FirstHoldingIsFirst DEF Lookup
  <2> QED BY <2>1, <2>5, <2>6, WithoutResultKeeps
<1> QED BY <1>1, <1>2

\* Wrapping a PGresult adds it under the next id.
LEMMA WithResultAdds ==
  ASSUME NEW con, ConOK(con), NewEntry(con.resultSetIds) >= 0,
         NEW token \in Nat, NEW completed \in {0, 1}
  PROVE  Added(con, WithResult(con, token, completed), token)
<1> DEFINE indx == NewEntry(con.resultSetIds)
           new  == WithResult(con, token, completed)
           rs   == [resultSetId |-> con.counter, drvResultSet |-> token,
                    completed |-> completed]
           ids  == ClaimEntry(con.resultSetIds, indx, con.counter)
           sets == [con.resultSets EXCEPT ![indx] = rs]
           num  == con.num_res + 1
           filled == WithTable(con, ids, sets, num)
<1>1. /\ MaxRes \in Nat /\ con \in Connections
      /\ con.counter \in Nat /\ con.num_res \in Nat
      /\ con.resultSetIds \in Tables(MaxRes, Nat)
      /\ DOMAIN con.resultSetIds = 0..MaxRes-1
      /\ con.resultSets \in [0..MaxRes-1 -> ResultSets \cup {NULL}]
  BY ConOKFacts
<1>2. indx \in 0..MaxRes-1 /\ con.resultSetIds[indx] = EmptyVal
  BY <1>1, FirstHoldingIsFirst DEF NewEntry
<1>3. /\ ids \in Tables(MaxRes, Nat)
      /\ UsedSlots(ids) = UsedSlots(con.resultSetIds) \cup {indx}
  BY <1>1, <1>2, ClaimedCell
<1>4. rs \in ResultSets /\ rs.drvResultSet = token
  BY <1>1 DEF ResultSets
<1>5. sets \in [0..MaxRes-1 -> ResultSets \cup {NULL}] /\ num \in Nat
  <2> HIDE DEF rs, indx
  <2>1. sets \in [0..MaxRes-1 -> ResultSets \cup {NULL}]
    BY <1>1, <1>4
  <2> QED BY <1>1, <2>1
<1>6. \A j \in UsedSlots(ids) :
        \/ j = indx /\ ids[j] = con.counter /\ sets[j] = rs
        \/ /\ j \in UsedSlots(con.resultSetIds)
           /\ ids[j] = con.resultSetIds[j] /\ sets[j] = con.resultSets[j]
  <2> HIDE DEF rs
  <2> SUFFICES ASSUME NEW j \in UsedSlots(ids)
               PROVE  \/ j = indx /\ ids[j] = con.counter /\ sets[j] = rs
                      \/ /\ j \in UsedSlots(con.resultSetIds)
                         /\ ids[j] = con.resultSetIds[j] /\ sets[j] = con.resultSets[j]
    OBVIOUS
  <2>1. CASE j = indx
    BY <1>1, <1>2, <2>1 DEF ClaimEntry
  <2>2. CASE j # indx
    <3>1. j \in UsedSlots(con.resultSetIds) /\ j \in 0..MaxRes-1
      BY <1>1, <1>3, <2>2 DEF UsedSlots
    <3> QED BY <1>1, <2>2, <3>1 DEF ClaimEntry
  <2> QED BY <2>1, <2>2
<1>7. /\ filled \in Connections
      /\ filled.resultSetIds = ids /\ filled.resultSets = sets
      /\ filled.counter = con.counter
  <2> HIDE DEF ids, sets, num
  <2> QED BY <1>1, <1>3, <1>5, WithTableFields
<1>8. new = [filled EXCEPT !.counter = @ + 1]
  BY DEF WithResult
<1> HIDE DEF filled, ids, sets, num, new, rs, indx
<1>9. /\ new.counter = con.counter + 1
      /\ new.resultSetIds = ids /\ new.resultSets = sets
  BY <1>7, <1>8 DEF Connections
<1> QED BY <1>4, <1>6, <1>9 DEF Added, ResultIn, new

\* A connection that lost result sets agrees with the handles it agreed with.
LEMMA KeptAgrees ==
  ASSUME NEW con, NEW new, NEW cid, NEW handles,
         Kept(con, new), Agrees(con, cid, handles)
  PROVE  Agrees(new, cid, handles)
BY DEF Kept, Agrees

\* One that got a result set agrees with the handle of that, too.
LEMMA AddedAgrees ==
  ASSUME NEW con, NEW new, NEW cid \in Nat, NEW token \in Nat,
         NEW handles \in SUBSET (Nat \X Nat \X Nat), con.counter \in Nat,
         \A j \in UsedSlots(con.resultSetIds) : con.resultSetIds[j] \in Nat,
         Added(con, new, token), Agrees(con, cid, handles)
  PROVE  Agrees(new, cid, handles \cup {<<cid, con.counter, token>>})
<1>1. \A j \in UsedSlots(con.resultSetIds) :
        con.resultSetIds[j] < con.counter /\ con.resultSetIds[j] # con.counter
  BY DEF Agrees
<1>2. ASSUME NEW j \in UsedSlots(new.resultSetIds)
      PROVE  new.resultSetIds[j] < new.counter
  BY <1>1 DEF Added
<1>3. ASSUME NEW h \in handles, h[1] = cid
      PROVE  /\ h[2] < new.counter
             /\ \A j \in UsedSlots(new.resultSetIds) :
                  new.resultSetIds[j] = h[2] => ResultIn(new, j) = h[3]
  <2>1. h[2] \in Nat /\ h[2] < con.counter
    BY <1>3 DEF Agrees
  <2> QED BY <1>3, <2>1 DEF Added, Agrees
<1>4. \A j \in UsedSlots(new.resultSetIds) :
        new.resultSetIds[j] = con.counter => ResultIn(new, j) = token
  BY <1>1 DEF Added
<1>5. con.counter < new.counter
  BY DEF Added
<1> QED BY <1>2, <1>3, <1>4, <1>5 DEF Agrees

\* Every connection in a used cell agrees with the result handles issued.
ResultInv ==
  /\ \A h \in resHandles : h[1] < counter
  /\ \A i \in UsedSlots(connectionIds) :
       Agrees(connections[i], connectionIds[i], resHandles)

\* A call on a connection replaces its object by one that has its results, and
\* perhaps one more with a handle of its own.
LEMMA ConnectionStepResults ==
  ASSUME IInv, NEW id \in Nat, NEW rid \in Nat, NEW isSelect \in BOOLEAN,
         ConnectionStep(id, rid, isSelect)
  PROVE  LET con == Connection(id) IN
         \E new : /\ UpdateConnection(id, new)
                  /\ \/ Kept(con, new) /\ resHandles' = resHandles
                     \/ /\ Added(con, new, nextToken)
                        /\ resHandles' = resHandles \cup {<<id, con.counter, nextToken>>}
<1> DEFINE con == Connection(id)
           flag == IF isSelect THEN 0 ELSE 1
           Updated(new) ==
             /\ UpdateConnection(id, new)
             /\ \/ Kept(con, new) /\ resHandles' = resHandles
                \/ /\ Added(con, new, nextToken)
                   /\ resHandles' = resHandles \cup {<<id, con.counter, nextToken>>}
<1> USE DEF ConnectionStep
<1>1. ValidConnection(id) /\ TableInv /\ nextToken \in Nat /\ flag \in {0, 1}
  BY ConnectionStepUpdates DEF IInv, WorldInv
<1>2. ConOK(con)
  BY <1>1, ValidConnectionCell
<1> HIDE DEF con
<1>3. ASSUME NEW from, ConOK(from), Kept(con, from), Wrap(id, from, isSelect)
      PROVE  \E new : Updated(new)
  <2> DEFINE new == WithResult(from, nextToken, flag)
  <2>1. Added(from, new, nextToken)
    BY <1>1, <1>3, WithResultAdds DEF Wrap
  <2>2. UpdateConnection(id, new) /\ resHandles' = resHandles \cup {<<id, from.counter, nextToken>>}
    BY <1>3 DEF Wrap
  <2> HIDE DEF new
  <2>3. from.counter = con.counter /\ Added(con, new, nextToken)
    BY <1>3, <2>1 DEF Kept, Added
  <2> QED BY <2>2, <2>3
<1>4. Kept(con, con)
  BY DEF Kept
<1>5. ASSUME Exec(id, isSelect) PROVE \E new : Updated(new)
  <2>1. ReadyForStatement(con) # NULL /\ Wrap(id, ReadyForStatement(con), isSelect)
    BY <1>5 DEF Exec, con
  <2> QED BY <2>1, <1>2, <1>3, ReadyForStatementOK, ReadyForStatementKeeps
<1>6. ASSUME ExecParams(id, isSelect) PROVE \E new : Updated(new)
  BY <1>6, <1>2, <1>3, <1>4 DEF ExecParams, con
<1>7. ASSUME ExecFails(id) PROVE \E new : Updated(new)
  BY <1>7, <1>2, ReadyForStatementKeeps DEF ExecFails, con, historyVars
<1>8. ASSUME CloseConnectionRefused(id) PROVE \E new : Updated(new)
  BY <1>8, <1>2, ClearedForCloseKeeps DEF CloseConnectionRefused, con, historyVars
<1>9. ASSUME Fetch(id, rid) PROVE \E new : Updated(new)
  <2>1. /\ Lookup(con.resultSetIds, rid) \in 0..MaxRes-1
        /\ con.resultSets[Lookup(con.resultSetIds, rid)] # NULL
    BY <1>9, <1>2, ValidResultCell DEF Fetch, con
  <2>2. UpdateConnection(id, WithCompleted(con, rid)) /\ resHandles' = resHandles
    BY <1>9 DEF Fetch, con, historyVars
  <2> QED BY <2>1, <2>2, <1>2, WithCompletedKeeps
<1>10. ASSUME CloseResultSet(id, rid) PROVE \E new : Updated(new)
  <2>1. Lookup(con.resultSetIds, rid) >= 0
    BY <1>10, <1>2, ValidResultCell DEF CloseResultSet, con
  <2> QED BY <2>1, <1>2, <1>10, WithoutResultKeeps DEF CloseResultSet, con, historyVars
<1> HIDE DEF Updated
<1>11. \E new : Updated(new)
  BY <1>5, <1>6, <1>7, <1>8, <1>9, <1>10
<1> QED BY <1>11 DEF con, Updated

\* A call on one connection leaves the results of all in order.
LEMMA ConnectionStepKeepsResults ==
  ASSUME IInv, HandleInv, ResultInv, NEW id \in Nat, NEW rid \in Nat,
         NEW isSelect \in BOOLEAN, ConnectionStep(id, rid, isSelect)
  PROVE  ResultInv'
<1> DEFINE indx == Lookup(connectionIds, id)
           con  == Connection(id)
<1>1. /\ ValidConnection(id) /\ connectionIds' = connectionIds /\ counter' = counter
      /\ nextToken \in Nat /\ counter \in Nat
      /\ resHandles \in SUBSET (Nat \X Nat \X Nat)
  BY ConnectionStepUpdates DEF IInv, WorldInv, TableInv
<1>2. PICK new : /\ UpdateConnection(id, new)
                 /\ \/ Kept(con, new) /\ resHandles' = resHandles
                    \/ /\ Added(con, new, nextToken)
                       /\ resHandles' = resHandles \cup {<<id, con.counter, nextToken>>}
  BY ConnectionStepResults
<1>3. /\ indx \in UsedSlots(connectionIds) /\ connectionIds[indx] = id
      /\ con = connections[indx] /\ ConOK(con)
  BY <1>1, ValidConnectionCell DEF IInv
<1>4. connections' = [connections EXCEPT ![indx] = new]
  BY <1>2 DEF UpdateConnection
<1>5. PICK len \in MaxConChoices \cup {0} :
        /\ DOMAIN connectionIds = 0..len-1
        /\ connections \in [0..len-1 -> Connections \cup {NULL}]
  BY TableLength DEF IInv
<1>6. /\ con.counter \in Nat
      /\ \A j \in UsedSlots(con.resultSetIds) : con.resultSetIds[j] \in Nat
  BY <1>3, ConOKFacts DEF UsedSlots, Tables
<1>7. id < counter
  BY <1>3 DEF HandleInv, IdsDistinct
<1> HIDE DEF indx, con
<1>8. Agrees(con, id, resHandles)
  BY <1>3 DEF ResultInv
<1>9. Agrees(new, id, resHandles')
  BY <1>1, <1>2, <1>6, <1>8, KeptAgrees, AddedAgrees
<1>10. ASSUME NEW i \in UsedSlots(connectionIds)
       PROVE  Agrees(connections'[i], connectionIds[i], resHandles')
  <2>1. i \in 0..len-1
    BY <1>5 DEF UsedSlots
  <2>2. CASE i = indx
    BY <1>3, <1>4, <1>5, <1>9, <2>1, <2>2
  <2>3. CASE i # indx
    <3>1. connections'[i] = connections[i]
      BY <1>4, <1>5, <2>1, <2>3
    <3>2. connectionIds[i] # id
      BY <1>3, <2>3 DEF HandleInv, IdsDistinct
    <3>3. Agrees(connections[i], connectionIds[i], resHandles)
      BY DEF ResultInv
    <3> QED BY <1>2, <3>1, <3>2, <3>3 DEF Agrees
  <2> QED BY <2>2, <2>3
<1>11. \A h \in resHandles' : h[1] < counter'
  BY <1>1, <1>2, <1>7 DEF ResultInv
<1> QED BY <1>1, <1>10, <1>11 DEF ResultInv

\* Every step keeps the result handles in order.
LEMMA NextKeepsResults ==
  ASSUME IInv, HandleInv, ResultInv, [Next]_vars
  PROVE  ResultInv'
<1>1. CASE Quiet
  <2>1. CASE UNCHANGED <<connections, resHandles>>
    BY <1>1, <2>1 DEF Quiet, SameCells, ResultInv, Agrees, ResultIn
  <2> QED BY <1>1, <2>1, ConnectionStepKeepsResults DEF Quiet, OneObject
<1>2. CASE Emptied
  BY <1>2 DEF Emptied, ResultInv
<1>3. CASE Issued
  <2>1. PICK indx :
          /\ UsedSlots(connectionIds') = UsedSlots(connectionIds) \cup {indx}
          /\ \A i \in UsedSlots(connectionIds) :
               connectionIds'[i] = connectionIds[i] /\ connections'[i] = connections[i]
          /\ connectionIds'[indx] = counter
          /\ connections'[indx] = FreshConnection(counter, nextSession)
          /\ counter' = counter + 1 /\ resHandles' = resHandles
    BY <1>3 DEF Issued
  <2>2. /\ counter \in Nat /\ resHandles \in SUBSET (Nat \X Nat \X Nat)
        /\ \A h \in resHandles : h[1] < counter /\ h[1] # counter /\ h[1] < counter + 1
    BY DEF IInv, TableInv, WorldInv, ResultInv
  <2>3. UsedSlots(FreshConnection(counter, nextSession).resultSetIds) = {}
    BY MaxResAssumption, NewTableIsEmpty DEF FreshConnection
  <2>4. Agrees(connections'[indx], counter, resHandles)
    BY <2>1, <2>2, <2>3 DEF Agrees
  <2>5. \A i \in UsedSlots(connectionIds) :
          Agrees(connections'[i], connectionIds'[i], resHandles)
    BY <2>1 DEF ResultInv
  <2> QED BY <2>1, <2>2, <2>4, <2>5 DEF ResultInv
<1>4. CASE Closed
  BY <1>4 DEF Closed, ResultInv
<1> QED BY <1>1, <1>2, <1>3, <1>4, StepsOfHandles

LEMMA ResultsHold == Spec => [](IInv /\ HandleInv /\ ResultInv)
<1>1. Init => ResultInv
  <2>1. Init => UsedSlots(connectionIds) = {}
    BY NewTableIsEmpty DEF Init
  <2> QED BY <2>1 DEF Init, ResultInv
<1>2. IInv /\ HandleInv /\ ResultInv /\ [Next]_vars => ResultInv'
  BY NextKeepsResults
<1> QED BY <1>1, <1>2, HandlesHold, PTL DEF Spec

\* For every table size and number of connections: a handle, however old, is invalid
\* or reaches the session it was issued for, which is open.
THEOREM HandlesDenoteTheirSession == Spec => []HandleDenotesItsSession
<1>1. ASSUME IInv, HandleInv PROVE HandleDenotesItsSession
  <2> SUFFICES ASSUME NEW h \in conHandles, ValidConnection(h[1])
               PROVE  Connection(h[1]).drvConnection = h[2] /\ h[2] \in sessions
    BY DEF HandleDenotesItsSession
  <2>1. h[1] \in Nat
    BY <1>1 DEF IInv, WorldInv
  <2>2. PICK i \in UsedSlots(connectionIds) :
          connectionIds[i] = h[1] /\ Connection(h[1]) = connections[i]
    BY <1>1, <2>1, ValidConnectionCell DEF IInv
  <2>3. <<h[1], SessionAt(i)>> \in conHandles /\ SessionAt(i) \in sessions
    BY <1>1, <2>2 DEF HandleInv
  <2>4. SessionAt(i) = h[2]
    BY <1>1, <2>3 DEF HandleInv
  <2> QED BY <2>2, <2>3, <2>4 DEF SessionAt
<1> QED BY <1>1, HandlesHold, PTL

\* A handle of either kind, however old, is invalid or reaches its own object, for
\* every number of connections and of result sets.
THEOREM HandlesDenoteTheirOwn == Spec => []HandlesDenoteTheirObjects
<1>1. ASSUME IInv, HandleInv, ResultInv PROVE ResultHandleDenotesItsResult
  <2> SUFFICES ASSUME NEW h \in resHandles, ValidResult(h[1], h[2])
               PROVE  ResultSet(h[1], h[2]).drvResultSet = h[3]
    BY DEF ResultHandleDenotesItsResult
  <2> DEFINE con  == Connection(h[1])
             indx == Lookup(con.resultSetIds, h[2])
  <2>1. h[1] \in Nat /\ h[2] \in Nat /\ ValidConnection(h[1])
    BY <1>1 DEF IInv, WorldInv, ValidResult
  <2>2. PICK i \in UsedSlots(connectionIds) :
          connectionIds[i] = h[1] /\ con = connections[i] /\ ConOK(con)
    BY <1>1, <2>1, ValidConnectionCell DEF IInv
  <2>3. /\ indx \in 0..MaxRes-1 /\ con.resultSetIds[indx] = h[2]
        /\ ResultSet(h[1], h[2]) = con.resultSets[indx]
        /\ DOMAIN con.resultSetIds = 0..MaxRes-1
    BY <2>1, <2>2, ValidResultCell, ConOKFacts
  <2>4. indx \in UsedSlots(con.resultSetIds)
    BY <2>1, <2>3 DEF UsedSlots, EmptyVal
  <2>5. Agrees(con, h[1], resHandles)
    BY <1>1, <2>2 DEF ResultInv
  <2> HIDE DEF con, indx
  <2> QED BY <2>3, <2>4, <2>5 DEF Agrees, ResultIn
<1> QED BY <1>1, ResultsHold, HandlesDenoteTheirSession, PTL DEF HandlesDenoteTheirObjects

\* Ids and sessions are never in two cells.
THEOREM CellsAreDistinct == Spec => [](IdsDistinct /\ SessionsNotShared)
<1>1. HandleInv => IdsDistinct /\ SessionsNotShared
  BY DEF HandleInv
<1> QED BY <1>1, HandlesHold, PTL

\* The tables, the counts, the ids and the sessions are in order in every state.
THEOREM TablesAlwaysConsistent == Spec => []TablesConsistent
BY TypeCorrect, TablesAlwaysAgree, CountsAlwaysRight, CellsAreDistinct, PTL
   DEF TablesConsistent

\* A handle that became invalid stays so through reloads and new connections.
THEOREM RetiredForGood == Spec => RetiredStaysRetired
<1> DEFINE A == \A h \in conHandles : ~ValidConnection(h[1]) => ~ValidConnection(h[1])'
<1>1. (TableInv =>
        \A id \in Nat : ValidConnection(id) <=> mgr = "live" /\ id \in UsedIds(connectionIds))'
  BY ValidIffUsed, PTL
<1>2. ASSUME IInv, HandleInv, IInv', [Next]_vars PROVE [A]_vars
  <2> SUFFICES ASSUME NEW h \in conHandles, ValidConnection(h[1])',
                      ~(UNCHANGED vars)
               PROVE  ValidConnection(h[1])
    OBVIOUS
  <2>1. h[1] \in Nat /\ counter \in Nat /\ h[1] < counter
    BY <1>2 DEF IInv, WorldInv, TableInv, HandleInv
  <2>2. mgr' = "live" /\ h[1] \in UsedIds(connectionIds')
    BY <1>1, <1>2, <2>1 DEF IInv
  <2>3. mgr = "live" /\ h[1] \in UsedIds(connectionIds)
    <3>1. CASE Quiet
      BY <2>2, <3>1 DEF Quiet, SameCells
    <3>2. CASE Emptied
      BY <2>2, <3>2 DEF Emptied, UsedIds
    <3>3. CASE Issued
      BY <2>1, <2>2, <3>3 DEF Issued, UsedIds
    <3>4. CASE Closed
      BY <2>2, <3>4 DEF Closed, UsedIds
    <3> QED BY <1>2, <3>1, <3>2, <3>3, <3>4, StepsOfHandles
  <2> QED BY <1>2, <2>1, <2>3, ValidIffUsed DEF IInv
<1> QED BY <1>2, HandlesHold, PTL DEF RetiredStaysRetired, Spec

-----------------------------------------------------------------------------
(* The tables implement the registry. *)

LiveNow == [id \in UsedIds(connectionIds) |-> Connection(id).drvConnection]

RetiredNow == 0..counter-1 \ UsedIds(connectionIds)

\* The registry holds for each cell its id and its session.
LEMMA LiveAtCells ==
  TableInv /\ IdsDistinct =>
    \A id : \A i \in UsedSlots(connectionIds) :
      connectionIds[i] = id => Connection(id).drvConnection = SessionAt(i)
BY ConnectionOfCell DEF SessionAt

LEMMA RegistryInit == Init => Registry!Init
<1> SUFFICES ASSUME Init PROVE Registry!Init
  OBVIOUS
<1>1. UsedIds(connectionIds) = {}
  BY NewTableIsEmpty DEF Init, UsedIds
<1>2. LiveNow = [id \in {} |-> {}]
  BY <1>1 DEF LiveNow
<1>3. RetiredNow = {}
  BY DEF Init, RetiredNow
<1> QED BY <1>2, <1>3 DEF LiveNow, RetiredNow, Registry!Init

LEMMA RegistryNext ==
  ASSUME IInv, HandleInv, IInv', HandleInv', [Next]_vars
  PROVE  [Registry!Next]_Registry!vars
<1>1. (TableInv /\ IdsDistinct =>
        \A id : \A i \in UsedSlots(connectionIds) :
          connectionIds[i] = id => Connection(id).drvConnection = SessionAt(i))'
  BY LiveAtCells, PTL
<1> DEFINE used == UsedIds(connectionIds)
<1>2. /\ \A i \in UsedSlots(connectionIds) :
           connectionIds[i] \in used /\ LiveNow[connectionIds[i]] = SessionAt(i)
      /\ \A i \in UsedSlots(connectionIds') :
           (LiveNow')[connectionIds'[i]] = SessionAt(i)'
      /\ DOMAIN LiveNow = used
  <2>1. \A i \in UsedSlots(connectionIds) :
          connectionIds[i] \in used /\ LiveNow[connectionIds[i]] = SessionAt(i)
    BY LiveAtCells DEF IInv, HandleInv, LiveNow, UsedIds
  <2>2. LiveNow' = [id \in UsedIds(connectionIds') |-> Connection(id)'.drvConnection]
    BY DEF LiveNow
  <2>3. \A i \in UsedSlots(connectionIds') : connectionIds'[i] \in UsedIds(connectionIds')
    BY DEF UsedIds
  <2>4. \A i \in UsedSlots(connectionIds') :
          (LiveNow')[connectionIds'[i]] = SessionAt(i)'
    BY <1>1, <2>2, <2>3 DEF IInv, HandleInv
  <2> QED BY <2>1, <2>4 DEF LiveNow
<1>3. /\ counter \in Nat /\ nextSession \in Nat
      /\ used \subseteq 0..counter-1
      /\ \A i \in UsedSlots(connectionIds) : SessionAt(i) # nextSession
  <2>1. counter \in Nat /\ nextSession \in Nat /\ sessions \subseteq Nat
    BY DEF IInv, TableInv, WorldInv
  <2>2. \A i \in UsedSlots(connectionIds) :
          connectionIds[i] \in Nat /\ connectionIds[i] < counter
    BY UsedCellOK DEF IInv, HandleInv, IdsDistinct
  <2>3. \A i \in UsedSlots(connectionIds) :
          SessionAt(i) \in Nat /\ SessionAt(i) < nextSession
    BY <2>1 DEF HandleInv
  <2> QED BY <2>1, <2>2, <2>3 DEF UsedIds
<1>4. CASE Quiet
  <2>1. UsedIds(connectionIds') = used /\ counter' = counter
    BY <1>4 DEF Quiet, SameCells, UsedIds
  <2>2. LiveNow' = LiveNow
    <3>1. \A id \in used : (LiveNow')[id] = LiveNow[id]
      BY <1>2, <1>4 DEF Quiet, SameCells, UsedIds
    <3>2. LiveNow' = [id \in used |-> Connection(id)'.drvConnection]
      BY <2>1 DEF LiveNow
    <3> QED BY <3>1, <3>2 DEF LiveNow
  <2>3. RetiredNow' = RetiredNow
    BY <2>1 DEF RetiredNow
  <2> QED BY <2>2, <2>3 DEF Registry!vars, LiveNow, RetiredNow
<1>5. CASE Emptied
  <2>1. UsedIds(connectionIds') = {} /\ counter' = counter
    BY <1>5 DEF Emptied, UsedIds
  <2>2. LiveNow' = Registry!Restrict(LiveNow, used \ used)
    BY <2>1 DEF LiveNow, Registry!Restrict
  <2>3. RetiredNow' = RetiredNow \cup used
    BY <1>3, <2>1 DEF RetiredNow
  <2>4. CASE used # {}
    <3>1. Registry!Retire(used)
      BY <2>2, <2>3, <2>4, <1>2 DEF Registry!Retire, LiveNow, RetiredNow
    <3> QED BY <3>1, <1>2 DEF Registry!Next, LiveNow
  <2>5. CASE used = {}
    BY <2>1, <2>3, <2>5 DEF Registry!vars, LiveNow, RetiredNow
  <2> QED BY <2>4, <2>5
<1>6. CASE Issued
  <2>1. PICK indx :
          /\ OpenSession
          /\ UsedSlots(connectionIds') = UsedSlots(connectionIds) \cup {indx}
          /\ \A i \in UsedSlots(connectionIds) :
               connectionIds'[i] = connectionIds[i] /\ SessionAt(i)' = SessionAt(i)
          /\ connectionIds'[indx] = counter /\ SessionAt(indx)' = nextSession
          /\ counter' = counter + 1
    BY <1>6 DEF Issued
  <2>2. counter \in 0..MaxSessions /\ nextSession \in 0..MaxSessions
    <3>1. nextSession < MaxSessions /\ counter <= nextSession /\ MaxSessions \in Nat
      BY <2>1, BoundsAssumption DEF OpenSession, HandleInv
    <3> QED BY <1>3, <3>1
  <2>3. UsedIds(connectionIds') = used \cup {counter}
    BY <2>1 DEF UsedIds
  <2>4. counter \notin RetiredNow \cup used
    BY <1>3 DEF RetiredNow
  <2>5. \A other \in used : LiveNow[other] # nextSession
    BY <1>2, <1>3 DEF UsedIds
  <2>6. LiveNow' = [h \in used \cup {counter} |->
                     IF h = counter THEN nextSession ELSE LiveNow[h]]
    <3>1. (LiveNow')[counter] = nextSession
      BY <1>2, <2>1
    <3>2. \A h \in used : (LiveNow')[h] = LiveNow[h]
      BY <1>2, <2>1 DEF UsedIds
    <3>3. LiveNow' = [h \in used \cup {counter} |-> Connection(h)'.drvConnection]
      BY <2>3 DEF LiveNow
    <3> QED BY <3>1, <3>2, <3>3, <2>4
  <2>7. RetiredNow' = RetiredNow
    BY <1>3, <2>1, <2>3 DEF RetiredNow
  <2>8. Registry!Issue(counter, nextSession)
    BY <1>2, <2>4, <2>5, <2>6, <2>7 DEF Registry!Issue, LiveNow, RetiredNow
  <2> QED BY <2>2, <2>8 DEF Registry!Next
<1>7. CASE Closed
  <2>1. PICK indx \in UsedSlots(connectionIds) :
          /\ UsedSlots(connectionIds') = UsedSlots(connectionIds) \ {indx}
          /\ \A i \in UsedSlots(connectionIds') :
               connectionIds'[i] = connectionIds[i] /\ SessionAt(i)' = SessionAt(i)
          /\ counter' = counter
    BY <1>7 DEF Closed
  <2>2. PICK id : id = connectionIds[indx]
    OBVIOUS
  <2>3. id \in used /\ UsedIds(connectionIds') = used \ {id}
    BY <2>1, <2>2 DEF UsedIds, HandleInv, IdsDistinct
  <2>4. LiveNow' = Registry!Restrict(LiveNow, used \ {id})
    <3>1. \A h \in used \ {id} : (LiveNow')[h] = LiveNow[h]
      BY <1>2, <2>1, <2>2 DEF UsedIds
    <3>2. LiveNow' = [h \in used \ {id} |-> Connection(h)'.drvConnection]
      BY <2>3 DEF LiveNow
    <3> QED BY <3>1, <3>2 DEF Registry!Restrict
  <2>5. RetiredNow' = RetiredNow \cup {id}
    BY <1>3, <2>1, <2>3 DEF RetiredNow
  <2>6. Registry!Retire({id})
    BY <1>2, <2>4, <2>5 DEF Registry!Retire, LiveNow, RetiredNow
  <2> QED BY <1>2, <2>3, <2>6 DEF Registry!Next, LiveNow
<1> QED BY <1>4, <1>5, <1>6, <1>7, StepsOfHandles

\* For every table size the tables of RS-DBI.c implement the registry of handles.
THEOREM TablesImplementRegistry == Spec => RefinesRegistry
<1>1. IInv /\ HandleInv /\ (IInv /\ HandleInv)' /\ [Next]_vars
        => [Registry!Next]_Registry!vars
  BY RegistryNext
<1> QED BY <1>1, RegistryInit, HandlesHold, PTL DEF RefinesRegistry, Registry!Spec, Spec

-----------------------------------------------------------------------------
(* Disconnecting. *)

\* A connection that has no result set left after postgresqlCloseConnection dealt with
\* the first had no other, and that one was completed.
LEMMA ClearedWasIdle ==
  ASSUME NEW con, ConOK(con), ClearedForClose(con) # NULL,
         ClearedForClose(con).num_res = 0,
         NEW j \in UsedSlots(con.resultSetIds)
  PROVE  con.resultSets[j].completed = 1
<1> DEFINE listed == UsedSlots(con.resultSetIds)
           rid == FirstListed(con.resultSetIds)
           indx == Lookup(con.resultSetIds, rid)
<1>1. /\ con \in Connections /\ con.num_res \in Nat /\ MaxRes \in Nat
      /\ con.resultSetIds \in Tables(MaxRes, Nat)
      /\ DOMAIN con.resultSetIds = 0..MaxRes-1
      /\ con.resultSets \in [0..MaxRes-1 -> ResultSets \cup {NULL}]
      /\ con.num_res = Cardinality(listed)
  BY ConOKFacts DEF ConOK
<1>2. /\ con.resultSets[First(listed)].completed # 0
      /\ ClearedForClose(con) = WithoutResult(con, rid)
  BY DEF ClearedForClose
<1>3. WithoutResult(con, rid).num_res = con.num_res - 1
  BY <1>1 DEF WithoutResult, WithTable, Connections
<1>4. IsFiniteSet(listed) /\ Cardinality(listed) = 1
  BY <1>1, <1>2, <1>3, UsedSlotsFinite
<1>5. PICK x : listed = {x}
  BY <1>4, FS_Singleton
<1>6. j \in 0..MaxRes-1 /\ x = j /\ con.resultSetIds[j] # EmptyVal
  BY <1>1, <1>5 DEF UsedSlots
<1>7. First(listed) = j
  <2>1. \E i \in listed : \A k \in listed : i <= k
    BY <1>1, <1>5, <1>6
  <2> QED BY <2>1, <1>5, <1>6 DEF First
<1>8. con.resultSets[j] \in ResultSets
  BY <1>1, <1>6 DEF ConOK, ResultTableAgrees
<1> QED BY <1>2, <1>7, <1>8 DEF ResultSets

\* A session is closed only when no rows are pending on its connection.
THEOREM ClosesIdleOnly == Spec => ClosedOnlyWhenIdle
<1> DEFINE A == \A s \in sessions \ sessions', i \in UsedSlots(connectionIds) :
                  connections[i].drvConnection = s =>
                    \A j \in UsedSlots(connections[i].resultSetIds) :
                      connections[i].resultSets[j].completed = 1
<1>1. ASSUME IInv, HandleInv, [Next]_vars PROVE [A]_vars
  <2> SUFFICES ASSUME NEW i \in UsedSlots(connectionIds), SessionAt(i) \in sessions \ sessions',
                      NEW j \in UsedSlots(connections[i].resultSetIds)
               PROVE  connections[i].resultSets[j].completed = 1
    BY DEF SessionAt
  <2>1. PICK h \in conHandles : CloseConnection(h[1])
    <3>1. sessions' # sessions /\ ~(sessions \subseteq sessions')
      OBVIOUS
    <3> QED BY <1>1, <3>1 DEF Next, vars, serverVars, InitIgnored, InitAllocates, InitFails,
                CloseManager, NewConnection, CloneConnection, OpenSession,
                NewConnectionTableFull, NewConnectionNoMemory, ConnectionLost,
                Exec, ExecParams, Wrap, ExecFails, CloseConnectionRefused, Fetch,
                CloseResultSet
  <2> DEFINE id == h[1]
             con == Connection(id)
             indx == Lookup(connectionIds, id)
  <2>2. id \in Nat /\ TableInv
    BY <1>1 DEF IInv, WorldInv
  <2>3. /\ ValidConnection(id)
        /\ ClearedForClose(con) # NULL /\ ClearedForClose(con).num_res = 0
        /\ sessions' = sessions \ {ClearedForClose(con).drvConnection}
    BY <2>1 DEF CloseConnection
  <2>4. indx \in UsedSlots(connectionIds) /\ con = connections[indx] /\ ConOK(con)
    BY <2>2, <2>3, ValidConnectionCell
  <2>5. SessionAt(i) = SessionAt(indx)
    BY <2>3, <2>4, ClearedForCloseOK DEF SessionAt
  <2>6. i = indx
    BY <1>1, <2>4, <2>5 DEF HandleInv, SessionsNotShared, SessionAt
  <2> QED BY <2>3, <2>4, <2>6, ClearedWasIdle
<1> QED BY <1>1, HandlesHold, PTL DEF ClosedOnlyWhenIdle, Spec
=============================================================================

-------------------------- MODULE DbiMethodProofs ---------------------------
(***************************************************************************)
(* Proofs about the methods of a connection.  DbiSession, for any number   *)
(* of calls of dbWriteTable and of steps of another session: what the      *)
(* methods of several statements return is true, and what they must leave  *)
(* alone they do.  FetchLoop, for results of any size: fetch() returns     *)
(* each row once and writes no vector behind its end.                      *)
(***************************************************************************)
EXTENDS DbiSession, FetchLoop, TLAPS

Encodings == {"UTF8", "LATIN1"}

QueryOps == {"getQuery", "sendQuery", "fetch", "clearResult"}

Ops == QueryOps \cup {"none", "begin", "commit", "rollback", "remove", "write", "import"}

\* The steps before dbWriteTable switches the encoding, and those after.
Early == {"exists", "remove", "drop", "again", "create", "load", "encoding"}
Late == {"copy", "data", "stored", "refused", "restore"}

\* A table that does not exist has no rows.
TableOK(t) == t \in Tables /\ (~t.exists => t.rows = {})

ServerInv ==
  /\ TableOK(table) /\ TableOK(saved)
  /\ tx \in {"idle", "active", "failed"}
  /\ mine \in BOOLEAN /\ (mine => tx # "idle")
  /\ enc \in Encodings /\ txEnc \in Encodings
  /\ copying \in BOOLEAN
  /\ result \in {"none", "pending", "completed"}
  /\ foreign \in 0..MaxForeign

\* A call that is under way is one of several statements.
CallInv ==
  /\ pc \in Steps /\ frame \in 0..MaxWrites
  /\ call \in [op : Ops, overwrite : BOOLEAN, append : BOOLEAN,
               enc : Encodings \cup {"none"}]
  /\ pc # "user" => call.op \in {"remove", "write", "import"} /\ call.enc \in Encodings
  /\ pc \in {"remove", "drop"} => call.overwrite \/ call.op = "remove"
  /\ pc \in Steps \ {"user", "remove", "drop"} => call.op # "remove"
  /\ pc \in Steps \ {"user", "exists", "remove"} => result = "none"

\* The server has done what dbWriteTable is for from the end of the COPY on.
DoneInv ==
  /\ done \in BOOLEAN
  /\ pc \in {"stored", "restore"} => done
  /\ pc \in Steps \ {"user", "stored", "restore"} => ~done
  /\ WriteReportIsTrue

EncInv ==
  /\ pc \in Early => enc = call.enc
  /\ EncodingKept

\* A frame that is to make its table, with no other session about, finds none.
Alone == call.op # "remove" /\ ~call.append /\ ~call.overwrite /\ foreign = 0

FreshInv ==
  /\ Alone /\ pc \in {"remove", "drop"} => FALSE
  /\ Alone /\ pc \in {"again", "create"} => ~table.exists
  /\ Alone /\ pc \in {"load", "encoding", "copy", "data"} => table.rows = {}
  /\ Alone /\ pc \in {"stored", "restore"} => table.rows = {frame}
  /\ CreatesItsTable

IInv ==
  /\ ServerInv /\ CallInv /\ DoneInv /\ EncInv /\ FreshInv
  /\ TransactionsBeginAndEnd

-----------------------------------------------------------------------------
(* The server. *)

\* What a step between two statements does to the server.
ServerEffect ==
  \/ Rejected \/ Answered \/ CopyStarted \/ Begun \/ Committed \/ RolledBack
  \/ \E e \in Encodings : EncodingSet(e)
  \/ \E t : TableOK(t) /\ Changed(t)
  \/ UNCHANGED serverVars

LEMMA EffectKeepsServer ==
  ASSUME ServerInv, ServerEffect, result' \in {"none", "pending", "completed"},
         foreign' = foreign
  PROVE  ServerInv'
<1> USE DEF ServerInv
<1>1. CASE Rejected
  BY <1>1 DEF Rejected
<1>2. CASE Answered
  BY <1>2 DEF Answered
<1>3. CASE CopyStarted
  BY <1>3 DEF CopyStarted
<1>4. CASE Begun
  BY <1>4 DEF Begun
<1>5. CASE Committed
  BY <1>5 DEF Committed, Ended
<1>6. CASE RolledBack
  BY <1>6 DEF RolledBack, Ended
<1>7. ASSUME NEW e \in Encodings, EncodingSet(e) PROVE ServerInv'
  BY <1>7 DEF EncodingSet
<1>8. ASSUME NEW t, TableOK(t), Changed(t) PROVE ServerInv'
  BY <1>8 DEF Changed, Runs
<1>9. CASE UNCHANGED serverVars
  BY <1>9 DEF serverVars
<1> QED BY <1>1, <1>2, <1>3, <1>4, <1>5, <1>6, <1>7, <1>8, <1>9 DEF ServerEffect

\* The tables a statement leaves.
LEMMA TablesOfSteps ==
  /\ TableOK(Absent)
  /\ \A rows \in SUBSET (0..MaxWrites) : TableOK(Holding(rows))
BY DEF TableOK, Tables, Absent, Holding

-----------------------------------------------------------------------------
(* Calls of one statement. *)

\* Such a call says nothing about dbWriteTable.
LEMMA SingleKeeps ==
  ASSUME IInv, NEW op \in QueryOps \cup {"begin", "commit", "rollback"}, NEW v,
         NEW did \in BOOLEAN, Single(op, v, did)
  PROVE  /\ CallInv' /\ DoneInv' /\ EncInv' /\ FreshInv'
         /\ pc' = "user" /\ call'.op = op /\ value' = v /\ foreign' = foreign
<1>1. /\ pc = "user" /\ pc' = "user" /\ call'.op = op /\ value' = v /\ done' = did
      /\ frame' = frame /\ foreign' = foreign
      /\ call' \in [op : Ops, overwrite : BOOLEAN, append : BOOLEAN,
                    enc : Encodings \cup {"none"}]
  BY DEF Single, NoCall, Ops, QueryOps
<1>2. CallInv'
  BY <1>1 DEF IInv, CallInv, Steps
<1>3. DoneInv' /\ EncInv' /\ FreshInv'
  BY <1>1 DEF QueryOps, DoneInv, EncInv, FreshInv, WriteReportIsTrue, EncodingKept,
              CreatesItsTable, WriteReturned, Returned, Early
<1> QED BY <1>1, <1>2, <1>3

\* Calls other than those of a transaction promise nothing about it.
LEMMA QueryKeeps ==
  ASSUME IInv, GetQuery \/ SendQuery \/ Fetch \/ ClearResult
  PROVE  IInv'
<1>1. PICK op \in QueryOps, v \in {"rows", "NULL", "error", "result", "TRUE"}, did \in BOOLEAN :
        Single(op, v, did)
  BY DEF QueryOps, GetQuery, SendQuery, Fetch, ClearResult
<1>2. /\ ServerEffect /\ result' \in {"none", "pending", "completed"}
  BY DEF GetQuery, SendQuery, Fetch, ClearResult, QuickSQL, ServerEffect, IInv, ServerInv
<1>3. /\ CallInv' /\ DoneInv' /\ EncInv' /\ FreshInv'
      /\ call'.op \in QueryOps /\ foreign' = foreign
  BY <1>1, SingleKeeps
<1>4. ServerInv'
  BY <1>2, <1>3, EffectKeepsServer DEF IInv
<1>5. TransactionsBeginAndEnd'
  BY <1>3 DEF QueryOps, TransactionsBeginAndEnd, Returned
<1> QED BY <1>3, <1>4, <1>5 DEF IInv

LEMMA BeginKeeps ==
  ASSUME IInv, BeginTransaction
  PROVE  IInv'
<1>1. PICK did \in BOOLEAN : Single("begin", "TRUE", did)
  BY DEF BeginTransaction
<1>2. (Begun \/ (~Runs /\ Rejected)) /\ result' = "none"
  BY DEF BeginTransaction, QuickSQL
<1>3. /\ CallInv' /\ DoneInv' /\ EncInv' /\ FreshInv'
      /\ call'.op = "begin" /\ foreign' = foreign
  BY <1>1, SingleKeeps
<1>4. ServerInv'
  BY <1>2, <1>3, EffectKeepsServer DEF IInv, ServerEffect
<1>5. tx' # "idle"
  BY <1>2 DEF Begun, Rejected, Runs, IInv, ServerInv
<1> QED BY <1>3, <1>4, <1>5 DEF IInv, TransactionsBeginAndEnd, Returned

LEMMA EndKeeps ==
  ASSUME IInv, Commit \/ Rollback
  PROVE  IInv'
<1>1. CASE result = "pending" /\ Single("commit", "error", FALSE)
           /\ UNCHANGED <<serverVars, result>>
  <2>1. /\ CallInv' /\ DoneInv' /\ EncInv' /\ FreshInv'
        /\ call'.op = "commit" /\ value' = "error" /\ foreign' = foreign
    BY <1>1, SingleKeeps
  <2>2. ServerInv'
    BY <1>1, <2>1, EffectKeepsServer DEF IInv, ServerInv, ServerEffect
  <2> QED BY <2>1, <2>2 DEF IInv, TransactionsBeginAndEnd, Returned
<1>2. CASE SendCommit \/ Rollback
  <2>1. PICK op \in {"commit", "rollback"}, did \in BOOLEAN : Single(op, "TRUE", did)
    BY <1>2 DEF SendCommit, Rollback
  <2>2. (Committed \/ RolledBack) /\ result' = "none"
    BY <1>2 DEF SendCommit, Rollback, QuickSQL
  <2>3. /\ CallInv' /\ DoneInv' /\ EncInv' /\ FreshInv'
        /\ call'.op = op /\ foreign' = foreign
    BY <2>1, SingleKeeps
  <2>4. ServerInv'
    BY <2>2, <2>3, EffectKeepsServer DEF IInv, ServerEffect
  <2>5. tx' = "idle"
    BY <2>2 DEF Committed, RolledBack, Ended
  <2> QED BY <2>3, <2>4, <2>5 DEF IInv, TransactionsBeginAndEnd, Returned
<1> QED BY <1>1, <1>2 DEF Commit
-----------------------------------------------------------------------------
(* Calls of several statements. *)

\* Such a call finds the encoding it is to leave, and has done nothing yet.
LEMMA EnterKeeps ==
  ASSUME IInv, NEW op \in {"remove", "write", "import"},
         NEW overwrite \in BOOLEAN, NEW append \in BOOLEAN,
         NEW step, step = (IF op = "remove" THEN "remove" ELSE "exists"),
         Enter(op, overwrite, append, step), frame' \in 0..MaxWrites
  PROVE  IInv'
<1>1. /\ pc = "user" /\ pc' = step /\ value' = "none" /\ done' = FALSE
      /\ call'.op = op /\ call'.enc = enc /\ foreign' = foreign
      /\ UNCHANGED <<serverVars, result>>
      /\ call' \in [op : Ops, overwrite : BOOLEAN, append : BOOLEAN,
                    enc : Encodings \cup {"none"}]
  BY DEF Enter, Ops, IInv, ServerInv
<1>2. ServerInv'
  BY <1>1, EffectKeepsServer DEF IInv, ServerInv, ServerEffect
<1>3. CallInv'
  BY <1>1 DEF IInv, CallInv, ServerInv, Steps
<1>4. DoneInv' /\ EncInv' /\ FreshInv' /\ TransactionsBeginAndEnd'
  BY <1>1 DEF DoneInv, EncInv, FreshInv, Alone, WriteReportIsTrue, EncodingKept,
              CreatesItsTable, TransactionsBeginAndEnd, WriteReturned, Returned,
              Early, serverVars
<1> QED BY <1>2, <1>3, <1>4 DEF IInv

LEMMA StartsKeep ==
  ASSUME IInv,
         \/ RemoveTable
         \/ \E overwrite, append \in BOOLEAN :
              WriteTable(overwrite, append) \/ ImportFile(overwrite, append)
  PROVE  IInv'
<1>1. frame \in 0..MaxWrites /\ MaxWrites \in Nat
  BY BoundsAssumption DEF IInv, CallInv
<1>2. CASE RemoveTable
  BY <1>1, <1>2, EnterKeeps DEF RemoveTable
<1>3. ASSUME NEW overwrite \in BOOLEAN, NEW append \in BOOLEAN,
             WriteTable(overwrite, append) \/ ImportFile(overwrite, append)
      PROVE  IInv'
  <2>1. frame' \in 0..MaxWrites
    BY <1>1, <1>3 DEF WriteTable, ImportFile
  <2>2. PICK op \in {"write", "import"} : Enter(op, overwrite, append, "exists")
    BY <1>3 DEF WriteTable, ImportFile
  <2> QED BY <2>1, <2>2, EnterKeeps
<1> QED BY <1>2, <1>3

\* What the steps of such a call leave alone, and what of the invariant is then left to
\* show: between its statements, and at its return.
Under == pc # "user" /\ call' = call /\ frame' = frame /\ foreign' = foreign

LEMMA PromisesOfOthers ==
  ASSUME IInv, Under
  PROVE  TransactionsBeginAndEnd'
BY DEF IInv, CallInv, Under, TransactionsBeginAndEnd, Returned

LEMMA LooksKeep ==
  ASSUME IInv, LookUp \/ LookUpToRemove \/ LookAgain
  PROVE  IInv'
<1>1. /\ Under /\ done' = done /\ pc \in {"exists", "remove", "again"}
      /\ Answered \/ Rejected
      /\ result' = "none"
  BY DEF LookUp, LookUpToRemove, LookAgain, Under, Goto, Return, Existing, NotExisting,
         NotKnown, QuickSQL
<1>2. table' = table /\ enc' = enc
  BY <1>1 DEF Answered, Rejected
<1>3. ServerInv'
  BY <1>1, EffectKeepsServer DEF Under, IInv, ServerEffect
<1>4. CallInv'
  BY <1>1 DEF LookUp, LookUpToRemove, LookAgain, Under, Goto, Return, IInv, CallInv, Steps
<1>5. DoneInv'
  BY <1>1 DEF LookUp, LookUpToRemove, LookAgain, Under, Goto, Return, IInv, CallInv, Steps,
              DoneInv, WriteReportIsTrue, WriteReturned, Returned
<1>6. EncInv'
  BY <1>1, <1>2 DEF LookUp, LookUpToRemove, LookAgain, Under, Goto, Return, IInv, EncInv,
                    EncodingKept, WriteReturned, Returned, Early
<1>7. FreshInv'
  <2>1. Alone' <=> Alone
    BY <1>1 DEF Under, Alone
  <2>2. CASE LookUp
    BY <1>1, <1>2, <2>1, <2>2 DEF LookUp, Existing, NotExisting, Under, Goto, Return, IInv,
       CallInv, FreshInv, Alone, CreatesItsTable, WriteReturned, Returned
  <2>3. CASE LookUpToRemove
    BY <1>1, <1>2, <2>1, <2>3 DEF LookUpToRemove, Under, Goto, Return, IInv,
       CallInv, FreshInv, Alone, CreatesItsTable, WriteReturned, Returned
  <2>4. CASE LookAgain
    BY <1>1, <1>2, <2>1, <2>4 DEF LookAgain, Existing, NotExisting, Under, Goto, Return,
       IInv, CallInv, FreshInv, Alone, CreatesItsTable, WriteReturned, Returned
  <2> QED BY <2>2, <2>3, <2>4
<1> QED BY <1>1, <1>3, <1>4, <1>5, <1>6, <1>7, PromisesOfOthers DEF IInv

LEMMA DropKeeps ==
  ASSUME IInv, Drop
  PROVE  IInv'
<1>1. /\ Under /\ pc = "drop" /\ result' = "none"
      /\ Changed(Absent) \/ Rejected
      /\ \/ call.op = "remove" /\ pc' = "user" /\ value' = "TRUE"
         \/ call.op # "remove" /\ pc' = "again" /\ value' = value /\ done' = done
      /\ done' \in BOOLEAN
  BY DEF Drop, Under, QuickSQL, IInv, DoneInv, CallInv
<1>2. enc' = enc
  BY <1>1 DEF Changed, Rejected
<1>3. ServerInv'
  BY <1>1, EffectKeepsServer, TablesOfSteps DEF Under, IInv, ServerEffect
<1>4. CallInv'
  BY <1>1 DEF Under, IInv, CallInv, Steps
<1>5. DoneInv'
  BY <1>1 DEF Under, IInv, DoneInv, CallInv, Steps, WriteReportIsTrue, WriteReturned,
              Returned
<1>6. EncInv'
  BY <1>1, <1>2 DEF Under, IInv, EncInv, EncodingKept, WriteReturned, Returned, Early
<1>7. FreshInv'
  BY <1>1 DEF Under, IInv, FreshInv, Alone, CreatesItsTable, WriteReturned, Returned
<1> QED BY <1>1, <1>3, <1>4, <1>5, <1>6, <1>7, PromisesOfOthers DEF IInv

LEMMA CreateKeeps ==
  ASSUME IInv, Create
  PROVE  IInv'
<1>1. /\ Under /\ pc = "create" /\ result' = "none" /\ done' = done
      /\ \/ /\ Changed(Holding({}))
            /\ pc' = (IF call.op = "write" THEN "encoding" ELSE "load")
         \/ Rejected /\ pc' = "user" /\ value' = "FALSE"
  BY DEF Create, Under, Goto, Return
<1>2. enc' = enc /\ (Changed(Holding({})) => table'.rows = {})
  BY <1>1 DEF Changed, Rejected, Holding
<1>3. ServerInv'
  BY <1>1, EffectKeepsServer, TablesOfSteps DEF Under, IInv, ServerEffect
<1>4. CallInv'
  BY <1>1 DEF Under, IInv, CallInv, Steps
<1>5. DoneInv'
  BY <1>1 DEF Under, IInv, DoneInv, CallInv, Steps, WriteReportIsTrue, WriteReturned,
              Returned
<1>6. EncInv'
  BY <1>1, <1>2 DEF Under, IInv, EncInv, EncodingKept, WriteReturned, Returned, Early
<1>7. FreshInv'
  BY <1>1, <1>2 DEF Under, IInv, FreshInv, Alone, CreatesItsTable, WriteReturned, Returned
<1> QED BY <1>1, <1>3, <1>4, <1>5, <1>6, <1>7, PromisesOfOthers DEF IInv

\* A frame may join the table.
LEMMA FrameFits ==
  ASSUME IInv
  PROVE  TableOK(Holding(table.rows \cup {frame}))
<1>1. table.rows \subseteq 0..MaxWrites /\ frame \in 0..MaxWrites
  BY DEF IInv, ServerInv, CallInv, TableOK, Tables
<1>2. table.rows \cup {frame} \in SUBSET (0..MaxWrites)
  BY <1>1
<1> QED BY <1>2, TablesOfSteps

LEMMA LoadKeeps ==
  ASSUME IInv, Load
  PROVE  IInv'
<1> DEFINE grown == Holding(table.rows \cup {frame})
<1>1. /\ Under /\ pc = "load" /\ result' = "none" /\ pc' = "user"
      /\ \/ Changed(grown) /\ value' = "TRUE" /\ done' = TRUE
         \/ Rejected /\ value' = "FALSE" /\ done' = done
  BY DEF Load, Under, Return
<1>2. enc' = enc /\ (Changed(grown) => table'.rows = table.rows \cup {frame})
  BY <1>1 DEF Changed, Rejected, Holding
<1>3. TableOK(grown)
  BY FrameFits
<1>4. ServerInv'
  <2> HIDE DEF grown
  <2> QED BY <1>1, <1>3, EffectKeepsServer DEF Under, IInv, ServerEffect
<1> HIDE DEF grown
<1>5. CallInv'
  BY <1>1 DEF Under, IInv, CallInv, Steps
<1>6. DoneInv'
  <2>1. ~done /\ done \in BOOLEAN
    BY <1>1 DEF IInv, DoneInv, Steps
  <2>2. /\ pc' = "user"
        /\ \/ value' = "TRUE" /\ done' = TRUE
           \/ value' = "FALSE" /\ done' = FALSE
    BY <1>1, <2>1
  <2> QED BY <2>2 DEF DoneInv, WriteReportIsTrue, WriteReturned, Returned
<1>7. EncInv'
  BY <1>1, <1>2 DEF Under, IInv, EncInv, EncodingKept, WriteReturned, Returned, Early
<1>8. FreshInv'
  BY <1>1, <1>2 DEF Under, IInv, CallInv, FreshInv, Alone, CreatesItsTable, WriteReturned,
                    Returned
<1> QED BY <1>1, <1>4, <1>5, <1>6, <1>7, <1>8, PromisesOfOthers DEF IInv

\* The encoding is set only here, and back to what it was.
LEMMA EncodingKeeps ==
  ASSUME IInv, SwitchEncoding \/ RestoreEncoding
  PROVE  IInv'
<1>1. /\ Under /\ result' = "none" /\ done' = done
      /\ \/ pc = "encoding" /\ EncodingSet("UTF8") /\ pc' = "copy"
         \/ pc = "restore" /\ EncodingSet(call.enc) /\ pc' = "user" /\ value' = "TRUE"
  BY DEF SwitchEncoding, RestoreEncoding, QuickSQL, Under, Goto, Return
<1>2. table' = table /\ (pc = "restore" => enc' = call.enc)
  BY <1>1 DEF EncodingSet
<1>3. "UTF8" \in Encodings /\ call.enc \in Encodings
  BY <1>1 DEF Encodings, IInv, CallInv
<1>4. ServerInv'
  BY <1>1, <1>3, EffectKeepsServer DEF Under, IInv, ServerEffect
<1>5. CallInv'
  BY <1>1 DEF Under, IInv, CallInv, Steps
<1>6. DoneInv'
  BY <1>1 DEF Under, IInv, DoneInv, Steps, WriteReportIsTrue, WriteReturned, Returned
<1>7. EncInv'
  BY <1>1, <1>2 DEF Under, IInv, EncInv, EncodingKept, WriteReturned, Returned, Early
<1>8. FreshInv'
  BY <1>1, <1>2 DEF Under, IInv, CallInv, FreshInv, Alone, CreatesItsTable, WriteReturned,
                    Returned
<1> QED BY <1>1, <1>4, <1>5, <1>6, <1>7, <1>8, PromisesOfOthers DEF IInv

LEMMA StartCopyKeeps ==
  ASSUME IInv, StartCopy
  PROVE  IInv'
<1>1. /\ Under /\ pc = "copy" /\ result' = result /\ done' = done
      /\ \/ CopyStarted /\ pc' = "data"
         \/ Rejected /\ pc' = "user" /\ value' = "error"
  BY DEF StartCopy, Under, Goto, Return
<1>2. table' = table
  BY <1>1 DEF CopyStarted, Rejected
<1>3. ServerInv'
  BY <1>1, EffectKeepsServer DEF Under, IInv, ServerInv, ServerEffect
<1>4. CallInv'
  BY <1>1 DEF Under, IInv, CallInv, Steps
<1>5. DoneInv'
  BY <1>1 DEF Under, IInv, DoneInv, Steps, WriteReportIsTrue, WriteReturned, Returned
<1>6. EncInv'
  BY <1>1 DEF Under, EncInv, EncodingKept, WriteReturned, Returned, Early
<1>7. FreshInv'
  BY <1>1, <1>2 DEF Under, IInv, FreshInv, Alone, CreatesItsTable, WriteReturned, Returned
<1> QED BY <1>1, <1>3, <1>4, <1>5, <1>6, <1>7, PromisesOfOthers DEF IInv

LEMMA CopyInKeeps ==
  ASSUME IInv, CopyInDataframe
  PROVE  IInv'
<1> DEFINE grown == Holding(table.rows \cup {frame})
<1>1. /\ Under /\ pc = "data" /\ result' = result
      /\ \/ /\ table' = grown /\ copying' = FALSE
            /\ mine' = (tx = "active") /\ saved' = (IF mine THEN saved ELSE table)
            /\ UNCHANGED <<tx, enc, txEnc>> /\ pc' = "stored" /\ done' = TRUE
         \/ Rejected /\ pc' = "refused" /\ done' = done
         \/ UNCHANGED serverVars /\ pc' = "user" /\ value' = "error" /\ done' = done
  BY DEF CopyInDataframe, Under, Goto, Return
<1>2. table' = grown => table'.rows = table.rows \cup {frame}
  BY DEF Holding
<1>3. TableOK(grown)
  BY FrameFits
<1> HIDE DEF grown
<1>4. ServerInv'
  <2>1. CASE pc' = "stored"
    <3>1. TableOK(saved')
      BY <1>1, <2>1 DEF IInv, ServerInv
    <3>2. TableOK(table')
      BY <1>1, <1>3, <2>1
    <3>3. mine' \in BOOLEAN /\ (mine' => tx' # "idle")
      BY <1>1, <2>1
    <3> QED BY <1>1, <2>1, <3>1, <3>2, <3>3 DEF IInv, ServerInv, Under
  <2>2. CASE pc' # "stored"
    BY <1>1, <2>2, EffectKeepsServer DEF Under, IInv, ServerInv, ServerEffect
  <2> QED BY <2>1, <2>2
<1>5. CallInv'
  BY <1>1 DEF Under, IInv, CallInv, Steps
<1>6. DoneInv'
  <2>1. ~done /\ done \in BOOLEAN
    BY <1>1 DEF IInv, DoneInv, Steps
  <2>2. \/ pc' = "stored" /\ done' = TRUE
        \/ pc' = "refused" /\ done' = FALSE
        \/ pc' = "user" /\ value' = "error" /\ done' = FALSE
    BY <1>1, <2>1
  <2> QED BY <2>2 DEF DoneInv, WriteReportIsTrue, WriteReturned, Returned
<1>7. EncInv'
  BY <1>1 DEF Under, EncInv, EncodingKept, WriteReturned, Returned, Early
<1>8. FreshInv'
  BY <1>1, <1>2 DEF Under, IInv, CallInv, FreshInv, Alone, CreatesItsTable, WriteReturned,
                    Returned
<1> QED BY <1>1, <1>4, <1>5, <1>6, <1>7, <1>8, PromisesOfOthers DEF IInv

\* An answer, or an interrupt, leaves the server as it is.
LEMMA AnswersKeep ==
  ASSUME IInv, GetResult \/ Interrupt
  PROVE  IInv'
<1>1. /\ Under /\ UNCHANGED <<serverVars, result>> /\ done' = done
      /\ \/ pc = "stored" /\ pc' = "restore"
         \/ pc' = "user" /\ value' \in {"error", "interrupt"}
  BY DEF GetResult, Interrupt, Under, Goto, Return
<1>2. ServerInv'
  BY <1>1, EffectKeepsServer DEF Under, IInv, ServerInv, ServerEffect
<1>3. CallInv'
  BY <1>1 DEF Under, IInv, CallInv, Steps
<1>4. DoneInv'
  BY <1>1 DEF Under, IInv, DoneInv, Steps, WriteReportIsTrue, WriteReturned, Returned
<1>5. EncInv'
  BY <1>1 DEF Under, EncInv, EncodingKept, WriteReturned, Returned, Early
<1>6. FreshInv'
  BY <1>1 DEF Under, IInv, CallInv, FreshInv, Alone, CreatesItsTable, WriteReturned, Returned,
              serverVars
<1> QED BY <1>1, <1>2, <1>3, <1>4, <1>5, <1>6, PromisesOfOthers DEF IInv

\* Another session ends what this one is promised of being alone.
LEMMA ForeignKeeps ==
  ASSUME IInv, Foreign
  PROVE  IInv'
<1>1. /\ UNCHANGED <<tx, mine, saved, enc, txEnc, copying, result, call, pc, value, frame, done>>
      /\ foreign < MaxForeign /\ foreign' = foreign + 1
      /\ table' \in {Absent, Holding({0})}
  BY DEF Foreign, callVars
<1>2. foreign' \in 0..MaxForeign /\ foreign' # 0
  BY <1>1, BoundsAssumption DEF IInv, ServerInv
<1>3. TableOK(table')
  <2>1. {0} \in SUBSET (0..MaxWrites)
    BY BoundsAssumption
  <2> QED BY <1>1, <2>1, TablesOfSteps
<1>4. ServerInv'
  BY <1>1, <1>2, <1>3 DEF IInv, ServerInv
<1>5. CallInv' /\ DoneInv' /\ EncInv' /\ TransactionsBeginAndEnd'
  BY <1>1 DEF IInv, CallInv, DoneInv, EncInv, WriteReportIsTrue, EncodingKept,
              TransactionsBeginAndEnd, WriteReturned, Returned
<1>6. FreshInv'
  BY <1>1, <1>2 DEF FreshInv, Alone, CreatesItsTable
<1> QED BY <1>4, <1>5, <1>6 DEF IInv

LEMMA StutterKeeps ==
  ASSUME IInv, UNCHANGED vars
  PROVE  IInv'
BY DEF vars, serverVars, callVars, IInv, ServerInv, CallInv, DoneInv, EncInv, FreshInv, Alone,
       WriteReportIsTrue, EncodingKept, CreatesItsTable, TransactionsBeginAndEnd,
       WriteReturned, Returned

-----------------------------------------------------------------------------
(* The invariant. *)

LEMMA InitEstablishes == Init => IInv
<1> SUFFICES ASSUME Init PROVE IInv
  OBVIOUS
<1>1. {0} \in SUBSET (0..MaxWrites) /\ 0 \in 0..MaxForeign /\ 0 \in 0..MaxWrites
  BY BoundsAssumption
<1>2. ServerInv
  BY <1>1, TablesOfSteps DEF Init, ServerInv, Encodings
<1>3. CallInv
  BY <1>1 DEF Init, CallInv, NoCall, Ops, Steps
<1>4. DoneInv /\ EncInv /\ FreshInv /\ TransactionsBeginAndEnd
  BY DEF Init, NoCall, DoneInv, EncInv, FreshInv, Alone, WriteReportIsTrue, EncodingKept,
         CreatesItsTable, TransactionsBeginAndEnd, WriteReturned, Returned, Early
<1> QED BY <1>2, <1>3, <1>4 DEF IInv

LEMMA NextKeeps == IInv /\ [Next]_vars => IInv'
<1> SUFFICES ASSUME IInv, [Next]_vars PROVE IInv'
  OBVIOUS
<1> QED
  BY QueryKeeps, BeginKeeps, EndKeeps, StartsKeep, LooksKeep, DropKeeps, CreateKeeps, LoadKeeps,
     EncodingKeeps, StartCopyKeeps, CopyInKeeps, AnswersKeep, ForeignKeeps, StutterKeeps DEF Next

\* The invariant holds in every state.
THEOREM IInvHolds == Spec => []IInv
BY InitEstablishes, NextKeeps, PTL DEF Spec

\* Every variable has its shape, and no result set is open in the middle of a call.
THEOREM TypeCorrect == Spec => []TypeOK
<1>1. IInv => TypeOK
  BY DEF IInv, ServerInv, CallInv, DoneInv, TypeOK, TableOK, Encodings
<1> QED BY <1>1, IInvHolds, PTL

\* What dbWriteTable returns is what the server has done.
THEOREM ReportsAreTrue == Spec => []WriteReportIsTrue
<1>1. IInv => WriteReportIsTrue
  BY DEF IInv, DoneInv
<1> QED BY <1>1, IInvHolds, PTL

\* dbBegin begins a transaction, dbCommit and dbRollback end it.
THEOREM TransactionsDo == Spec => []TransactionsBeginAndEnd
<1>1. IInv => TransactionsBeginAndEnd
  BY DEF IInv
<1> QED BY <1>1, IInvHolds, PTL

\* dbWriteTable leaves the encoding it found.
THEOREM EncodingIsKept == Spec => []EncodingKept
<1>1. IInv => EncodingKept
  BY DEF IInv, EncInv
<1> QED BY <1>1, IInvHolds, PTL

\* A frame that makes its table is alone in it.
THEOREM CreatesTheTable == Spec => []CreatesItsTable
<1>1. IInv => CreatesItsTable
  BY DEF IInv, FreshInv
<1> QED BY <1>1, IInvHolds, PTL

-----------------------------------------------------------------------------
(* What a step may not do. *)

\* A statement other than a DROP and the end of a transaction takes no rows away.
LEMMA MostKeepRows ==
  ASSUME Rejected \/ Answered \/ CopyStarted \/ Begun \/ Committed \/ UNCHANGED serverVars
         \/ (\E e : EncodingSet(e))
  PROVE  table' = table
BY DEF Rejected, Answered, CopyStarted, Begun, Committed, EncodingSet, serverVars

\* Rows go only by a call that overwrites or removes, or with a transaction.
THEOREM RowsSurviveAlways == Spec => RowsSurvive
<1> DEFINE Survive == \/ table.rows \subseteq table'.rows
                      \/ call'.overwrite \/ call'.op \in {"remove", "commit", "rollback"}
                      \/ foreign' # foreign
<1>1. ASSUME IInv, [Next]_vars PROVE [Survive]_vars
  <2>1. CASE GetQuery \/ SendQuery \/ Fetch \/ ClearResult \/ BeginTransaction
    <3>1. table' = table
      BY <2>1, MostKeepRows DEF GetQuery, SendQuery, Fetch, ClearResult, BeginTransaction,
         QuickSQL
    <3> QED BY <3>1
  <2>2. CASE Commit \/ Rollback
    <3>1. \E v, did : Single("commit", v, did) \/ Single("rollback", v, did)
      BY <2>2 DEF Commit, SendCommit, Rollback
    <3>2. call'.op \in {"commit", "rollback"}
      BY <3>1 DEF Single, NoCall
    <3> QED BY <3>2
  <2>3. CASE RemoveTable \/ (\E overwrite, append \in BOOLEAN :
                WriteTable(overwrite, append) \/ ImportFile(overwrite, append))
    BY <2>3 DEF RemoveTable, WriteTable, ImportFile, Enter, serverVars
  <2>4. CASE LookUp \/ LookUpToRemove \/ LookAgain
    BY <2>4 DEF LookUp, LookUpToRemove, LookAgain, Existing, NotExisting, NotKnown, QuickSQL,
       Answered, Rejected
  <2>5. CASE Drop
    BY <1>1, <2>5 DEF Drop, IInv, CallInv
  <2>6. CASE Create
    <3>1. Rejected \/ (~table.exists /\ table.rows = {})
      BY <1>1, <2>6 DEF Create, IInv, ServerInv, TableOK
    <3> QED BY <3>1 DEF Rejected
  <2>7. CASE Load \/ CopyInDataframe
    BY <2>7 DEF Load, CopyInDataframe, Changed, Holding, Rejected, serverVars
  <2>8. CASE SwitchEncoding \/ RestoreEncoding \/ StartCopy
    <3>1. table' = table
      BY <2>8, MostKeepRows DEF SwitchEncoding, RestoreEncoding, StartCopy, QuickSQL
    <3> QED BY <3>1
  <2>9. CASE GetResult \/ Interrupt
    BY <2>9 DEF GetResult, Interrupt, serverVars
  <2>10. CASE Foreign
    BY <1>1, <2>10, BoundsAssumption DEF Foreign, IInv, ServerInv
  <2>11. CASE UNCHANGED vars
    BY <2>11
  <2> QED BY <1>1, <2>1, <2>2, <2>3, <2>4, <2>5, <2>6, <2>7, <2>8, <2>9, <2>10, <2>11 DEF Next
<1> QED BY <1>1, IInvHolds, PTL DEF Spec, RowsSurvive

\* Rows that have not been fetched go only by being fetched or cleared, or by a method
\* that clears them for a query of its own; not by dbCommit and not by dbSendQuery.
THEOREM PendingRowsGoByThese == Spec => PendingRowsGo
<1> DEFINE Losing == {"fetch", "clearResult"} \cup DiscardingOps
<1>1. ASSUME IInv, [Next]_vars
      PROVE  [result = "pending" /\ result' # "pending" => call'.op \in Losing]_vars
  <2> SUFFICES ASSUME Next, result = "pending", result' # "pending" PROVE call'.op \in Losing
    BY <1>1
  <2>1. CASE pc # "user"
    <3>1. call' = call
      BY <2>1 DEF Next, GetQuery, SendQuery, Fetch, ClearResult, BeginTransaction, Commit,
         SendCommit, Rollback, Single, RemoveTable, WriteTable, ImportFile, Enter, LookUp,
         LookUpToRemove, Drop, LookAgain, Create, Load, SwitchEncoding, StartCopy,
         CopyInDataframe, GetResult, RestoreEncoding, Interrupt, Foreign, Goto, Return, callVars
    <3> QED BY <1>1, <2>1, <3>1 DEF IInv, CallInv, DiscardingOps
  <2>2. CASE pc = "user"
    <3>1. \/ GetQuery \/ SendQuery \/ Fetch \/ ClearResult \/ BeginTransaction \/ Commit \/ Rollback
          \/ UNCHANGED result
      BY <2>2 DEF Next, RemoveTable, WriteTable, ImportFile, Enter, LookUp,
         LookUpToRemove, Drop, LookAgain, Create, Load, SwitchEncoding, StartCopy,
         CopyInDataframe, GetResult, RestoreEncoding, Interrupt, Foreign
    <3>2. ~Commit /\ ~SendQuery
      BY DEF Commit, SendQuery
    <3>3. \E op \in Losing : \E v, did : Single(op, v, did)
      BY <3>1, <3>2 DEF GetQuery, Fetch, ClearResult, BeginTransaction, Rollback, DiscardingOps
    <3> QED BY <3>3 DEF Single, NoCall
  <2> QED BY <2>1, <2>2
<1> QED BY <1>1, IInvHolds, PTL DEF Spec, PendingRowsGo

\* The calls that lose rows of the table, and those that lose rows not yet fetched,
\* are the ones OnlyTheseLoseRows lists; every other call keeps them.
THEOREM RowsAreLostByThese == Spec => OnlyTheseLoseRows
<1> QED BY RowsSurviveAlways, PendingRowsGoByThese DEF OnlyTheseLoseRows
-----------------------------------------------------------------------------
(* The fetch loop, for results of any size, any default, any requests and  *)
(* any limit on the length of a vector.                                    *)

USE RowsAssumption, RequestsAssumption, DefaultAssumption, LengthAssumption,
    NAAssumption

\* The cells that size the output of a call that asked for n.
Limit(n) == IF n = 0 THEN DefaultRec ELSE n

Given == {p[2] : p \in delivered}

\* Rows that earlier calls consumed.
Settled == IF phase = "fetched" THEN rowCount - num_rec ELSE rowCount

\* In the loop: cell x holds row rowCount + x, and a bounded call has exactly
\* the cells it asked for.
LoopInv ==
  phase = "loop" =>
    /\ max_rec \in Requests
    /\ k = rowCount + i /\ k <= num_rows
    /\ i <= num_rec /\ num_rec > 0
    /\ ~Expand => num_rec = Limit(max_rec)
    /\ \A x \in 0..i-1 : output[x] = rowCount + x

\* Back in R: the output is the batch before rowCount, cut to the rows copied.
BatchInv ==
  phase = "fetched" =>
    /\ num_rec <= rowCount
    /\ \A x \in 0..num_rec-1 : output[x] = rowCount - num_rec + x

AccountInv ==
  /\ rowCount <= num_rows
  /\ Given \cup lost = 0..Settled-1
  /\ Given \cap lost = {}

FetchIInv ==
  /\ FetchTypeOK
  /\ LoopInv
  /\ BatchInv
  /\ AccountInv
  /\ RowNamesNumberTheResult
  /\ CompletedMeansExhausted

\* A vector of len cells has the type of an output.
LEMMA VectorType ==
  ASSUME NEW len \in Nat
  PROVE  Vector(len) \in [0..len-1 -> Nat \cup {NA}]
BY DEF Vector

\* SET_LENGTH gives a vector of the new length that keeps the cells both have.
LEMMA SetLengthKeeps ==
  ASSUME NEW m \in Nat, NEW len \in Nat,
         NEW v \in [0..m-1 -> Nat \cup {NA}]
  PROVE  /\ SetLength(v, len) \in [0..len-1 -> Nat \cup {NA}]
         /\ \A x \in 0..len-1 : x < m => SetLength(v, len)[x] = v[x]
BY DEF SetLength

\* The rows of an output that holds the n rows from first on.
LEMMA RowsOfBatch ==
  ASSUME NEW n \in Nat, NEW first \in Nat,
         NEW v \in [0..n-1 -> Nat \cup {NA}],
         \A x \in 0..n-1 : v[x] = first + x
  PROVE  RowsOf(v) = first..(first + n - 1)
<1>1. RowsOf(v) \subseteq first..(first + n - 1)
  BY DEF RowsOf
<1>2. ASSUME NEW r \in first..(first + n - 1)  PROVE r \in RowsOf(v)
  <2>1. r - first \in 0..n-1 /\ v[r - first] = r
    OBVIOUS
  <2> QED BY <2>1 DEF RowsOf
<1> QED BY <1>1, <1>2

\* A call that returns has its batch in the output, right behind the rows of
\* the calls before.
LEMMA ReturnStep ==
  ASSUME FetchIInv, phase = "loop", NEW over \in {0, 1}, LeaveLoop(over),
         over = 1 => k >= num_rows,
         over = 0 => k < num_rows
  PROVE  /\ FetchIInv'
         /\ rowCount' = rowCount + i
         /\ RowsOf(output)' = rowCount..(rowCount' - 1)
<1> USE DEF FetchIInv
<1>1. /\ num_rec' = i /\ i \in Nat /\ num_rec \in Nat /\ i <= num_rec
      /\ rowCount \in Nat /\ rowCount' = rowCount + i /\ k = rowCount + i
      /\ k <= num_rows
      /\ output \in [0..num_rec-1 -> Nat \cup {NA}]
  BY DEF FetchTypeOK, LoopInv, LeaveLoop
<1>2. /\ output' \in [0..i-1 -> Nat \cup {NA}]
      /\ \A x \in 0..i-1 : output'[x] = rowCount + x
  <2>1. output' = SetLength(output, i)
    BY DEF LeaveLoop
  <2>2. \A x \in 0..i-1 : output[x] = rowCount + x
    BY DEF LoopInv
  <2> QED BY <1>1, <2>1, <2>2, SetLengthKeeps
<1>3. RowsOf(output)' = rowCount..(rowCount' - 1)
  <2>1. RowsOf(output') = rowCount..(rowCount + i - 1)
    BY <1>1, <1>2, RowsOfBatch
  <2> QED BY <1>1, <2>1 DEF RowsOf
<1>4. FetchTypeOK'
  BY <1>1, <1>2 DEF FetchTypeOK, LeaveLoop, historyVars
<1>5. LoopInv'
  BY DEF LoopInv, LeaveLoop
<1>6. BatchInv'
  BY <1>1, <1>2 DEF BatchInv
<1>7. AccountInv'
  BY <1>1 DEF AccountInv, Settled, Given, LeaveLoop, historyVars, FetchTypeOK
<1>8. RowNamesNumberTheResult'
  BY DEF RowNamesNumberTheResult, LeaveLoop, historyVars
<1>9. CompletedMeansExhausted'
  BY <1>1 DEF CompletedMeansExhausted, LeaveLoop, FetchTypeOK
<1> QED BY <1>1, <1>3, <1>4, <1>5, <1>6, <1>7, <1>8, <1>9

\* The data frame a call returns continues the row names of the ones before.
LEMMA DeliverStep ==
  ASSUME FetchIInv, Deliver
  PROVE  /\ FetchIInv'
         /\ Given' = Given \cup RowsOf(output)
         /\ RowsOf(output) = Settled..(rowCount - 1)
<1> USE DEF FetchIInv
<1> DEFINE batch == {<<rowCount - num_rec + 1 + x, output[x]>> : x \in 0..num_rec-1}
<1>1. /\ phase = "fetched" /\ phase' = "idle"
      /\ num_rec \in Nat /\ rowCount \in Nat /\ num_rec <= rowCount
      /\ output \in [0..num_rec-1 -> Nat \cup {NA}]
      /\ \A x \in 0..num_rec-1 : output[x] = rowCount - num_rec + x
      /\ delivered' = delivered \cup batch
      /\ UNCHANGED <<num_rows, rowCount, completed, lost, max_rec, i, k, num_rec, output>>
  BY DEF Deliver, FetchTypeOK, BatchInv, resultVars
<1>2. RowsOf(output) = Settled..(rowCount - 1)
  <2>1. RowsOf(output) = (rowCount - num_rec)..(rowCount - num_rec + num_rec - 1)
    BY <1>1, RowsOfBatch
  <2> QED BY <1>1, <2>1 DEF Settled
<1>3. batch \subseteq Nat \X Nat /\ \A p \in batch : p[1] = p[2] + 1
  BY <1>1
<1>4. {p[2] : p \in batch} = RowsOf(output)
  <2>1. ASSUME NEW p \in batch  PROVE p[2] \in RowsOf(output)
    BY <1>1 DEF RowsOf
  <2>2. ASSUME NEW r \in RowsOf(output)  PROVE \E p \in batch : p[2] = r
    <3>1. PICK x \in 0..num_rec-1 : output[x] = r
      BY <1>1 DEF RowsOf
    <3>2. <<rowCount - num_rec + 1 + x, output[x]>> \in batch
      OBVIOUS
    <3> QED BY <3>1, <3>2
  <2> QED BY <2>1, <2>2
<1>5. Given' = Given \cup RowsOf(output)
  BY <1>1, <1>4 DEF Given
<1>6. FetchTypeOK'
  BY <1>1, <1>3 DEF FetchTypeOK
<1>7. LoopInv' /\ BatchInv'
  BY <1>1 DEF LoopInv, BatchInv
<1>8. AccountInv'
  <2>1. Settled' = rowCount /\ Settled \in Nat /\ Settled <= rowCount
    BY <1>1 DEF Settled
  <2>2. Given' \cup lost' = 0..Settled'-1
    BY <1>1, <1>2, <1>5, <2>1 DEF AccountInv
  <2>3. Given' \cap lost' = {}
    BY <1>1, <1>2, <1>5, <2>1 DEF AccountInv
  <2> QED BY <1>1, <2>2, <2>3 DEF AccountInv
<1>9. RowNamesNumberTheResult'
  BY <1>1, <1>3 DEF RowNamesNumberTheResult
<1>10. CompletedMeansExhausted'
  BY <1>1 DEF CompletedMeansExhausted
<1> QED BY <1>2, <1>5, <1>6, <1>7, <1>8, <1>9, <1>10

\* One lemma per action keeps the cases of FetchNextKeeps short: each of these
\* leaves rowCount and the history alone.
LEMMA StartStep ==
  ASSUME FetchIInv, NEW n \in Requests, Start(n)
  PROVE  FetchIInv'
<1> USE DEF FetchIInv
<1>1. /\ phase = "idle" /\ phase' = "loop" /\ max_rec' = n /\ n \in Int
      /\ num_rec' = (IF n <= 0 THEN DefaultRec ELSE n)
      /\ num_rec' \in Nat /\ num_rec' > 0
      /\ output' = Vector(num_rec') /\ i' = 0 /\ k' = rowCount
      /\ UNCHANGED <<num_rows, rowCount, completed, delivered, lost>>
  BY DEF Start, resultVars, historyVars
<1>2. FetchTypeOK'
  BY <1>1, VectorType DEF FetchTypeOK
<1>3. LoopInv'
  <2>1. ~Expand' => num_rec' = Limit(max_rec')
    BY <1>1 DEF Expand, Limit
  <2> QED BY <1>1, <2>1 DEF LoopInv, FetchTypeOK, AccountInv
<1>4. BatchInv' /\ RowNamesNumberTheResult' /\ CompletedMeansExhausted'
  BY <1>1 DEF BatchInv, RowNamesNumberTheResult, CompletedMeansExhausted
<1>5. AccountInv'
  BY <1>1 DEF AccountInv, Settled, Given
<1> QED BY <1>2, <1>3, <1>4, <1>5

LEMMA GrowStep ==
  ASSUME FetchIInv, Grow
  PROVE  FetchIInv'
<1> USE DEF FetchIInv
<1>1. /\ phase = "loop" /\ phase' = "loop" /\ Expand /\ k < num_rows /\ i = num_rec
      /\ num_rec \in Nat /\ num_rec > 0
      /\ num_rec' = 2 * num_rec /\ output' = SetLength(output, num_rec')
      /\ output \in [0..num_rec-1 -> Nat \cup {NA}]
      /\ UNCHANGED <<num_rows, rowCount, completed, delivered, lost, max_rec, i, k>>
  BY DEF Grow, resultVars, historyVars, FetchTypeOK, LoopInv
<1>2. num_rec' \in Nat /\ num_rec < num_rec'
  BY <1>1
<1>3. /\ output' \in [0..num_rec'-1 -> Nat \cup {NA}]
      /\ \A x \in 0..num_rec'-1 : x < num_rec => output'[x] = output[x]
  BY <1>1, <1>2, SetLengthKeeps
<1>4. FetchTypeOK'
  BY <1>1, <1>2, <1>3 DEF FetchTypeOK
<1>5. LoopInv'
  BY <1>1, <1>2, <1>3 DEF LoopInv, Expand
<1>6. BatchInv' /\ RowNamesNumberTheResult' /\ CompletedMeansExhausted'
  BY <1>1 DEF BatchInv, RowNamesNumberTheResult, CompletedMeansExhausted
<1>7. AccountInv'
  BY <1>1 DEF AccountInv, Settled, Given
<1> QED BY <1>4, <1>5, <1>6, <1>7

LEMMA CopyRowStep ==
  ASSUME FetchIInv, CopyRow
  PROVE  FetchIInv'
<1> USE DEF FetchIInv
<1>1. /\ phase = "loop" /\ phase' = "loop" /\ k < num_rows /\ i # num_rec
      /\ output' = [output EXCEPT ![i] = k] /\ i' = i + 1 /\ k' = k + 1
      /\ UNCHANGED <<num_rows, rowCount, completed, delivered, lost, max_rec, num_rec>>
  BY DEF CopyRow, resultVars, historyVars
<1>2. /\ i \in Nat /\ k \in Nat /\ num_rec \in Nat /\ rowCount \in Nat
      /\ i < num_rec /\ k = rowCount + i
      /\ output \in [0..num_rec-1 -> Nat \cup {NA}]
  BY <1>1 DEF FetchTypeOK, LoopInv
<1>3. FetchTypeOK'
  BY <1>1, <1>2 DEF FetchTypeOK
<1>4. ASSUME NEW x \in 0..i'-1  PROVE output'[x] = rowCount + x
  <2>1. x \in 0..num_rec-1 /\ (x = i \/ x \in 0..i-1)
    BY <1>1, <1>2
  <2>2. output'[x] = IF x = i THEN k ELSE output[x]
    BY <1>1, <1>2, <2>1
  <2>3. x \in 0..i-1 => output[x] = rowCount + x
    BY <1>1 DEF LoopInv
  <2> QED BY <1>2, <2>1, <2>2, <2>3
<1>5. LoopInv'
  BY <1>1, <1>2, <1>4 DEF LoopInv, Expand, FetchTypeOK
<1>6. BatchInv' /\ RowNamesNumberTheResult' /\ CompletedMeansExhausted'
  BY <1>1 DEF BatchInv, RowNamesNumberTheResult, CompletedMeansExhausted
<1>7. AccountInv'
  BY <1>1 DEF AccountInv, Settled, Given
<1> QED BY <1>3, <1>5, <1>6, <1>7

LEMMA ConversionFailsStep ==
  ASSUME FetchIInv, ConversionFails
  PROVE  /\ FetchIInv'
         /\ RowsOf(output) = Settled..(rowCount - 1)
<1> USE DEF FetchIInv
<1>1. /\ phase = "fetched" /\ phase' = "idle"
      /\ num_rec \in Nat /\ rowCount \in Nat /\ num_rec <= rowCount
      /\ output \in [0..num_rec-1 -> Nat \cup {NA}]
      /\ \A x \in 0..num_rec-1 : output[x] = rowCount - num_rec + x
      /\ lost' = lost \cup RowsOf(output)
      /\ UNCHANGED <<num_rows, rowCount, completed, delivered, max_rec, i, k, num_rec, output>>
  BY DEF ConversionFails, FetchTypeOK, BatchInv, resultVars
<1>2. RowsOf(output) = Settled..(rowCount - 1)
  <2>1. RowsOf(output) = (rowCount - num_rec)..(rowCount - num_rec + num_rec - 1)
    BY <1>1, RowsOfBatch
  <2> QED BY <1>1, <2>1 DEF Settled
<1>3. Settled' = rowCount /\ Settled \in Nat /\ Settled <= rowCount
  BY <1>1 DEF Settled
<1>4. FetchTypeOK'
  BY <1>1, <1>2, <1>3 DEF FetchTypeOK
<1>5. AccountInv'
  <2>1. Given' = Given
    BY <1>1 DEF Given
  <2>2. Given' \cup lost' = 0..Settled'-1
    BY <1>1, <1>2, <1>3, <2>1 DEF AccountInv
  <2>3. Given' \cap lost' = {}
    BY <1>1, <1>2, <1>3, <2>1 DEF AccountInv
  <2> QED BY <1>1, <2>2, <2>3 DEF AccountInv
<1>6. LoopInv' /\ BatchInv' /\ RowNamesNumberTheResult' /\ CompletedMeansExhausted'
  BY <1>1 DEF LoopInv, BatchInv, RowNamesNumberTheResult, CompletedMeansExhausted
<1> QED BY <1>2, <1>4, <1>5, <1>6

LEMMA GrowFailsStep ==
  ASSUME FetchIInv, GrowFails
  PROVE  FetchIInv'
<1> USE DEF FetchIInv
<1>1. /\ phase = "loop" /\ phase' = "idle"
      /\ UNCHANGED <<num_rows, rowCount, completed, delivered, lost, max_rec, i, k,
                     num_rec, output>>
  BY DEF GrowFails, resultVars, historyVars
<1>2. FetchTypeOK' /\ LoopInv' /\ BatchInv'
  BY <1>1 DEF FetchTypeOK, LoopInv, BatchInv
<1>3. AccountInv' /\ RowNamesNumberTheResult' /\ CompletedMeansExhausted'
  BY <1>1 DEF AccountInv, Settled, Given, RowNamesNumberTheResult, CompletedMeansExhausted
<1> QED BY <1>2, <1>3

LEMMA FetchInitEstablishes ==
  ASSUME FetchInit
  PROVE  FetchIInv
<1> USE DEF FetchIInv
<1>1. FetchTypeOK
  BY DEF FetchInit, FetchTypeOK, Vector
<1>2. LoopInv /\ BatchInv /\ RowNamesNumberTheResult /\ CompletedMeansExhausted
  BY DEF FetchInit, LoopInv, BatchInv, RowNamesNumberTheResult, CompletedMeansExhausted
<1>3. AccountInv
  BY DEF FetchInit, AccountInv, Settled, Given
<1> QED BY <1>1, <1>2, <1>3

LEMMA FetchNextKeeps ==
  ASSUME FetchIInv, [FetchNext]_fetchVars
  PROVE  FetchIInv'
<1>1. ASSUME NEW n \in Requests, Start(n)  PROVE FetchIInv'
  BY <1>1, StartStep
<1>2. CASE Exhausted
  BY <1>2, ReturnStep DEF Exhausted
<1>3. CASE Full
  <2>1. phase = "loop" /\ LeaveLoop(0) /\ k < num_rows
    BY <1>3 DEF Full
  <2> QED
    BY <2>1, ReturnStep
<1>4. CASE Grow
  BY <1>4, GrowStep
<1>5. CASE GrowFails
  BY <1>5, GrowFailsStep
<1>6. CASE CopyRow
  BY <1>6, CopyRowStep
<1>7. CASE Deliver
  BY <1>7, DeliverStep
<1>8. CASE ConversionFails
  BY <1>8, ConversionFailsStep
<1>9. CASE UNCHANGED fetchVars
  BY <1>9 DEF fetchVars, resultVars, loopVars, historyVars, FetchIInv, FetchTypeOK, LoopInv, BatchInv,
     AccountInv, Settled, Given, RowNamesNumberTheResult, CompletedMeansExhausted, Expand
<1> QED
  BY <1>1, <1>2, <1>3, <1>4, <1>5, <1>6, <1>7, <1>8, <1>9 DEF FetchNext, CallStep

THEOREM FetchIInvHolds == FetchSpec => []FetchIInv
<1>1. FetchInit => FetchIInv
  BY FetchInitEstablishes
<1>2. FetchIInv /\ [FetchNext]_fetchVars => FetchIInv'
  BY FetchNextKeeps
<1> QED BY <1>1, <1>2, PTL DEF FetchSpec

\* Every output cell is written inside the vectors: none of the doublings and
\* none of the counts a caller can ask for lets the index run past them.
THEOREM WritesStayInBounds == FetchSpec => []WritesInBounds
<1>1. FetchIInv => WritesInBounds
  BY DEF FetchIInv, LoopInv, FetchTypeOK, WritesInBounds
<1> QED BY <1>1, FetchIInvHolds, PTL

\* The branch of the loop that would report an error, or end a call early, is
\* dead code: a row index is never below the cell index.
THEOREM NeverAbandonsCall == FetchSpec => []NeverAbandons
<1>1. FetchIInv => NeverAbandons
  BY DEF FetchIInv, LoopInv, FetchTypeOK, NeverAbandons
<1> QED BY <1>1, FetchIInvHolds, PTL

\* dbHasCompleted() tells exactly whether the last row was consumed.
THEOREM CompletedIsExact == FetchSpec => []CompletedMeansExhausted
<1>1. FetchIInv => CompletedMeansExhausted
  BY DEF FetchIInv
<1> QED BY <1>1, FetchIInvHolds, PTL

\* No row is skipped or handed over twice, and its name is its number.
THEOREM RowsAreAccountedFor == FetchSpec => [](RowsAccountedFor /\ RowNamesNumberTheResult)
<1>1. FetchIInv => RowsAccountedFor /\ RowNamesNumberTheResult
  BY DEF FetchIInv, AccountInv, Given, Settled, RowsAccountedFor
<1> QED BY <1>1, FetchIInvHolds, PTL

\* A step hands over only rows that no earlier step handed over or lost.
LEMMA NextDeliversOnce ==
  ASSUME FetchIInv, [FetchNext]_fetchVars, NEW p \in delivered' \ delivered
  PROVE  p[2] \notin lost /\ \A q \in delivered : q[2] # p[2]
<1>1. Deliver
  BY DEF FetchNext, CallStep, Start, Exhausted, Full, LeaveLoop, Grow, GrowFails, CopyRow,
     ConversionFails, historyVars, fetchVars
<1>2. p[2] \in RowsOf(output)
  BY <1>1 DEF Deliver, RowsOf, FetchIInv, FetchTypeOK
<1>3. RowsOf(output) = Settled..(rowCount - 1) /\ Settled \in Nat
  BY <1>1, DeliverStep DEF Deliver, FetchIInv, FetchTypeOK, BatchInv, Settled
<1>4. Given \cup lost = 0..Settled-1
  BY DEF FetchIInv, AccountInv
<1>5. p[2] \notin Given /\ p[2] \notin lost
  BY <1>2, <1>3, <1>4
<1> QED BY <1>5 DEF Given

\* No row is ever handed over twice, whatever calls failed in between.
THEOREM RowsDeliveredOnce == FetchSpec => DeliveredOnce
<1>1. FetchIInv /\ [FetchNext]_fetchVars =>
        [\A p \in delivered' \ delivered :
           p[2] \notin lost /\ \A q \in delivered : q[2] # p[2]]_fetchVars
  BY NextDeliversOnce
<1> QED BY <1>1, FetchIInvHolds, PTL DEF FetchSpec, DeliveredOnce

\* The initial state of the loop is one of the cursor.
LEMMA CursorInit ==
  ASSUME FetchInit
  PROVE  Cursor!Init
BY DEF FetchInit, Cursor!Init

\* A return takes the share of rows the call asked for.
LEMMA ReturnTakesShare ==
  ASSUME FetchIInv, Exhausted \/ Full
  PROVE  Cursor!Take(max_rec)
<1> USE DEF FetchIInv
<1> DEFINE over == IF Exhausted THEN 1 ELSE 0
<1>1. /\ phase = "loop" /\ phase' = "fetched" /\ LeaveLoop(over)
      /\ over = 1 => k >= num_rows
      /\ over = 0 => k < num_rows /\ i = num_rec /\ ~Expand
      /\ completed' = over /\ num_rows' = num_rows /\ delivered' = delivered
  BY DEF Exhausted, Full, LeaveLoop, historyVars, FetchTypeOK
<1>2. /\ rowCount' = rowCount + i
      /\ RowsOf(output)' = rowCount..(rowCount' - 1)
  <2> HIDE DEF over, FetchIInv
  <2>1. FetchIInv /\ over \in {0, 1}
    BY DEF over, FetchIInv
  <2> QED BY <1>1, <2>1, ReturnStep
<1>3. /\ num_rows \in Nat /\ rowCount \in Nat /\ i \in Nat /\ num_rec \in Nat
      /\ k = rowCount + i /\ k <= num_rows /\ i <= num_rec
      /\ max_rec \in Int /\ (max_rec >= 0 => num_rec = Limit(max_rec))
  BY <1>1 DEF FetchTypeOK, LoopInv, Expand
<1>4. i = Cursor!Share(max_rec, num_rows - rowCount)
  BY <1>1, <1>3 DEF Cursor!Share, Limit, Expand
<1>5. (completed' = 1) = (rowCount' = num_rows)
  BY <1>1, <1>2, <1>3
<1> QED BY <1>1, <1>2, <1>4, <1>5 DEF Cursor!Take

LEMMA CursorNext ==
  ASSUME FetchIInv, [FetchNext]_fetchVars
  PROVE  [Cursor!Next]_Cursor!cursorVars
<1>1. CASE Exhausted \/ Full
  <2>1. max_rec \in Requests
    BY <1>1 DEF Exhausted, Full, FetchIInv, LoopInv
  <2> QED BY <1>1, <2>1, ReturnTakesShare DEF Cursor!Next
<1>2. CASE Deliver
  <2>1. Given' = Given \cup RowsOf(output)
    BY <1>2, DeliverStep
  <2>2. Cursor!Give
    BY <1>2, <2>1 DEF Deliver, Given, Cursor!Give, resultVars
  <2> QED BY <2>2 DEF Cursor!Next
<1>3. CASE ConversionFails
  <2>1. Cursor!Drop
    BY <1>3 DEF ConversionFails, Cursor!Drop, resultVars
  <2> QED BY <2>1 DEF Cursor!Next
<1>4. ASSUME (\E n \in Requests : Start(n)) \/ Grow \/ GrowFails \/ CopyRow
      PROVE  UNCHANGED Cursor!cursorVars
  BY <1>4 DEF Start, Grow, GrowFails, CopyRow, resultVars, historyVars, Cursor!cursorVars
<1>5. ASSUME UNCHANGED fetchVars  PROVE UNCHANGED Cursor!cursorVars
  BY <1>5 DEF fetchVars, resultVars, loopVars, historyVars, Cursor!cursorVars, RowsOf
<1> QED BY <1>1, <1>2, <1>3, <1>4, <1>5 DEF FetchNext, CallStep

\* The loop implements the cursor: each call gives exactly the share of rows it
\* asked for, whatever the default, the doublings and the failures in between.
THEOREM LoopImplementsCursor == FetchSpec => ImplementsCursor
<1>1. FetchInit => Cursor!Init
  BY CursorInit
<1>2. FetchIInv /\ [FetchNext]_fetchVars => [Cursor!Next]_Cursor!cursorVars
  BY CursorNext
<1> QED BY <1>1, <1>2, FetchIInvHolds, PTL DEF FetchSpec, Cursor!Spec, ImplementsCursor
=============================================================================

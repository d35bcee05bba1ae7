---------------------------- MODULE ProtocolProofs ----------------------------
(***************************************************************************)
(* Theorems about Protocol: every result handed out is the right answer to *)
(* its statement, and the data of a copy arrives whole and in order, for   *)
(* all programs of queries and the answers of a server to them, however    *)
(* the messages are cut and whatever fails.                                *)
(***************************************************************************)
EXTENDS Protocol, FiniteSetTheorems, WellFoundedInduction, TLAPS

-----------------------------------------------------------------------------
(* Types. *)

AsyncStates == CopyStates \union {"IDLE", "BUSY", "READY"}
Connections ==
  [pversion : {2, 3}, async : AsyncStates, class : Classes(3), single : BOOLEAN,
   result : Results \union {NULL}, next_result : Results \union {NULL}, ok : BOOLEAN,
   copy_already_done : Nat, notifies : Nat]
FunctionPcs == {"function", "functionWait"}
Pcs == {"user", "parse", "poll", "parsed", "wait"} \union FunctionPcs

\* The answer to the query sent last.
Ms == IF sent = 0 THEN <<>> ELSE program[sent].messages

TypeOK ==
  /\ c \in Connections /\ program \in Programs[c.pversion]
  /\ sent \in 0..Len(program) /\ place \in 0..Len(Ms)
  /\ in \in Seq(Messages) /\ script \in Seq(Messages) /\ half \in BOOLEAN
  /\ pc \in Pcs /\ alive \in BOOLEAN
  /\ delivered \in Seq(Results) /\ hurt \in SUBSET Nat /\ copied \in SUBSET Nat
  /\ DOMAIN got = DOMAIN program
  /\ \A i \in DOMAIN program : got[i] \in [DOMAIN program[i].messages -> Nat]

-----------------------------------------------------------------------------
(* The stream of messages that come. *)

Stream == in \o script

\* What is to come of an answer after a place: messages sent unasked, and
\* those of the answer in their order, with nothing left out but the waits
\* of the server.
Fits(m, p, ms, v) ==
  m \in UnaskedMessages(v) \/ (m.at \in p + 1..Len(ms) /\ m = ms[m.at])
Gapless(st, p, ms, i) ==
  st[i].at # 0 => \A k \in p + 1..st[i].at - 1 : ms[k].id = "end" \/ \E j \in 1..i - 1 : st[j].at = k
Continues(st, p, ms, v) ==
  /\ \A i \in DOMAIN st : Fits(st[i], p, ms, v)
  /\ \A i, j \in DOMAIN st : i < j /\ st[i].at # 0 /\ st[j].at # 0 => st[i].at < st[j].at
  /\ \A i \in DOMAIN st : Gapless(st, p, ms, i)

\* While the server lives, all of the answer is to come.
Complete(st, p, ms) ==
  \A k \in p + 1..Len(ms) : ms[k].id = "end" \/ \E j \in DOMAIN st : st[j].at = k

\* The lines of protocol 2.0 are not interrupted.
LineIds == {"line", "."}
Unbroken(st, p, ms) ==
  /\ \A i \in DOMAIN st : InLines(st[i]) /\ i + 1 \in DOMAIN st => st[i + 1].id \in LineIds
  /\ p > 0 /\ InLines(ms[p]) /\ st # <<>> => st[1].id \in LineIds

StreamInv ==
  /\ Continues(Stream, place, Ms, c.pversion)
  /\ alive => Complete(Stream, place, Ms)
  /\ c.pversion = 2 => Unbroken(Stream, place, Ms)
  /\ \A i \in DOMAIN in : in[i].id # "end"
  /\ half => script # <<>> /\ Head(script).id # "end"

-----------------------------------------------------------------------------
(* The connection. *)

Is(r, status) == r # NULL /\ r.status = status

\* A row of single-row mode waits for the caller.
RowWaits == Is(c.result, "SINGLE_TUPLE")
Filling == IF RowWaits THEN c.next_result ELSE c.result

ConnInv ==
  /\ RowWaits => c.async = "READY" /\ Is(c.next_result, "TUPLES_OK")
                 /\ c.next_result.stmt = c.result.stmt
  /\ ~RowWaits => c.next_result = NULL
  /\ c.async # "IDLE" /\ c.ok =>
       sent > 0 /\ c.class = program[sent].class /\ c.single = program[sent].single
       /\ c.class # "FUNCTION"
  /\ c.async = "IDLE" /\ c.ok /\ pc \notin FunctionPcs => place = Len(Ms)
  /\ ~c.ok => in = <<>> \/ (c.async = "IDLE" /\ c.result = NULL)
  /\ pc \in FunctionPcs =>
       /\ c.async = "IDLE" /\ c.ok /\ sent > 0 /\ program[sent].class = "FUNCTION"
       /\ c.result # NULL => c.result.status \in {"COMMAND_OK", "FATAL_ERROR"}
  /\ c.pversion = 2 => /\ c.async # "COPY_BOTH"
                       /\ c.async \notin {"IDLE", "READY"} => c.result = NULL \/ Is(c.result, "TUPLES_OK")

-----------------------------------------------------------------------------
(* Results and their rows. *)

SingleRowsOf(s) == SingleRows(Len(delivered) + 1, s)

\* The result that is filled has the rows of its statement that were treated.
Filled(r, t, w) ==
  /\ Describes(Ms[t], r.stmt) /\ \A k \in t + 1..place : Ms[k].id # "T"
  /\ RowPlaces(Ms, r.stmt) \intersect 1..place = t + 1..t + w
  /\ IF program[sent].single
       THEN /\ r.rows = <<>>
            /\ IF RowWaits THEN c.result.rows = <<w>> /\ w > 0 /\ SingleRowsOf(r.stmt) = 1..w - 1
               ELSE SingleRowsOf(r.stmt) = 1..w
       ELSE r.rows = [k \in 1..w |-> k] /\ ~RowWaits
  /\ c.async = "READY" /\ ~RowWaits => RowPlaces(Ms, r.stmt) \subseteq 1..place

\* A statement of an earlier query, or one of which a row was treated.
Before(s) == \E i \in 1..sent - 1 : \E k \in DOMAIN program[i].messages : program[i].messages[k].stmt = s
RowSeen(s) == \E k \in 1..place : IsRow(Ms[k]) /\ Ms[k].stmt = s

RightAnswer(i) ==
  LET r == delivered[i]
      rows == RowsOf(r.stmt)
  IN  CASE r.status = "FATAL_ERROR" -> Troubled(r.stmt) \/ OutOfStep
        [] r.status = "SINGLE_TUPLE" ->
             \E k \in rows : r.rows = <<k>> /\ SingleRows(i, r.stmt) = 1..k - 1
        [] r.status = "TUPLES_OK" ->
             IF program[QueryOf(r.stmt)].single
               THEN r.rows = <<>> /\ SingleRows(i, r.stmt) = rows
               ELSE r.rows = [k \in rows |-> k]
        [] OTHER -> r.rows = <<>>

\* It is part of the invariant that its rows are the next ones to come.
FillInv ==
  Is(Filling, "TUPLES_OK") =>
    /\ sent > 0 /\ program[sent].class # "DESCRIBE"
    /\ \E t \in 1..place : \E w \in 0..Len(Ms) : Filled(Filling, t, w)
NextRowInv ==
  c.ok /\ ~OutOfStep /\ place < Len(Ms) /\ IsRow(Ms[place + 1]) =>
    /\ Is(Filling, "TUPLES_OK") \/ Is(Filling, "FATAL_ERROR")
    /\ c.async = "BUSY" \/ RowWaits
ErrorInv == Is(c.result, "FATAL_ERROR") => Troubled(c.result.stmt) \/ OutOfStep
BareInv ==
  c.result # NULL /\ c.result.status \notin {"FATAL_ERROR", "SINGLE_TUPLE", "TUPLES_OK"} =>
    c.result.rows = <<>>
SeenInv ==
  \A i \in DOMAIN delivered :
    delivered[i].status = "SINGLE_TUPLE" => Before(delivered[i].stmt) \/ RowSeen(delivered[i].stmt)
\* In the lines of protocol 2.0 the connection is in COPY OUT.
LinesInv ==
  c.pversion = 2 /\ c.ok /\ ~OutOfStep /\ place > 0 /\ InLines(Ms[place]) => c.async = "COPY_OUT"

RowsInv == FillInv /\ NextRowInv /\ ErrorInv /\ BareInv /\ SeenInv /\ LinesInv /\ RightAnswers

-----------------------------------------------------------------------------
(* Copies. *)

CopyOutStates == {"COPY_OUT", "COPY_BOTH"}
CopySeen(s) == \E h \in 1..place : StartsCopy(Ms[h]) /\ Ms[h].stmt = s

\* What was handed over of a message.
HandedNow(k) ==
  IF k <= place THEN Ms[k].n ELSE IF in # <<>> /\ Head(in).at = k THEN c.copy_already_done ELSE 0
CopiedFrom(h) ==
  /\ StartsCopy(Ms[h]) /\ Ms[h].stmt \notin copied
  /\ \A j \in h + 1..place : (IsData(Ms[j]) \/ Ms[j].id = "end") /\ Ms[j].stmt = Ms[h].stmt
  /\ \A k \in DOMAIN Ms : IsData(Ms[k]) /\ Ms[k].stmt = Ms[h].stmt => got[sent][k] = HandedNow(k)

CopyingInv ==
  /\ c.ok /\ c.async \in CopyOutStates => \E h \in 1..place : CopiedFrom(h)
  /\ c.pversion = 2 /\ c.ok /\ c.async = "COPY_OUT" => place > 0 /\ InLines(Ms[place])
\* A piece of a message was handed over.
PieceInv ==
  /\ c.copy_already_done > 0 /\ c.async \in CopyOutStates =>
       DataThere /\ c.copy_already_done < Head(in).n
  /\ c.pversion = 2 /\ c.ok /\ c.async # "COPY_OUT" => c.copy_already_done = 0
\* Nothing was handed over of what is still to come.
PendingInv ==
  /\ sent > 0 => \A k \in place + 1..Len(Ms) : got[sent][k] # 0 => in # <<>> /\ Head(in).at = k
  /\ \A i \in DOMAIN program : i > sent => \A k \in DOMAIN program[i].messages : got[i][k] = 0
ToldInv == \A s \in copied \ {0} : Before(s) \/ CopySeen(s)

CopyInv == CopyingInv /\ PieceInv /\ PendingInv /\ ToldInv /\ CopyDataWhole

IInv == TypeOK /\ StreamInv /\ ConnInv /\ RowsInv /\ CopyInv

-----------------------------------------------------------------------------
(* Answers. *)

Placed(ms) == ms \in Seq(Messages) /\ \A k \in DOMAIN ms : ms[k].at = k

LEMMA UnaskedFacts ==
  ASSUME NEW v \in {2, 3}, NEW m \in UnaskedMessages(v)
  PROVE  /\ m \in Messages /\ m.at = 0 /\ m.stmt = 0 /\ m.form = "ok" /\ m.id \in {"A", "N", "S"}
         /\ v = 2 => m.id # "S"
<1>1. PICK id \in UnaskedIds(v) : m = [id |-> id, stmt |-> 0, n |-> 0, form |-> "ok", at |-> 0]
  BY DEF UnaskedMessages
<1>2. id \in {"A", "N", "S"} /\ (v = 2 => id # "S")
  BY DEF UnaskedIds
<1>3. m.id = id /\ m.at = 0 /\ m.stmt = 0 /\ m.form = "ok"
  BY <1>1
<1>4. m \in Messages
  BY <1>1, <1>2 DEF Messages, Ids, UnaskedIds
<1> QED BY <1>2, <1>3, <1>4

\* The answer to the query sent last is one of the program.
LEMMA ProgramAnswered ==
  ASSUME TypeOK
  PROVE  Answered(c.pversion, program) /\ Len(program) \in Nat /\ c.pversion \in {2, 3}
<1>1. c.pversion \in {2, 3}
  BY DEF TypeOK, Connections
<1>2. Answered(c.pversion, program)
  BY <1>1, AnswersAssumption DEF TypeOK
<1> QED BY <1>1, <1>2 DEF Answered

LEMMA AnswerFacts ==
  ASSUME TypeOK, NEW i \in DOMAIN program
  PROVE  /\ Answers(c.pversion, program[i]) /\ Placed(program[i].messages)
         /\ program[i].class \in Classes(c.pversion) /\ program[i].single \in BOOLEAN
         /\ Len(program[i].messages) \in Nat \ {0}
<1>1. program \in Seq([class : Classes(c.pversion), single : BOOLEAN, messages : Seq(Messages)])
  BY ProgramAnswered DEF Answered
<1>2. Answers(c.pversion, program[i])
  BY ProgramAnswered DEF Answered
<1>3. program[i] \in [class : Classes(c.pversion), single : BOOLEAN, messages : Seq(Messages)]
  <2> DEFINE Q == [class : Classes(c.pversion), single : BOOLEAN, messages : Seq(Messages)]
  <2>1. program \in Seq(Q)
    BY <1>1
  <2> HIDE DEF Q
  <2>2. program[i] \in Q
    BY <2>1
  <2> QED BY <2>2 DEF Q
<1>4. program[i].messages # <<>> /\ Placed(program[i].messages)
  BY <1>2 DEF Answers, Placed
<1> QED BY <1>2, <1>3, <1>4

LEMMA MsFacts ==
  ASSUME TypeOK
  PROVE  /\ Placed(Ms) /\ Len(Ms) \in Nat /\ sent \in Nat /\ place \in Nat
         /\ sent > 0 => /\ sent \in DOMAIN program /\ Ms = program[sent].messages
                        /\ Answers(c.pversion, program[sent])
         /\ place > 0 => sent > 0
<1>1. sent \in Nat /\ Len(program) \in Nat /\ sent <= Len(program)
  BY ProgramAnswered DEF TypeOK
<1>2. CASE sent = 0
  <2>1. Ms = <<>>
    BY <1>2 DEF Ms
  <2> QED BY <1>2, <2>1 DEF Placed, TypeOK
<1>3. CASE sent > 0
  <2>1. sent \in DOMAIN program
    BY <1>1, <1>3, ProgramAnswered DEF Answered
  <2>2. Ms = program[sent].messages
    BY <1>3 DEF Ms
  <2> QED BY <1>1, <1>3, <2>1, <2>2, AnswerFacts DEF TypeOK
<1> QED BY <1>1, <1>2, <1>3

-----------------------------------------------------------------------------
(* The stream. *)

\* t is what comes behind the first n messages of st, and q the place then.
Behind(t, st, n) ==
  /\ t \in Seq(Messages) /\ n \in 0..Len(st) /\ Len(t) = Len(st) - n
  /\ \A i \in 1..Len(t) : t[i] = st[i + n]
Reaches(q, p, st, n) ==
  /\ q \in Nat /\ p <= q /\ \A i \in 1..n : st[i].at <= q
  /\ q = p \/ \E i \in 1..n : st[i].at = q

\* When its first messages are gone, the stream goes on behind them.
LEMMA BehindContinues ==
  ASSUME NEW v \in {2, 3}, NEW ms, Placed(ms), NEW p \in Nat, NEW q,
         NEW st \in Seq(Messages), NEW t, NEW n, Behind(t, st, n), Reaches(q, p, st, n),
         Continues(st, p, ms, v)
  PROVE  Continues(t, q, ms, v)
<1>0. n \in Nat /\ t \in Seq(Messages) /\ q \in Nat /\ p <= q
  BY DEF Behind, Reaches
<1>d. /\ DOMAIN t = 1..Len(t) /\ DOMAIN st = 1..Len(st) /\ Len(st) \in Nat /\ Len(t) = Len(st) - n
      /\ n <= Len(st) /\ \A i \in 1..Len(t) : t[i] = st[i + n]
  BY DEF Behind
<1>1. \A i \in DOMAIN t : i + n \in DOMAIN st /\ t[i] = st[i + n] /\ i \in Nat /\ i >= 1
  BY <1>0, <1>d
<1>2. ASSUME NEW i \in DOMAIN t PROVE Fits(t[i], q, ms, v)
  <2>1. Fits(st[i + n], p, ms, v) /\ i + n \in DOMAIN st
    BY <1>1 DEF Continues
  <2>2. CASE st[i + n] \in UnaskedMessages(v)
    BY <1>1, <2>2 DEF Fits
  <2>3. CASE st[i + n].at \in p + 1..Len(ms) /\ st[i + n] = ms[st[i + n].at]
    <3>1. st[i + n].at > q
      <4>1. CASE q = p
        BY <1>0, <2>3, <4>1
      <4>2. CASE q # p
        <5>1. PICK j \in 1..n : st[j].at = q /\ q # p
          BY <4>2 DEF Reaches
        <5>2. j \in DOMAIN st /\ j < i + n
          BY <1>0, <1>1, <1>d
        <5>4. st[j].at # 0 /\ st[i + n].at # 0
          BY <1>0, <2>3, <5>1
        <5>3. st[j].at < st[i + n].at
          BY <2>1, <5>2, <5>4 DEF Continues
        <5> QED BY <5>1, <5>3
      <4> QED BY <4>1, <4>2
    <3> QED BY <1>0, <1>1, <2>3, <3>1 DEF Fits
  <2> QED BY <2>1, <2>2, <2>3 DEF Fits
<1>3. ASSUME NEW i \in DOMAIN t, NEW j \in DOMAIN t, i < j, t[i].at # 0, t[j].at # 0
      PROVE  t[i].at < t[j].at
  <2>1. i + n \in DOMAIN st /\ j + n \in DOMAIN st /\ i + n < j + n
    BY <1>0, <1>1, <1>3
  <2> QED BY <1>1, <1>3, <2>1 DEF Continues
<1>5. ASSUME NEW i \in DOMAIN t, t[i].at # 0, NEW k \in q + 1..t[i].at - 1
      PROVE  ms[k].id = "end" \/ \E j \in 1..i - 1 : t[j].at = k
  <2>1. i + n \in DOMAIN st /\ st[i + n].at = t[i].at /\ k \in p + 1..st[i + n].at - 1
    <3>1. t[i].at \in Nat
      <4>1. t[i] \in Messages
        BY <1>0
      <4> QED BY <4>1 DEF Messages
    <3> QED
      <4>1. k \in p + 1..t[i].at - 1
        BY <1>0, <3>1
      <4> QED BY <1>1, <4>1
  <2>2. CASE ms[k].id = "end"
    BY <2>2
  <2>3. CASE \E j \in 1..(i + n) - 1 : st[j].at = k
    <3>1. PICK j \in 1..(i + n) - 1 : st[j].at = k
      BY <2>3
    <3>2. ~(j <= n)
      <4>1. j \in 1..n => st[j].at <= q
        BY DEF Reaches
      <4> QED BY <1>0, <1>5, <3>1, <4>1
    <3>3. j - n \in 1..i - 1 /\ j - n \in DOMAIN t /\ (j - n) + n = j
      BY <1>0, <3>1, <3>2
    <3>4. t[j - n].at = k
      BY <1>1, <3>1, <3>3
    <3> QED BY <3>3, <3>4
  <2>4. st[i + n].at # 0
    BY <1>5, <2>1
  <2>5. ms[k].id = "end" \/ \E j \in 1..(i + n) - 1 : st[j].at = k
    <3>1. Gapless(st, p, ms, i + n)
      BY <2>1 DEF Continues
    <3>2. \A l \in p + 1..st[i + n].at - 1 : ms[l].id = "end" \/ \E j \in 1..(i + n) - 1 : st[j].at = l
      BY <2>4, <3>1 DEF Gapless
    <3> QED BY <2>1, <3>2
  <2> QED BY <2>2, <2>3, <2>5
<1>4. \A i \in DOMAIN t : Gapless(t, q, ms, i)
  BY <1>5 DEF Gapless
<1> QED BY <1>0, <1>2, <1>3, <1>4 DEF Continues

LEMMA BehindComplete ==
  ASSUME NEW ms, NEW p \in Nat, NEW q, Len(ms) \in Nat, NEW st \in Seq(Messages), NEW t, NEW n,
         Behind(t, st, n), Reaches(q, p, st, n), Complete(st, p, ms)
  PROVE  Complete(t, q, ms)
<1>1. n \in Nat /\ t \in Seq(Messages) /\ q \in Nat /\ p <= q
  BY DEF Behind, Reaches
<1> SUFFICES ASSUME NEW k \in q + 1..Len(ms), ms[k].id # "end" PROVE \E j \in DOMAIN t : t[j].at = k
  BY DEF Complete
<1>2. PICK j \in DOMAIN st : st[j].at = k
  <2>1. k \in p + 1..Len(ms)
    BY <1>1
  <2> QED BY <2>1 DEF Complete
<1>3. ~(j <= n)
  <2>1. j \in 1..n => st[j].at <= q
    BY DEF Reaches
  <2> QED BY <1>1, <1>2, <2>1
<1>4. j - n \in 1..Len(t) /\ (j - n) + n = j
  BY <1>1, <1>2, <1>3 DEF Behind
<1>5. t[j - n] = st[j]
  BY <1>4 DEF Behind
<1> QED BY <1>1, <1>2, <1>4, <1>5

\* What is at a place of the stream.
LEMMA StreamFacts ==
  ASSUME NEW v \in {2, 3}, NEW ms, NEW p \in Nat, Placed(ms), NEW st \in Seq(Messages),
         Continues(st, p, ms, v), NEW i \in DOMAIN st
  PROVE  /\ st[i] \in Messages /\ st[i].at \in Nat
         /\ st[i].at = 0 => st[i] \in UnaskedMessages(v) /\ st[i].stmt = 0 /\ st[i].id \in {"A", "N", "S"}
         /\ st[i].at # 0 => st[i].at > p /\ st[i].at <= Len(ms) /\ st[i] = ms[st[i].at]
         /\ \A j \in DOMAIN st : i < j /\ st[i].at # 0 /\ st[j].at # 0 => st[i].at < st[j].at
<1>1. st[i] \in Messages
  OBVIOUS
<1>2. st[i].at \in Nat
  BY <1>1 DEF Messages
<1>3. Fits(st[i], p, ms, v)
  BY DEF Continues
<1>4. \A j \in DOMAIN st : i < j /\ st[i].at # 0 /\ st[j].at # 0 => st[i].at < st[j].at
  BY DEF Continues
<1>5. CASE st[i] \in UnaskedMessages(v)
  BY <1>1, <1>2, <1>4, <1>5, UnaskedFacts
<1>6. CASE st[i].at \in p + 1..Len(ms) /\ st[i] = ms[st[i].at]
  BY <1>1, <1>2, <1>4, <1>6 DEF Placed
<1> QED BY <1>3, <1>5, <1>6 DEF Fits

LEMMA BehindUnbroken ==
  ASSUME NEW ms, NEW p \in Nat, NEW q, Len(ms) \in Nat, Placed(ms),
         NEW v \in {2, 3}, NEW st \in Seq(Messages), NEW t, NEW n,
         Behind(t, st, n), Reaches(q, p, st, n),
         Continues(st, p, ms, v), Unbroken(st, p, ms)
  PROVE  Unbroken(t, q, ms)
<1>0. /\ n \in Nat /\ t \in Seq(Messages) /\ q \in Nat /\ p <= q /\ n <= Len(st)
      /\ Len(t) = Len(st) - n
      /\ n = 0 => q = p
      /\ Len(st) \in Nat /\ Len(t) \in Nat /\ DOMAIN t = 1..Len(t) /\ DOMAIN st = 1..Len(st)
      /\ \A i \in 1..n : st[i].at <= q
  BY DEF Behind, Reaches
<1>1. ASSUME NEW i \in DOMAIN t, InLines(t[i]), i + 1 \in DOMAIN t
      PROVE  t[i + 1].id \in LineIds
  <2>1. i \in 1..Len(t) /\ i + 1 \in 1..Len(t) /\ (i + 1) + n = (i + n) + 1
    BY <1>0, <1>1
  <2>2. i + n \in DOMAIN st /\ (i + n) + 1 \in DOMAIN st
    BY <1>0, <2>1
  <2>3. t[i] = st[i + n] /\ t[i + 1] = st[(i + n) + 1]
    BY <2>1 DEF Behind
  <2> QED BY <1>1, <2>2, <2>3 DEF Unbroken
\* The last of those that are gone is the one at q, or none has a place.
<1>2. ASSUME q > 0, InLines(ms[q]), t # <<>> PROVE t[1].id \in LineIds
  <2>1. 1 \in DOMAIN t /\ t[1] = st[n + 1] /\ n + 1 \in DOMAIN st
    <3>1. 1 \in 1..Len(t) /\ 1 + n = n + 1
      BY <1>0, <1>2
    <3> QED BY <1>0, <3>1 DEF Behind
  <2>2. CASE n = 0
    <3>1. p > 0 /\ InLines(ms[p]) /\ st # <<>>
      BY <1>0, <1>2, <2>1, <2>2
    <3> QED BY <2>1, <2>2, <3>1 DEF Unbroken
  <2>3. CASE n > 0 /\ InLines(st[n])
    <3>1. n \in DOMAIN st
      BY <1>0, <2>3
    <3> QED BY <2>1, <2>3, <3>1 DEF Unbroken
  <2>4. CASE n > 0 /\ ~InLines(st[n])
    <3>1. CASE q = p
      <4>1. 1 \in DOMAIN st /\ 1 \in 1..n /\ st # <<>> /\ p > 0 /\ InLines(ms[p])
        BY <1>0, <1>2, <2>4, <3>1
      <4>2. st[1].id \in LineIds /\ st[1].at <= p
        BY <1>0, <3>1, <4>1 DEF Unbroken
      <4> QED BY <4>1, <4>2, StreamFacts DEF LineIds
    \* It would be followed by a line, and that has a place behind it.
    <3>2. CASE q # p
      <4>1. PICK i \in 1..n : st[i].at = q
        BY <3>2 DEF Reaches
      <4>2. i \in DOMAIN st
        BY <1>0, <4>1
      <4>3. st[i] = ms[q]
        BY <1>2, <4>1, <4>2, StreamFacts
      <4>4. i < n /\ i + 1 \in DOMAIN st /\ i + 1 \in 1..n
        BY <1>0, <1>2, <2>4, <4>1, <4>3
      <4>5. st[i + 1].id \in LineIds
        BY <1>2, <4>2, <4>3, <4>4 DEF Unbroken
      <4>6. st[i + 1].at # 0 /\ st[i + 1].at \in Nat
        <5>1. st[i + 1].id \notin {"A", "N", "S"}
          BY <4>5 DEF LineIds
        <5>2. /\ st[i + 1].at = 0 => st[i + 1].id \in {"A", "N", "S"}
              /\ st[i + 1].at \in Nat
          BY <4>4, StreamFacts
        <5> QED BY <5>1, <5>2
      <4>7. i < i + 1
        BY <4>1
      <4>8. st[i].at < st[i + 1].at
        BY <1>2, <4>1, <4>2, <4>4, <4>6, <4>7, StreamFacts
      <4>9. st[i + 1].at <= q
        BY <1>0, <4>4
      <4> QED BY <1>0, <4>1, <4>6, <4>8, <4>9
    <3> QED BY <3>1, <3>2
  <2> QED BY <1>0, <2>2, <2>3, <2>4
<1> QED BY <1>0, <1>1, <1>2 DEF Unbroken

\* A message that the server sends unasked comes in between.
Inserted(t, st, e, v) ==
  /\ t \in Seq(Messages) /\ e \in 1..Len(st) + 1 /\ Len(t) = Len(st) + 1
  /\ t[e] \in UnaskedMessages(v)
  /\ \A i \in 1..Len(st) : IF i < e THEN t[i] = st[i] ELSE t[i + 1] = st[i]

LEMMA InsertedPlaces ==
  ASSUME NEW st \in Seq(Messages), NEW t, NEW v, NEW e, Inserted(t, st, e, v)
  PROVE  \A i \in DOMAIN t :
           /\ i \in Nat
           /\ i < e => i \in DOMAIN st /\ t[i] = st[i]
           /\ i > e => i - 1 \in DOMAIN st /\ t[i] = st[i - 1]
<1>1. /\ t \in Seq(Messages) /\ e \in 1..Len(st) + 1 /\ Len(t) = Len(st) + 1 /\ Len(st) \in Nat
      /\ \A i \in 1..Len(st) : IF i < e THEN t[i] = st[i] ELSE t[i + 1] = st[i]
  BY DEF Inserted
<1> SUFFICES ASSUME NEW i \in DOMAIN t
             PROVE  /\ i \in Nat
                    /\ i < e => i \in DOMAIN st /\ t[i] = st[i]
                    /\ i > e => i - 1 \in DOMAIN st /\ t[i] = st[i - 1]
  OBVIOUS
<1>2. i \in 1..Len(st) + 1
  BY <1>1
<1>3. ASSUME i < e PROVE i \in DOMAIN st /\ t[i] = st[i]
  BY <1>1, <1>2, <1>3
<1>4. ASSUME i > e PROVE i - 1 \in DOMAIN st /\ t[i] = st[i - 1]
  <2>1. i - 1 \in 1..Len(st) /\ ~(i - 1 < e) /\ (i - 1) + 1 = i
    BY <1>1, <1>2, <1>4
  <2> QED BY <1>1, <2>1
<1> QED BY <1>2, <1>3, <1>4

LEMMA InsertedContinues ==
  ASSUME NEW v \in {2, 3}, NEW ms, Placed(ms), NEW p \in Nat, NEW st \in Seq(Messages),
         NEW t, NEW e, Inserted(t, st, e, v), Continues(st, p, ms, v)
  PROVE  Continues(t, p, ms, v) /\ (Complete(st, p, ms) => Complete(t, p, ms))
<1>0. t \in Seq(Messages) /\ e \in Nat /\ e >= 1 /\ Len(t) = Len(st) + 1 /\ Len(st) \in Nat
      /\ t[e] \in UnaskedMessages(v) /\ t[e].at = 0
  <2>1. t[e] \in UnaskedMessages(v)
    BY DEF Inserted
  <2> QED BY <2>1, UnaskedFacts DEF Inserted
<1>p. \A i \in DOMAIN t :
           /\ i \in Nat
           /\ i < e => i \in DOMAIN st /\ t[i] = st[i]
           /\ i > e => i - 1 \in DOMAIN st /\ t[i] = st[i - 1]
  BY InsertedPlaces
<1>1. ASSUME NEW i \in DOMAIN t PROVE Fits(t[i], p, ms, v)
  <2>1. CASE i = e
    BY <1>0, <2>1 DEF Fits
  <2>2. CASE i # e
    BY <1>0, <1>p, <2>2 DEF Continues
  <2> QED BY <2>1, <2>2
<1>2. ASSUME NEW i \in DOMAIN t, NEW j \in DOMAIN t, i < j, t[i].at # 0, t[j].at # 0
      PROVE  t[i].at < t[j].at
  <2> DEFINE Old(h) == IF h < e THEN h ELSE h - 1
  <2>3. ASSUME NEW h \in DOMAIN t, t[h].at # 0
        PROVE  h \in Nat /\ Old(h) \in DOMAIN st /\ t[h] = st[Old(h)] /\ h # e
    <3>1. h \in Nat /\ h # e
      BY <1>0, <1>p, <2>3
    <3>2. CASE h < e
      BY <1>p, <3>1, <3>2
    <3>3. CASE h > e
      <4>1. ~(h < e)
        BY <1>0, <3>1, <3>3
      <4> QED BY <1>p, <3>1, <3>3, <4>1
    <3> QED BY <1>0, <3>1, <3>2, <3>3
  <2>1. /\ i \in Nat /\ Old(i) \in DOMAIN st /\ t[i] = st[Old(i)] /\ i # e
        /\ j \in Nat /\ Old(j) \in DOMAIN st /\ t[j] = st[Old(j)] /\ j # e
    <3> HIDE DEF Old
    <3> QED BY <1>2, <2>3
  <2>2. Old(i) < Old(j)
    BY <1>0, <1>2, <2>1
  <2> HIDE DEF Old
  <2> QED BY <1>2, <2>1, <2>2, StreamFacts
<1>3. ASSUME NEW i \in DOMAIN t PROVE Gapless(t, p, ms, i)
  <2> SUFFICES ASSUME t[i].at # 0, NEW k \in p + 1..t[i].at - 1, ms[k].id # "end"
               PROVE  \E j \in 1..i - 1 : t[j].at = k
    BY DEF Gapless
  <2> DEFINE h == IF i < e THEN i ELSE i - 1
  <2>1. h \in DOMAIN st /\ t[i] = st[h] /\ i # e /\ i \in Nat
    <3>1. i \in Nat /\ i # e
      BY <1>0, <1>p
    <3>2. CASE i < e
      BY <1>p, <3>1, <3>2
    <3>3. CASE i > e
      <4>1. ~(i < e)
        BY <1>0, <3>1, <3>3
      <4> QED BY <1>p, <3>1, <3>3, <4>1
    <3> QED BY <1>0, <3>1, <3>2, <3>3
  <2>2. Gapless(st, p, ms, h)
    BY <2>1 DEF Continues
  <2>3. PICK j \in 1..h - 1 : st[j].at = k
    BY <2>1, <2>2 DEF Gapless
  <2>4. j \in 1..Len(st) /\ (IF j < e THEN t[j] = st[j] ELSE t[j + 1] = st[j])
    BY <2>1, <2>3 DEF Inserted
  <2>5. CASE j < e
    <3>1. j \in 1..i - 1
      BY <1>0, <2>1, <2>3
    <3> QED BY <2>3, <2>4, <2>5, <3>1
  <2>6. CASE ~(j < e)
    <3>1. j + 1 \in 1..i - 1
      BY <1>0, <2>1, <2>3, <2>6
    <3> QED BY <2>3, <2>4, <2>6, <3>1
  <2> QED BY <2>5, <2>6
<1>4. ASSUME Complete(st, p, ms) PROVE Complete(t, p, ms)
  <2> SUFFICES ASSUME NEW k \in p + 1..Len(ms), ms[k].id # "end" PROVE \E j \in DOMAIN t : t[j].at = k
    BY DEF Complete
  <2>1. PICK j \in DOMAIN st : st[j].at = k
    BY <1>4 DEF Complete
  <2>2. j \in 1..Len(st) /\ j \in DOMAIN t /\ j + 1 \in DOMAIN t
    BY <1>0, <2>1
  <2>3. t[j] = st[j] \/ t[j + 1] = st[j]
    BY <2>2 DEF Inserted
  <2> QED BY <2>1, <2>2, <2>3
<1> QED BY <1>0, <1>1, <1>2, <1>3, <1>4 DEF Continues

LEMMA InsertedUnbroken ==
  ASSUME NEW v \in {2, 3}, NEW ms, NEW p \in Nat, NEW st \in Seq(Messages),
         NEW t, NEW e, Inserted(t, st, e, v), Unbroken(st, p, ms),
         e > 1 => ~InLines(st[e - 1]), e = 1 => ~(p > 0 /\ InLines(ms[p]))
  PROVE  Unbroken(t, p, ms)
<1>0. t \in Seq(Messages) /\ e \in Nat /\ e >= 1 /\ e \in DOMAIN t /\ Len(t) = Len(st) + 1 /\ Len(st) \in Nat
  BY DEF Inserted
<1>p. \A i \in DOMAIN t :
           /\ i \in Nat
           /\ i < e => i \in DOMAIN st /\ t[i] = st[i]
           /\ i > e => i - 1 \in DOMAIN st /\ t[i] = st[i - 1]
  BY InsertedPlaces
<1>1. ASSUME NEW i \in DOMAIN t, InLines(t[i]), i + 1 \in DOMAIN t
      PROVE  t[i + 1].id \in LineIds
  <2>1. CASE i = e
    <3>1. t[i] \in UnaskedMessages(v)
      BY <2>1 DEF Inserted
    <3> QED BY <1>1, <3>1, UnaskedFacts DEF InLines
  <2>2. CASE i + 1 = e
    <3>1. e > 1 /\ t[i] = st[e - 1]
      BY <1>0, <2>2, <1>p
    <3> QED BY <1>1, <3>1
  <2>3. CASE i + 1 < e
    <3>1. t[i] = st[i] /\ t[i + 1] = st[i + 1] /\ i \in DOMAIN st /\ i + 1 \in DOMAIN st
      BY <1>0, <1>1, <2>3, <1>p
    <3> QED BY <1>1, <3>1 DEF Unbroken
  <2>4. CASE i > e
    <3>1. /\ t[i] = st[i - 1] /\ t[i + 1] = st[(i + 1) - 1] /\ i - 1 \in DOMAIN st
          /\ (i + 1) - 1 \in DOMAIN st /\ (i + 1) - 1 = (i - 1) + 1
      BY <1>0, <1>1, <2>4, <1>p
    <3> QED BY <1>1, <3>1 DEF Unbroken
  <2> QED BY <1>0, <1>1, <2>1, <2>2, <2>3, <2>4
<1>2. ASSUME p > 0, InLines(ms[p]) PROVE t[1].id \in LineIds
  <2>1. e > 1 /\ 1 \in DOMAIN t
    BY <1>0, <1>2
  <2>2. t[1] = st[1] /\ st # <<>>
    BY <1>0, <2>1, <1>p
  <2> QED BY <1>2, <2>2 DEF Unbroken
<1> QED BY <1>1, <1>2 DEF Unbroken

\* The server waits no longer.
Removed(t, st, e) ==
  /\ t \in Seq(Messages) /\ e \in DOMAIN st /\ st[e].id = "end" /\ Len(t) = Len(st) - 1
  /\ \A i \in 1..Len(t) : t[i] = IF i < e THEN st[i] ELSE st[i + 1]

LEMMA RemovedContinues ==
  ASSUME NEW v \in {2, 3}, NEW ms, Placed(ms), NEW p \in Nat, NEW st \in Seq(Messages),
         NEW t, NEW e, Removed(t, st, e), Continues(st, p, ms, v)
  PROVE  /\ Continues(t, p, ms, v)
         /\ Complete(st, p, ms) => Complete(t, p, ms)
         /\ Unbroken(st, p, ms) => Unbroken(t, p, ms)
<1> DEFINE Old(h) == IF h < e THEN h ELSE h + 1
<1>0. /\ t \in Seq(Messages) /\ e \in Nat /\ e >= 1 /\ e <= Len(st) /\ Len(t) = Len(st) - 1
      /\ Len(st) \in Nat /\ e \in DOMAIN st /\ st[e].id = "end"
  BY DEF Removed
<1>1. \A i \in DOMAIN t : Old(i) \in DOMAIN st /\ t[i] = st[Old(i)] /\ Old(i) # e /\ i \in Nat /\ Old(i) \in Nat
  BY <1>0 DEF Removed
<1>2. \A i, j \in DOMAIN t : i < j => Old(i) < Old(j)
  BY <1>0
\* Each other message of the stream is there.
<1>3. \A j \in DOMAIN st : j # e => \E i \in DOMAIN t : Old(i) = j
  <2> SUFFICES ASSUME NEW j \in DOMAIN st, j # e PROVE \E i \in DOMAIN t : Old(i) = j
    OBVIOUS
  <2>1. CASE j < e
    BY <1>0, <2>1
  <2>2. CASE j > e
    <3>1. j - 1 \in DOMAIN t /\ Old(j - 1) = j
      BY <1>0, <2>2
    <3> QED BY <3>1
  <2> QED BY <1>0, <2>1, <2>2
<1>4. \A i, j \in DOMAIN t : Old(i) < Old(j) => i < j
  BY <1>0
<1>5. st[e].at # 0 /\ ms[st[e].at].id = "end"
  <2>1. /\ st[e].at = 0 => st[e].id \in {"A", "N", "S"}
        /\ st[e].at # 0 => st[e] = ms[st[e].at]
    <3> HIDE DEF Old
    <3> QED BY <1>0, StreamFacts
  <2> QED BY <1>0, <2>1
<1> HIDE DEF Old
<1>6. ASSUME NEW i \in DOMAIN t PROVE Fits(t[i], p, ms, v)
  BY <1>1 DEF Continues
<1>7. ASSUME NEW i \in DOMAIN t, NEW j \in DOMAIN t, i < j, t[i].at # 0, t[j].at # 0
      PROVE  t[i].at < t[j].at
  BY <1>1, <1>2, <1>7, StreamFacts
<1>8. ASSUME NEW i \in DOMAIN t PROVE Gapless(t, p, ms, i)
  <2> SUFFICES ASSUME t[i].at # 0, NEW k \in p + 1..t[i].at - 1, ms[k].id # "end"
               PROVE  \E j \in 1..i - 1 : t[j].at = k
    BY DEF Gapless
  <2>1. Old(i) \in DOMAIN st /\ t[i] = st[Old(i)] /\ i \in Nat
    BY <1>1
  <2>2. Gapless(st, p, ms, Old(i))
    BY <2>1 DEF Continues
  <2>3. PICK j \in 1..Old(i) - 1 : st[j].at = k
    BY <2>1, <2>2 DEF Gapless
  <2>4. j \in DOMAIN st /\ j # e /\ j < Old(i)
    BY <1>0, <1>1, <1>5, <2>1, <2>3
  <2>5. PICK h \in DOMAIN t : Old(h) = j
    BY <1>3, <2>4
  <2>6. h < i /\ t[h].at = k
    BY <1>1, <1>4, <2>3, <2>4, <2>5
  <2>7. h \in 1..i - 1
    BY <1>0, <2>1, <2>5, <2>6
  <2> QED BY <2>6, <2>7
<1>9. ASSUME Complete(st, p, ms) PROVE Complete(t, p, ms)
  <2> SUFFICES ASSUME NEW k \in p + 1..Len(ms), ms[k].id # "end" PROVE \E j \in DOMAIN t : t[j].at = k
    BY DEF Complete
  <2>1. PICK j \in DOMAIN st : st[j].at = k
    BY <1>9 DEF Complete
  <2>2. PICK h \in DOMAIN t : Old(h) = j
    BY <1>3, <1>5, <2>1
  <2> QED BY <1>1, <2>1, <2>2
<1>10. ASSUME Unbroken(st, p, ms) PROVE Unbroken(t, p, ms)
  <2>1. ASSUME NEW i \in DOMAIN t, InLines(t[i]), i + 1 \in DOMAIN t
        PROVE  t[i + 1].id \in LineIds
    <3>1. Old(i) + 1 \in DOMAIN st
      BY <1>0, <1>1, <2>1 DEF Old
    <3>2. st[Old(i) + 1].id \in LineIds
      BY <1>1, <1>10, <2>1, <3>1 DEF Unbroken
    <3>3. Old(i) + 1 # e
      BY <1>0, <3>2 DEF LineIds
    <3>4. Old(i + 1) = Old(i) + 1
      BY <1>0, <1>1, <2>1, <3>3 DEF Old
    <3> QED BY <1>1, <2>1, <3>2, <3>4
  <2>2. ASSUME p > 0, InLines(ms[p]), t # <<>> PROVE t[1].id \in LineIds
    <3>1. st # <<>> /\ 1 \in DOMAIN t
      BY <1>0, <2>2
    <3>2. st[1].id \in LineIds
      BY <1>10, <2>2, <3>1 DEF Unbroken
    <3>3. e # 1
      BY <1>0, <3>2 DEF LineIds
    <3>4. Old(1) = 1
      BY <1>0, <3>3 DEF Old
    <3> QED BY <1>1, <3>1, <3>2, <3>4
  <2> QED BY <2>1, <2>2 DEF Unbroken
<1> QED BY <1>0, <1>6, <1>7, <1>8, <1>9, <1>10 DEF Continues

\* The server dies on the way.
CutShort(t, st) ==
  t \in Seq(Messages) /\ Len(t) <= Len(st) /\ \A i \in 1..Len(t) : t[i] = st[i]

LEMMA CutShortContinues ==
  ASSUME NEW v \in {2, 3}, NEW ms, Placed(ms), NEW p \in Nat, NEW st \in Seq(Messages),
         NEW t, CutShort(t, st), Continues(st, p, ms, v)
  PROVE  Continues(t, p, ms, v) /\ (Unbroken(st, p, ms) => Unbroken(t, p, ms))
<1>1. t \in Seq(Messages) /\ Len(st) \in Nat /\ \A i \in DOMAIN t : i \in DOMAIN st /\ t[i] = st[i] /\ i \in Nat
  BY DEF CutShort
<1>2. ASSUME NEW i \in DOMAIN t PROVE Fits(t[i], p, ms, v)
  BY <1>1 DEF Continues
<1>3. ASSUME NEW i \in DOMAIN t, NEW j \in DOMAIN t, i < j, t[i].at # 0, t[j].at # 0
      PROVE  t[i].at < t[j].at
  BY <1>1, <1>3, StreamFacts
<1>4. ASSUME NEW i \in DOMAIN t PROVE Gapless(t, p, ms, i)
  <2>1. Gapless(st, p, ms, i) /\ t[i] = st[i]
    BY <1>1 DEF Continues
  <2>2. \A j \in 1..i - 1 : j \in DOMAIN t
    BY <1>1
  <2>3. \A j \in 1..i - 1 : t[j] = st[j]
    BY <1>1, <2>2
  <2> QED BY <2>1, <2>3 DEF Gapless
<1>5. ASSUME Unbroken(st, p, ms) PROVE Unbroken(t, p, ms)
  <2>1. t # <<>> => 1 \in DOMAIN t /\ st # <<>>
    BY <1>1
  <2> QED BY <1>1, <1>5, <2>1 DEF Unbroken
<1> QED BY <1>1, <1>2, <1>3, <1>4, <1>5 DEF Continues

\* Nothing but unasked messages is to come.
OnlyUnasked(st) == \A i \in DOMAIN st : st[i].at = 0

LEMMA OnlyUnaskedContinues ==
  ASSUME NEW v \in {2, 3}, NEW ms, Placed(ms), NEW p \in Nat, NEW st \in Seq(Messages),
         Continues(st, p, ms, v), OnlyUnasked(st), NEW new
  PROVE  Continues(st, 0, new, v) /\ Unbroken(st, 0, new)
<1>1. \A i \in DOMAIN st : st[i] \in UnaskedMessages(v) /\ st[i].at = 0 /\ ~InLines(st[i])
  BY StreamFacts DEF OnlyUnasked, InLines
<1> QED BY <1>1 DEF Continues, Unbroken, Fits, Gapless

\* The answer to a new query comes behind it.
LEMMA AnswerContinues ==
  ASSUME NEW v \in {2, 3}, NEW ms, Placed(ms), NEW p \in Nat, NEW st \in Seq(Messages),
         Continues(st, p, ms, v), OnlyUnasked(st),
         NEW new, Placed(new), v = 2 => LinesFollow(new)
  PROVE  /\ Continues(st \o new, 0, new, v) /\ Complete(st \o new, 0, new)
         /\ v = 2 => Unbroken(st \o new, 0, new)
<1> DEFINE t == st \o new
           n == Len(st)
<1>1. /\ t \in Seq(Messages) /\ n \in Nat /\ Len(new) \in Nat /\ Len(t) = n + Len(new)
      /\ DOMAIN new = 1..Len(new) /\ DOMAIN t = 1..Len(t) /\ DOMAIN st = 1..n
      /\ \A i \in 1..n : t[i] = st[i]
      /\ \A i \in 1..Len(new) : t[n + i] = new[i] /\ new[i].at = i
  BY DEF Placed
<1> HIDE DEF t, n
<1>2. \A i \in 1..n : st[i] \in UnaskedMessages(v) /\ st[i].at = 0 /\ ~InLines(st[i])
  <2> SUFFICES ASSUME NEW i \in DOMAIN st
               PROVE  st[i] \in UnaskedMessages(v) /\ st[i].at = 0 /\ ~InLines(st[i])
    BY <1>1
  <2>1. st[i].at = 0
    BY DEF OnlyUnasked
  <2>2. st[i] \in UnaskedMessages(v) /\ st[i].id \in {"A", "N", "S"}
    BY <2>1, StreamFacts
  <2> QED BY <2>1, <2>2 DEF InLines
<1>3. \A i \in DOMAIN t : IF i <= n THEN t[i] \in UnaskedMessages(v) /\ t[i].at = 0 /\ ~InLines(t[i])
                          ELSE i - n \in 1..Len(new) /\ t[i] = new[i - n] /\ t[i].at = i - n
  <2> SUFFICES ASSUME NEW i \in DOMAIN t
               PROVE  IF i <= n THEN t[i] \in UnaskedMessages(v) /\ t[i].at = 0 /\ ~InLines(t[i])
                      ELSE i - n \in 1..Len(new) /\ t[i] = new[i - n] /\ t[i].at = i - n
    OBVIOUS
  <2>1. CASE i <= n
    BY <1>1, <1>2, <2>1
  <2>2. CASE ~(i <= n)
    <3>1. i - n \in 1..Len(new) /\ n + (i - n) = i
      BY <1>1, <2>2
    <3> QED BY <1>1, <2>2, <3>1
  <2> QED BY <2>1, <2>2
<1>4. ASSUME NEW i \in DOMAIN t PROVE Fits(t[i], 0, new, v)
  BY <1>1, <1>3 DEF Fits
<1>5. ASSUME NEW i \in DOMAIN t, NEW j \in DOMAIN t, i < j, t[i].at # 0, t[j].at # 0
      PROVE  t[i].at < t[j].at
  BY <1>1, <1>3, <1>5
<1>6. ASSUME NEW i \in DOMAIN t PROVE Gapless(t, 0, new, i)
  <2> SUFFICES ASSUME t[i].at # 0, NEW k \in 0 + 1..t[i].at - 1 PROVE \E j \in 1..i - 1 : t[j].at = k
    BY DEF Gapless
  <2>1. ~(i <= n) /\ t[i].at = i - n /\ i \in Nat
    BY <1>1, <1>3
  <2>2. n + k \in 1..i - 1 /\ n + k \in DOMAIN t /\ ~(n + k <= n) /\ (n + k) - n = k
    BY <1>1, <2>1
  <2>3. t[n + k].at = k
    BY <1>3, <2>2
  <2> QED BY <2>2, <2>3
<1>7. Complete(t, 0, new)
  <2> SUFFICES ASSUME NEW k \in 0 + 1..Len(new) PROVE \E j \in DOMAIN t : t[j].at = k
    BY DEF Complete
  <2>1. n + k \in DOMAIN t /\ k \in 1..Len(new)
    BY <1>1
  <2> QED BY <1>1, <2>1
<1>8. ASSUME v = 2 PROVE Unbroken(t, 0, new)
  <2> SUFFICES ASSUME NEW i \in DOMAIN t, InLines(t[i]), i + 1 \in DOMAIN t PROVE t[i + 1].id \in LineIds
    BY DEF Unbroken
  <2>1. ~(i <= n) /\ ~(i + 1 <= n) /\ i - n \in DOMAIN new /\ t[i] = new[i - n]
    BY <1>1, <1>3
  <2>2. t[i + 1] = new[(i + 1) - n] /\ (i + 1) - n = (i - n) + 1
    BY <1>1, <1>3, <2>1
  <2>3. new[(i - n) + 1].id \in LineIds
    BY <1>8, <2>1 DEF LinesFollow, LineIds
  <2> QED BY <2>2, <2>3
<1> QED BY <1>1, <1>4, <1>5, <1>6, <1>7, <1>8 DEF Continues, t

-----------------------------------------------------------------------------
(* The place when messages are gone. *)

\* A non-empty set of natural numbers that has a bound has a greatest element.
LEMMA GreatestElement ==
  ASSUME NEW S \in SUBSET Nat, S # {}, NEW n \in Nat, \A m \in S : m <= n
  PROVE  Max(S) \in S /\ \A m \in S : m <= Max(S)
<1> DEFINE R == {ss \in Nat \X Nat : ss[1] < ss[2]}
           Below == {n - m : m \in S}
<1>1. OpToRel(<, Nat) = R
  BY DEF OpToRel
<1>2. IsWellFoundedOn(R, Nat)
  BY <1>1, NatLessThanWellFounded
<1>3. \A l, m \in Nat : l < m => <<l, m>> \in R
  OBVIOUS
<1> HIDE DEF R
<1>4. Below \in SUBSET Nat /\ Below # {}
  <2>1. \A m \in S : n - m \in Nat
    OBVIOUS
  <2>2. \E m \in S : n - m \in Below
    OBVIOUS
  <2> QED BY <2>1, <2>2
<1>5. PICK d \in Below : \A e \in Below : ~ (<<e, d>> \in R)
  BY <1>2, <1>4, WFMin
<1>6. PICK x \in S : d = n - x
  OBVIOUS
<1>7. \A m \in S : x >= m
  <2> SUFFICES ASSUME NEW m \in S PROVE x >= m
    OBVIOUS
  <2>1. n - m \in Below /\ n - m \in Nat /\ d \in Nat /\ m \in Nat /\ x \in Nat
    BY <1>4
  <2>2. ~(n - m < d)
    BY <1>3, <1>5, <2>1
  <2> QED BY <1>6, <2>1, <2>2
<1>8. \E y \in S : \A m \in S : y >= m
  BY <1>7
<1>9. Max(S) \in S /\ \A m \in S : Max(S) >= m
  BY <1>8 DEF Max
<1> QED BY <1>9

LEMMA PassedReaches ==
  ASSUME TypeOK, NEW ts \in Seq(Messages), \A i \in DOMAIN ts : ts[i].at <= Len(Ms)
  PROVE  /\ Reaches(Passed(ts), place, ts, Len(ts)) /\ Passed(ts) <= Len(Ms)
         /\ Passed(ts) = place \/ \E i \in DOMAIN ts : Passed(ts) = ts[i].at
<1> DEFINE S == {place} \union {ts[k].at : k \in DOMAIN ts}
<1>1. place \in Nat /\ Len(Ms) \in Nat /\ place <= Len(Ms)
  BY MsFacts DEF TypeOK
<1>2. \A k \in DOMAIN ts : ts[k].at \in Nat
  <2> TAKE k \in DOMAIN ts
  <2>1. ts[k] \in Messages
    OBVIOUS
  <2> QED BY <2>1 DEF Messages
<1>3. S \in SUBSET Nat /\ S # {} /\ \A m \in S : m <= Len(Ms)
  BY <1>1, <1>2
<1>4. place \in S /\ (\A k \in DOMAIN ts : ts[k].at \in S)
      /\ (\A m \in S : m = place \/ \E k \in DOMAIN ts : m = ts[k].at)
  OBVIOUS
<1> HIDE DEF S
<1>5. Max(S) \in S /\ \A m \in S : m <= Max(S)
  BY <1>1, <1>3, GreatestElement
<1>6. Passed(ts) = Max(S)
  BY DEF Passed, S
<1>7. Passed(ts) \in Nat /\ place <= Passed(ts) /\ Passed(ts) <= Len(Ms)
      /\ (\A k \in DOMAIN ts : ts[k].at <= Passed(ts))
      /\ (Passed(ts) = place \/ \E k \in DOMAIN ts : Passed(ts) = ts[k].at)
  BY <1>3, <1>4, <1>5, <1>6
<1>8. DOMAIN ts = 1..Len(ts)
  OBVIOUS
<1> QED BY <1>7, <1>8 DEF Reaches

-----------------------------------------------------------------------------
(* What the server does and what is read, taken or thrown away keeps the   *)
(* stream going.                                                           *)

LEMMA SeqEqual ==
  ASSUME NEW S, NEW s \in Seq(S), NEW t \in Seq(S), Len(s) = Len(t), \A i \in 1..Len(s) : s[i] = t[i]
  PROVE  s = t
OBVIOUS

LEMMA ConcatAt ==
  ASSUME NEW S, NEW s \in Seq(S), NEW t \in Seq(S)
  PROVE  /\ s \o t \in Seq(S) /\ Len(s \o t) = Len(s) + Len(t)
         /\ \A i \in 1..Len(s) : (s \o t)[i] = s[i]
         /\ \A i \in 1..Len(t) : (s \o t)[Len(s) + i] = t[i]
OBVIOUS

LEMMA ConcatThrice ==
  ASSUME NEW s \in Seq(Messages), NEW t \in Seq(Messages), NEW u \in Seq(Messages)
  PROVE  s \o (t \o u) = (s \o t) \o u
OBVIOUS

\* Cut in two, a sequence is the same when it is put together again.
LEMMA CutTogether ==
  ASSUME NEW S, NEW s \in Seq(S), NEW t \in Seq(S), NEW k \in 0..Len(t)
  PROVE  (s \o SubSeq(t, 1, k)) \o SubSeq(t, k + 1, Len(t)) = s \o t
<1> DEFINE a == SubSeq(t, 1, k)
           b == SubSeq(t, k + 1, Len(t))
           u == s \o a
           l == u \o b
           r == s \o t
<1>1. Len(s) \in Nat /\ Len(t) \in Nat /\ k \in Nat /\ k <= Len(t)
  OBVIOUS
<1>2. a \in Seq(S) /\ Len(a) = k /\ \A i \in 1..k : a[i] = t[i]
  BY <1>1
<1>3. b \in Seq(S) /\ Len(b) = Len(t) - k /\ \A i \in 1..Len(t) - k : b[i] = t[k + i]
  BY <1>1
<1> HIDE DEF a, b
<1>4. /\ u \in Seq(S) /\ Len(u) = Len(s) + k /\ \A i \in 1..Len(s) : u[i] = s[i]
      /\ \A i \in 1..k : u[Len(s) + i] = t[i]
  BY <1>1, <1>2
<1> HIDE DEF u
<1>5. /\ l \in Seq(S) /\ Len(l) = Len(s) + Len(t) /\ \A i \in 1..Len(s) + k : l[i] = u[i]
      /\ \A i \in 1..Len(t) - k : l[(Len(s) + k) + i] = t[k + i]
  <2>1. /\ l \in Seq(S) /\ Len(l) = Len(u) + Len(b) /\ \A i \in 1..Len(u) : l[i] = u[i]
        /\ \A i \in 1..Len(b) : l[Len(u) + i] = b[i]
    <3>1. u \in Seq(S) /\ b \in Seq(S)
      BY <1>3, <1>4
    <3> QED BY <3>1, ConcatAt
  <2> HIDE DEF l
  <2>2. Len(u) + Len(b) = Len(s) + Len(t)
    BY <1>1, <1>3, <1>4
  <2> QED BY <1>3, <1>4, <2>1, <2>2
<1>6. /\ r \in Seq(S) /\ Len(r) = Len(s) + Len(t) /\ \A i \in 1..Len(s) : r[i] = s[i]
      /\ \A i \in 1..Len(t) : r[Len(s) + i] = t[i]
  BY <1>1
<1> HIDE DEF l, r
<1>7. ASSUME NEW i \in 1..Len(s) + Len(t) PROVE l[i] = r[i]
  <2>1. CASE i <= Len(s)
    BY <1>1, <1>4, <1>5, <1>6, <2>1
  <2>2. CASE i > Len(s) /\ i <= Len(s) + k
    <3>1. i - Len(s) \in 1..k /\ i - Len(s) \in 1..Len(t) /\ Len(s) + (i - Len(s)) = i
      BY <1>1, <2>2
    <3>2. i \in 1..Len(s) + k
      BY <1>1, <2>2
    <3>3. l[i] = u[i] /\ u[i] = t[i - Len(s)] /\ r[i] = t[i - Len(s)]
      BY <1>4, <1>5, <1>6, <3>1, <3>2
    <3> QED BY <3>3
  <2>3. CASE i > Len(s) + k
    <3>1. i - (Len(s) + k) \in 1..Len(t) - k /\ (Len(s) + k) + (i - (Len(s) + k)) = i
          /\ k + (i - (Len(s) + k)) \in 1..Len(t) /\ Len(s) + (k + (i - (Len(s) + k))) = i
      BY <1>1, <2>3
    <3>2. l[i] = t[k + (i - (Len(s) + k))]
      BY <1>5, <3>1
    <3>3. r[i] = t[k + (i - (Len(s) + k))]
      BY <1>6, <3>1
    <3> QED BY <3>2, <3>3
  <2> QED BY <1>1, <2>1, <2>2, <2>3
<1>8. l = r
  BY <1>5, <1>6, <1>7, SeqEqual
<1> QED BY <1>8 DEF l, r, u, a, b

LEMMA StreamTypes ==
  ASSUME TypeOK
  PROVE  /\ Stream \in Seq(Messages) /\ Len(Stream) = Len(in) + Len(script)
         /\ Len(in) \in Nat /\ Len(script) \in Nat
         /\ \A i \in 1..Len(in) : Stream[i] = in[i]
         /\ \A i \in 1..Len(script) : Stream[Len(in) + i] = script[i]
BY DEF TypeOK, Stream

\* The first message of the input is unasked for, or the next of the answer.
LEMMA HeadFacts ==
  ASSUME TypeOK, StreamInv, in # <<>>
  PROVE  /\ Head(in) \in Messages /\ Head(in).id # "end" /\ Head(in).at \in Nat
         /\ Head(in).at = 0 =>
              Head(in) \in UnaskedMessages(c.pversion) /\ Head(in).stmt = 0 /\ Head(in).id \in {"A", "N", "S"}
         /\ Head(in).at # 0 =>
              /\ sent > 0 /\ Head(in).at > place /\ Head(in).at <= Len(Ms)
              /\ Head(in) = Ms[Head(in).at]
              /\ \A k \in place + 1..Head(in).at - 1 : Ms[k].id = "end"
         /\ Passed(<<Head(in)>>) = IF Head(in).at = 0 THEN place ELSE Head(in).at
<1>1. in \in Seq(Messages) /\ 1 \in DOMAIN in /\ Head(in) = in[1] /\ in[1] \in Messages
  BY DEF TypeOK
<1>2. 1 \in DOMAIN Stream /\ Stream[1] = in[1] /\ Stream \in Seq(Messages)
  BY <1>1, StreamTypes
<1>3. place \in Nat /\ Placed(Ms) /\ c.pversion \in {2, 3} /\ Len(Ms) \in Nat
  BY MsFacts, ProgramAnswered
<1>4. Continues(Stream, place, Ms, c.pversion) /\ in[1].id # "end"
  BY <1>1 DEF StreamInv
<1> HIDE DEF Stream, Ms
<1>5. /\ in[1].at \in Nat
      /\ in[1].at = 0 => in[1] \in UnaskedMessages(c.pversion) /\ in[1].stmt = 0 /\ in[1].id \in {"A", "N", "S"}
      /\ in[1].at # 0 => in[1].at > place /\ in[1].at <= Len(Ms) /\ in[1] = Ms[in[1].at]
  BY <1>2, <1>3, <1>4, StreamFacts
<1>6. ASSUME in[1].at # 0, NEW k \in place + 1..in[1].at - 1 PROVE Ms[k].id = "end"
  <2>1. Gapless(Stream, place, Ms, 1)
    BY <1>2, <1>4 DEF Continues
  <2> QED BY <1>2, <1>6, <2>1 DEF Gapless
<1>7. in[1].at # 0 => sent > 0
  <2>1. Len(Ms) > 0 => sent > 0
    BY MsFacts DEF Ms
  <2> QED BY <1>3, <1>5, <2>1
<1>8. Passed(<<in[1]>>) = IF in[1].at = 0 THEN place ELSE in[1].at
  <2> DEFINE ts == <<in[1]>>
  <2>1. ts \in Seq(Messages) /\ Len(ts) = 1 /\ ts[1] = in[1] /\ DOMAIN ts = {1}
    BY <1>1
  <2>2. \A i \in DOMAIN ts : ts[i].at <= Len(Ms)
    BY <1>3, <1>5, <2>1
  <2> HIDE DEF ts
  <2>3. Reaches(Passed(ts), place, ts, 1) /\ (Passed(ts) = place \/ Passed(ts) = in[1].at)
    BY <2>1, <2>2, PassedReaches
  <2>4. in[1].at <= Passed(ts) /\ Passed(ts) \in Nat /\ place <= Passed(ts)
    BY <2>1, <2>3 DEF Reaches
  <2> QED BY <1>3, <1>5, <2>3, <2>4 DEF ts
<1> QED BY <1>1, <1>4, <1>5, <1>6, <1>7, <1>8

\* What is gone is gone for good, wherever the place is then.
LEMMA StreamBehind ==
  ASSUME TypeOK, StreamInv, NEW n \in 0..Len(in), in' = SubSeq(in, n + 1, Len(in)),
         place' = Passed(SubSeq(in, 1, n)), half' \in {half, FALSE},
         UNCHANGED <<program, sent, script, alive>>, c'.pversion = c.pversion
  PROVE  /\ StreamInv' /\ place' \in Nat /\ place' <= Len(Ms) /\ place <= place'
         /\ \A i \in 1..n : in[i].at <= place'
<1> DEFINE st == Stream
           new == SubSeq(in, n + 1, Len(in)) \o script
<1>1. /\ st \in Seq(Messages) /\ Len(st) = Len(in) + Len(script) /\ Len(in) \in Nat /\ Len(script) \in Nat
      /\ \A i \in 1..Len(in) : st[i] = in[i]
      /\ \A i \in 1..Len(script) : st[Len(in) + i] = script[i]
      /\ in \in Seq(Messages) /\ script \in Seq(Messages) /\ n \in Nat
  <2>1. in \in Seq(Messages) /\ script \in Seq(Messages)
    BY DEF TypeOK
  <2> QED BY <2>1, StreamTypes
<1>2. place \in Nat /\ Placed(Ms) /\ c.pversion \in {2, 3} /\ Len(Ms) \in Nat
  BY MsFacts, ProgramAnswered
<1>3. Continues(st, place, Ms, c.pversion)
  BY DEF StreamInv
<1>4. new = Stream' /\ Ms' = Ms
  BY DEF Stream, Ms
<1>5. Behind(new, st, n)
  <2>1. new \in Seq(Messages) /\ Len(new) = Len(st) - n
    BY <1>1
  <2>2. ASSUME NEW i \in 1..Len(new) PROVE new[i] = st[i + n]
    <3>1. CASE i <= Len(in) - n
      <4> DEFINE a == SubSeq(in, n + 1, Len(in))
      <4>1. PICK l \in Nat : l = Len(in)
        BY <1>1
      <4>2. i \in Nat /\ i >= 1 /\ i <= l - n /\ n \in Nat
        BY <1>1, <2>1, <3>1, <4>1
      <4>3. i + n \in 1..l /\ i \in 1..l - n
        BY <4>2
      <4>4. a \in Seq(Messages) /\ Len(a) = l - n /\ \A j \in 1..l - n : a[j] = in[j + n]
        BY <1>1, <4>1
      <4>5. new = a \o script /\ script \in Seq(Messages)
        BY <1>1
      <4> HIDE DEF a, new, st
      <4>6. new[i] = a[i]
        BY <4>3, <4>4, <4>5, ConcatAt
      <4> QED BY <1>1, <4>1, <4>3, <4>4, <4>6
    <3>2. CASE ~(i <= Len(in) - n)
      <4> DEFINE a == SubSeq(in, n + 1, Len(in))
      <4>1. PICK k \in 1..Len(script) : i = Len(in) - n + k /\ Len(in) + k = i + n
        <5>1. PICK l \in Nat, r \in Nat : l = Len(in) /\ r = Len(script)
          BY <1>1
        <5>2. i \in Nat /\ i <= l + r - n /\ ~(i <= l - n) /\ n \in Nat
          BY <1>1, <2>1, <3>2, <5>1
        <5>3. i - (l - n) \in 1..r /\ i = l - n + (i - (l - n)) /\ l + (i - (l - n)) = i + n
          BY <5>2
        <5> QED BY <5>1, <5>3
      <4>2. a \in Seq(Messages) /\ Len(a) = Len(in) - n
        BY <1>1
      <4>3. new = a \o script /\ script \in Seq(Messages)
        BY <1>1
      <4> HIDE DEF a, new, st
      <4>6. (a \o script)[Len(a) + k] = script[k]
        BY <4>2, <4>3, ConcatAt
      <4>4. new[Len(a) + k] = script[k]
        BY <4>3, <4>6
      <4>5. st[Len(in) + k] = script[k]
        BY <1>1
      <4> QED BY <4>1, <4>2, <4>4, <4>5
    <3> QED BY <3>1, <3>2
  <2>3. n \in 0..Len(st)
    BY <1>1
  <2> HIDE DEF new, st
  <2> QED BY <2>1, <2>2, <2>3 DEF Behind
<1> DEFINE gone == SubSeq(in, 1, n)
<1>6. gone \in Seq(Messages) /\ Len(gone) = n /\ \A i \in 1..n : gone[i] = st[i] /\ i \in DOMAIN st /\ st[i] = in[i]
  BY <1>1
<1>7. \A i \in DOMAIN gone : gone[i].at <= Len(Ms)
  <2>1. \A i \in DOMAIN st : st[i].at \in Nat /\ (st[i].at # 0 => st[i].at <= Len(Ms))
    <3> HIDE DEF st, Ms
    <3> QED BY <1>1, <1>2, <1>3, StreamFacts
  <2>2. DOMAIN gone = 1..n
    BY <1>6
  <2> HIDE DEF st, gone
  <2> QED BY <1>2, <1>6, <2>1, <2>2
<1> HIDE DEF gone
<1>8. Reaches(Passed(gone), place, gone, n) /\ Passed(gone) <= Len(Ms)
  BY <1>6, <1>7, PassedReaches
<1>9. place' = Passed(gone)
  BY DEF gone
<1> HIDE DEF st, new
<1>10. Reaches(place', place, st, n) /\ place' \in Nat /\ place' <= Len(Ms)
  BY <1>6, <1>8, <1>9 DEF Reaches
<1>11. Continues(new, place', Ms, c.pversion)
  BY <1>1, <1>2, <1>3, <1>5, <1>10, BehindContinues
<1>12. alive => Complete(new, place', Ms)
  <2>1. alive => Complete(st, place, Ms)
    BY DEF StreamInv, st
  <2> QED BY <1>1, <1>2, <1>5, <1>10, <2>1, BehindComplete
<1>13. c.pversion = 2 => Unbroken(new, place', Ms)
  <2>1. c.pversion = 2 => Unbroken(st, place, Ms)
    BY DEF StreamInv, st
  <2> QED BY <1>1, <1>2, <1>3, <1>5, <1>10, <2>1, BehindUnbroken
<1>14. \A i \in DOMAIN in' : in'[i].id # "end"
  <2>1. \A i \in DOMAIN in' : i + n \in DOMAIN in /\ in'[i] = in[i + n]
    BY <1>1
  <2> QED BY <2>1 DEF StreamInv
<1>15. half' => script' # <<>> /\ Head(script').id # "end"
  BY DEF StreamInv
<1> QED BY <1>4, <1>6, <1>10, <1>11, <1>12, <1>13, <1>14, <1>15 DEF StreamInv, Reaches

\* A step that leaves the input and the server alone.
LEMMA StreamSame ==
  ASSUME StreamInv, UNCHANGED <<program, sent, in, script, place, alive>>, half' \in {half, FALSE},
         c'.pversion = c.pversion
  PROVE  StreamInv'
<1>1. /\ Stream' = Stream /\ Ms' = Ms /\ place' = place /\ c'.pversion = c.pversion
      /\ alive' = alive /\ in' = in /\ script' = script
  BY DEF Stream, Ms
<1>2. half' => half
  OBVIOUS
<1> QED
  <2> HIDE DEF Stream, Ms
  <2> QED BY <1>1, <1>2 DEF StreamInv

\* The head of the input is taken.
LEMMA StreamTaken ==
  ASSUME TypeOK, StreamInv, in # <<>>, TakeMessage, UNCHANGED <<program, sent, script, alive, half>>,
         c'.pversion = c.pversion
  PROVE  StreamInv'
<1>1. in \in Seq(Messages)
  BY DEF TypeOK
<1>2. 1 \in 0..Len(in) /\ Tail(in) = SubSeq(in, 1 + 1, Len(in)) /\ <<Head(in)>> = SubSeq(in, 1, 1)
  BY <1>1
<1> QED BY <1>2, StreamBehind DEF TakeMessage

\* All of the input is thrown away.
LEMMA StreamDropped ==
  ASSUME TypeOK, StreamInv, in' = <<>>, place' = Passed(in), half' = FALSE,
         UNCHANGED <<program, sent, script, alive>>, c'.pversion = c.pversion
  PROVE  StreamInv' /\ place' \in Nat /\ place' <= Len(Ms) /\ place <= place'
         /\ \A i \in DOMAIN in : in[i].at <= place'
<1>1. in \in Seq(Messages)
  BY DEF TypeOK
<1>2. /\ Len(in) \in 0..Len(in) /\ <<>> = SubSeq(in, Len(in) + 1, Len(in)) /\ in = SubSeq(in, 1, Len(in))
      /\ DOMAIN in = 1..Len(in)
  BY <1>1
<1> QED BY <1>2, StreamBehind

\* The server waits at the first end of what it has to send.
LEMMA EndAtFacts ==
  ASSUME script \in Seq(Messages)
  PROVE  /\ EndAt = 0 \/ (EndAt \in DOMAIN script /\ script[EndAt].id = "end")
         /\ Coming \in Seq(Messages) /\ Len(Coming) <= Len(script)
         /\ \A i \in DOMAIN Coming : Coming[i] = script[i] /\ script[i].id # "end"
<1> DEFINE I == {i \in 1..Len(script) : script[i].id = "end"}
<1>1. EndAt = IF I # {} THEN Min(I) ELSE 0
  BY DEF EndAt, SelectInSeq
<1>2. ASSUME I # {} PROVE Min(I) \in I /\ \A j \in I : Min(I) <= j
  <2> DEFINE R == {ss \in Nat \X Nat : ss[1] < ss[2]}
  <2>1. OpToRel(<, Nat) = R
    BY DEF OpToRel
  <2>2. IsWellFoundedOn(R, Nat)
    BY <2>1, NatLessThanWellFounded
  <2>3. \A l, m \in Nat : l < m => <<l, m>> \in R
    OBVIOUS
  <2>4. I \in SUBSET Nat
    OBVIOUS
  <2> HIDE DEF R, I
  <2>5. PICK d \in I : \A e \in I : ~ (<<e, d>> \in R)
    BY <1>2, <2>2, <2>4, WFMin
  <2>6. \A e \in I : d <= e
    <3> TAKE e \in I
    <3>1. d \in Nat /\ e \in Nat /\ ~(e < d)
      BY <2>3, <2>4, <2>5
    <3> QED BY <3>1
  <2> QED BY <2>6 DEF Min
<1>3. CASE I = {}
  <2>1. EndAt = 0 /\ Coming = script
    BY <1>1, <1>3 DEF Coming
  <2> HIDE DEF Coming
  <2> QED BY <1>3, <2>1
<1>4. CASE I # {}
  <2>1. EndAt = Min(I)
    BY <1>1, <1>4
  <2> HIDE DEF I
  <2>2. EndAt \in I /\ \A j \in I : EndAt <= j
    BY <1>2, <1>4, <2>1
  <2>3. EndAt \in 1..Len(script) /\ script[EndAt].id = "end"
    BY <2>2 DEF I
  <2>4. Coming = SubSeq(script, 1, EndAt - 1)
    BY <2>3 DEF Coming
  <2>5. Coming \in Seq(Messages) /\ Len(Coming) = EndAt - 1
        /\ \A i \in 1..Len(Coming) : Coming[i] = script[i] /\ i \in 1..Len(script) /\ i < EndAt
    BY <2>3, <2>4
  <2>6. \A i \in 1..Len(Coming) : script[i].id # "end"
    <3> TAKE i \in 1..Len(Coming)
    <3>1. i \in 1..Len(script) /\ i < EndAt
      BY <2>5
    <3>2. i \notin I
      BY <2>2, <2>3, <3>1
    <3> QED BY <3>1, <3>2 DEF I
  <2> QED BY <2>3, <2>5, <2>6
<1> QED BY <1>3, <1>4

LEMMA StreamRead ==
  ASSUME TypeOK, StreamInv, pqReadData, UNCHANGED <<program, sent, place, alive>>, c' = c
  PROVE  /\ StreamInv' /\ in' \in Seq(Messages) /\ script' \in Seq(Messages) /\ half' \in BOOLEAN
         /\ \A i \in DOMAIN in : i \in DOMAIN in' /\ in'[i] = in[i]
<1>1. in \in Seq(Messages) /\ script \in Seq(Messages)
  BY DEF TypeOK
<1>2. PICK k \in 0..Len(Coming), part \in BOOLEAN :
        /\ part => k < Len(Coming)
        /\ in' = in \o SubSeq(script, 1, k) /\ script' = SubSeq(script, k + 1, Len(script))
        /\ half' = part
  BY DEF pqReadData
<1>3. k \in Nat /\ k <= Len(script) /\ \A i \in 1..k : script[i].id # "end"
  BY <1>1, <1>2, EndAtFacts
<1>4. Stream' = Stream
  <2>1. (in \o SubSeq(script, 1, k)) \o SubSeq(script, k + 1, Len(script)) = in \o script
    <3>1. k \in 0..Len(script)
      BY <1>1, <1>3
    <3> QED BY <1>1, <3>1, CutTogether
  <2> QED BY <1>2, <2>1 DEF Stream
<1>5. in' \in Seq(Messages) /\ script' \in Seq(Messages)
      /\ \A i \in DOMAIN in : i \in DOMAIN in' /\ in'[i] = in[i]
  BY <1>1, <1>2, <1>3
<1>6. \A i \in DOMAIN in' : in'[i].id # "end"
  <2> SUFFICES ASSUME NEW i \in DOMAIN in' PROVE in'[i].id # "end"
    OBVIOUS
  <2>1. i \in 1..Len(in) + k /\ Len(in) \in Nat
    BY <1>1, <1>2, <1>3
  <2>2. CASE i <= Len(in)
    <3>1. i \in DOMAIN in /\ in'[i] = in[i]
      BY <1>1, <1>5, <2>1, <2>2
    <3> QED BY <3>1 DEF StreamInv
  <2>3. CASE ~(i <= Len(in))
    <3>1. PICK l \in 1..k : i = Len(in) + l
      <4>1. i - Len(in) \in 1..k /\ i = Len(in) + (i - Len(in))
        BY <1>3, <2>1, <2>3
      <4> QED BY <4>1
    <3> DEFINE b == SubSeq(script, 1, k)
    <3>2. b \in Seq(Messages) /\ Len(b) = k /\ b[l] = script[l]
      BY <1>1, <1>3
    <3>3. in' = in \o b
      BY <1>2
    <3> HIDE DEF b
    <3>4. (in \o b)[Len(in) + l] = b[l]
      BY <1>1, <3>2, ConcatAt
    <3> QED BY <1>3, <3>1, <3>2, <3>3, <3>4
  <2> QED BY <2>2, <2>3
<1>7. half' => script' # <<>> /\ Head(script').id # "end"
  <2> SUFFICES ASSUME half' PROVE script' # <<>> /\ Head(script').id # "end"
    OBVIOUS
  <2>1. k < Len(Coming) /\ k + 1 \in DOMAIN Coming
    BY <1>1, <1>2, <1>3, EndAtFacts
  <2>2. script[k + 1].id # "end" /\ Len(Coming) <= Len(script) /\ Len(Coming) \in Nat
    BY <1>1, <2>1, EndAtFacts
  <2>3. Len(script') > 0 /\ script'[1] = script[k + 1]
    BY <1>1, <1>2, <1>3, <2>1, <2>2
  <2> QED BY <1>5, <2>2, <2>3
<1>8. Ms' = Ms
  BY DEF Ms
<1> QED BY <1>2, <1>4, <1>5, <1>6, <1>7, <1>8 DEF StreamInv

LEMMA StreamDone ==
  ASSUME TypeOK, StreamInv, CopyDone, UNCHANGED <<program, sent, in, half, place, alive>>,
         c'.pversion = c.pversion
  PROVE  StreamInv' /\ script' \in Seq(Messages)
<1>1. in \in Seq(Messages) /\ script \in Seq(Messages)
  BY DEF TypeOK
<1>2. CASE EndAt = 0
  <2>1. script' = script
    BY <1>2 DEF CopyDone
  <2> QED BY <1>1, <2>1, StreamSame
<1>3. CASE EndAt # 0
  <2>1. EndAt \in 1..Len(script) /\ script[EndAt].id = "end" /\ EndAt \in Nat /\ Len(script) \in Nat
    BY <1>1, <1>3, EndAtFacts
  <2> DEFINE e == EndAt
             a == SubSeq(script, 1, e - 1)
             b == SubSeq(script, e + 1, Len(script))
  <2>2. script' = a \o b
    BY <1>3 DEF CopyDone, RemoveAt
  <2>3. a \in Seq(Messages) /\ Len(a) = e - 1 /\ \A i \in 1..e - 1 : a[i] = script[i]
    BY <1>1, <2>1
  <2>4. b \in Seq(Messages) /\ Len(b) = Len(script) - e /\ \A i \in 1..Len(script) - e : b[i] = script[e + i]
    BY <1>1, <2>1
  <2> HIDE DEF a, b, e
  <2>5. /\ script' \in Seq(Messages) /\ Len(script') = Len(a) + Len(b)
        /\ \A i \in 1..Len(a) : script'[i] = a[i]
        /\ \A i \in 1..Len(b) : script'[Len(a) + i] = b[i]
    <3>1. a \in Seq(Messages) /\ b \in Seq(Messages)
      BY <2>3, <2>4
    <3> QED BY <2>2, <3>1, ConcatAt
  <2>6. e \in 1..Len(script) /\ script[e].id = "end" /\ e \in Nat
    BY <2>1 DEF e
  <2>7. /\ Len(script') = Len(script) - 1
        /\ \A i \in 1..Len(script') : script'[i] = IF i < e THEN script[i] ELSE script[i + 1]
    <3>1. Len(script') = Len(script) - 1
      BY <2>1, <2>3, <2>4, <2>5, <2>6
    <3>2. ASSUME NEW i \in 1..Len(script') PROVE script'[i] = IF i < e THEN script[i] ELSE script[i + 1]
      <4>1. CASE i < e
        <5>1. i \in 1..e - 1
          BY <2>6, <4>1
        <5> QED BY <2>3, <2>5, <4>1, <5>1
      <4>2. CASE ~(i < e)
        <5> DEFINE d == i - (e - 1)
        <5>1. d \in 1..Len(script) - e /\ (e - 1) + d = i /\ e + d = i + 1
          BY <2>1, <2>6, <3>1, <4>2
        <5> HIDE DEF d
        <5>2. b[d] = script[i + 1] /\ d \in 1..Len(b)
          BY <2>4, <5>1
        <5>3. script'[(e - 1) + d] = b[d]
          <6>1. script'[Len(a) + d] = b[d] /\ Len(a) = e - 1
            BY <2>3, <2>5, <5>2
          <6> QED BY <6>1
        <5> QED BY <4>2, <5>1, <5>2, <5>3
      <4> QED BY <4>1, <4>2
    <3> QED BY <3>1, <3>2
  <2> DEFINE st == Stream
             new == in \o script'
             f == Len(in) + e
  <2>8. /\ st \in Seq(Messages) /\ Len(st) = Len(in) + Len(script) /\ Len(in) \in Nat
        /\ \A i \in 1..Len(in) : st[i] = in[i]
        /\ \A i \in 1..Len(script) : st[Len(in) + i] = script[i]
    BY StreamTypes
  <2>9. /\ new \in Seq(Messages) /\ Len(new) = Len(in) + Len(script')
        /\ \A i \in 1..Len(in) : new[i] = in[i]
        /\ \A i \in 1..Len(script') : new[Len(in) + i] = script'[i]
    <3>1. script' \in Seq(Messages)
      BY <2>5
    <3> QED BY <1>1, <3>1, ConcatAt
  <2>10. Stream' = new /\ Ms' = Ms
    BY DEF Stream, Ms
  <2>11. Continues(st, place, Ms, c.pversion) /\ (alive => Complete(st, place, Ms))
         /\ (c.pversion = 2 => Unbroken(st, place, Ms))
    BY DEF StreamInv
  <2> HIDE DEF st, new
  <2>12. Removed(new, st, f)
    <3>1. f \in DOMAIN st /\ st[f].id = "end" /\ Len(new) = Len(st) - 1
      BY <2>1, <2>6, <2>7, <2>8, <2>9
    <3>2. ASSUME NEW i \in 1..Len(new) PROVE new[i] = IF i < f THEN st[i] ELSE st[i + 1]
      <4>1. CASE i <= Len(in)
        BY <2>6, <2>8, <2>9, <4>1
      <4>2. CASE i > Len(in)
        <5>1. i - Len(in) \in 1..Len(script') /\ Len(in) + (i - Len(in)) = i /\ Len(script') = Len(script) - 1
          BY <2>7, <2>8, <2>9, <4>2
        <5>2. new[i] = IF i - Len(in) < e THEN script[i - Len(in)] ELSE script[(i - Len(in)) + 1]
          BY <2>7, <2>9, <5>1
        <5>3. CASE i < f
          <6>1. i - Len(in) < e /\ i - Len(in) \in 1..Len(script)
            BY <2>1, <2>6, <2>8, <4>2, <5>1, <5>3
          <6>2. st[i] = script[i - Len(in)]
            BY <2>8, <5>1, <6>1
          <6> QED BY <5>2, <5>3, <6>1, <6>2
        <5>4. CASE ~(i < f)
          <6>1. ~(i - Len(in) < e) /\ (i - Len(in)) + 1 \in 1..Len(script) /\ Len(in) + ((i - Len(in)) + 1) = i + 1
            BY <2>1, <2>6, <2>8, <4>2, <5>1, <5>4
          <6>2. st[i + 1] = script[(i - Len(in)) + 1]
            BY <2>8, <6>1
          <6> QED BY <5>2, <5>4, <6>1, <6>2
        <5> QED BY <5>3, <5>4
      <4> QED BY <2>8, <4>1, <4>2
    <3> QED BY <2>9, <3>1, <3>2 DEF Removed
  <2>13. /\ Continues(new, place, Ms, c.pversion) /\ (alive => Complete(new, place, Ms))
         /\ (c.pversion = 2 => Unbroken(new, place, Ms))
    <3>1. place \in Nat /\ Placed(Ms) /\ c.pversion \in {2, 3}
      BY MsFacts, ProgramAnswered
    <3> QED BY <2>8, <2>11, <2>12, <3>1, RemovedContinues
  <2>14. half => script' # <<>> /\ Head(script').id # "end"
    <3> SUFFICES ASSUME half PROVE script' # <<>> /\ Head(script').id # "end"
      OBVIOUS
    <3>1. Head(script).id # "end" /\ Head(script) = script[1]
      BY <1>1 DEF StreamInv
    <3>2. 1 < e /\ 1 \in 1..Len(script')
      BY <2>1, <2>6, <2>7, <3>1
    <3>3. script'[1] = script[1]
      BY <2>7, <3>2
    <3> QED BY <2>5, <3>1, <3>2, <3>3
  <2> QED BY <2>5, <2>10, <2>13, <2>14 DEF StreamInv
<1> QED BY <1>2, <1>3

LEMMA StreamInterjected ==
  ASSUME TypeOK, StreamInv, ServerInterjects
  PROVE  StreamInv' /\ script' \in Seq(Messages)
<1>1. in \in Seq(Messages) /\ script \in Seq(Messages) /\ Len(in) \in Nat /\ Len(script) \in Nat
  BY DEF TypeOK
<1>2. PICK m \in UnaskedMessages(c.pversion) : script' = <<m>> \o script
  BY DEF ServerInterjects
<1>3. /\ alive /\ ~half /\ UNCHANGED <<program, sent, c, in, half, place, alive>>
      /\ script # <<>> => Head(script).id \notin LineIds
  BY DEF ServerInterjects, connVars, LineIds
<1>4. place \in Nat /\ Placed(Ms) /\ c.pversion \in {2, 3} /\ Len(Ms) \in Nat
  BY MsFacts, ProgramAnswered
<1>5. m \in Messages /\ ~InLines(m)
  BY <1>4, UnaskedFacts DEF InLines
<1> DEFINE st == Stream
           new == in \o script'
           e == Len(in) + 1
<1>6. /\ script' \in Seq(Messages) /\ Len(script') = Len(script) + 1 /\ script'[1] = m
      /\ \A i \in 1..Len(script) : script'[i + 1] = script[i]
  BY <1>1, <1>2, <1>5
<1>7. /\ st \in Seq(Messages) /\ Len(st) = Len(in) + Len(script)
      /\ \A i \in 1..Len(in) : st[i] = in[i]
      /\ \A i \in 1..Len(script) : st[Len(in) + i] = script[i]
  BY StreamTypes
<1>8. /\ new \in Seq(Messages) /\ Len(new) = Len(in) + Len(script')
      /\ \A i \in 1..Len(in) : new[i] = in[i]
      /\ \A i \in 1..Len(script') : new[Len(in) + i] = script'[i]
  <2>1. script' \in Seq(Messages)
    BY <1>6
  <2> QED BY <1>1, <2>1, ConcatAt
<1>9. Stream' = new /\ Ms' = Ms
  BY <1>3 DEF Stream, Ms
<1>10. Continues(st, place, Ms, c.pversion) /\ Complete(st, place, Ms)
       /\ (c.pversion = 2 => Unbroken(st, place, Ms))
  BY <1>3 DEF StreamInv
<1> HIDE DEF st, new
<1>11. Inserted(new, st, e, c.pversion)
  <2>0. Len(in) \in Nat /\ Len(script) \in Nat
    BY StreamTypes
  <2>1. e \in 1..Len(st) + 1 /\ Len(new) = Len(st) + 1 /\ new[e] = m
    <3>1. e \in 1..Len(st) + 1 /\ Len(new) = Len(st) + 1
      BY <1>6, <1>7, <1>8, <2>0
    <3>2. 1 \in 1..Len(script')
      BY <1>6, <2>0
    <3> QED BY <1>6, <1>8, <3>1, <3>2
  <2>2. ASSUME NEW i \in 1..Len(st) PROVE IF i < e THEN new[i] = st[i] ELSE new[i + 1] = st[i]
    <3>1. CASE i < e
      <4>1. i \in 1..Len(in)
        BY <1>1, <1>7, <3>1
      <4>2. st[i] = in[i] /\ new[i] = in[i]
        BY <1>7, <1>8, <4>1
      <4> QED BY <3>1, <4>2
    <3>2. CASE ~(i < e)
      <4> DEFINE d == i - Len(in)
      <4>1. d \in 1..Len(script) /\ Len(in) + d = i /\ d + 1 \in 1..Len(script') /\ Len(in) + (d + 1) = i + 1
        BY <1>1, <1>6, <1>7, <3>2
      <4> HIDE DEF d
      <4>2. st[Len(in) + d] = script[d]
        BY <1>7, <4>1
      <4>3. new[Len(in) + (d + 1)] = script'[d + 1]
        BY <1>8, <4>1
      <4>4. script'[d + 1] = script[d]
        BY <1>6, <4>1
      <4> QED BY <3>2, <4>1, <4>2, <4>3, <4>4
    <3> QED BY <3>1, <3>2
  <2> QED BY <1>2, <1>8, <2>1, <2>2 DEF Inserted
<1>12. Continues(new, place, Ms, c.pversion) /\ Complete(new, place, Ms)
  BY <1>4, <1>7, <1>10, <1>11, InsertedContinues
\* In protocol 2.0 the message does not come between lines.
<1>13. ASSUME c.pversion = 2 PROVE Unbroken(new, place, Ms)
  <2>1. ASSUME NEW k \in DOMAIN Ms, InLines(Ms[k])
        PROVE  k + 1 \in DOMAIN Ms /\ Ms[k + 1].id \in LineIds
    <3>1. sent > 0
      BY <2>1, MsFacts DEF Ms
    <3>2. LinesFollow(Ms)
      BY <1>13, <3>1, MsFacts DEF Answers
    <3> QED BY <2>1, <3>2 DEF LinesFollow, LineIds
  <2>2. DOMAIN Ms = 1..Len(Ms) /\ DOMAIN st = 1..Len(st)
    BY <1>4, <1>7 DEF Placed
  <2> HIDE DEF Ms
  <2>3. CASE script # <<>>
    <3>1. st[e] = script[1] /\ e \in DOMAIN st /\ script[1].id \notin LineIds
      BY <1>1, <1>3, <1>7, <2>3
    <3>2. e > 1 => ~InLines(st[e - 1])
      <4>1. e > 1 => e - 1 \in DOMAIN st /\ (e - 1) + 1 = e
        BY <1>1, <1>7
      <4> QED BY <1>10, <1>13, <3>1, <4>1 DEF Unbroken
    <3>3. e = 1 => ~(place > 0 /\ InLines(Ms[place]))
      BY <1>7, <1>10, <1>13, <3>1 DEF Unbroken
    <3> QED BY <1>4, <1>7, <1>10, <1>11, <1>13, <3>2, <3>3, InsertedUnbroken
  <2>4. CASE script = <<>>
    <3>1. Len(st) = Len(in)
      BY <1>1, <1>7, <2>4
    <3>2. ASSUME e > 1, InLines(st[e - 1]) PROVE FALSE
      <4> DEFINE k == st[e - 1].at
      <4>1. e - 1 \in DOMAIN st /\ e - 1 = Len(st)
        BY <1>1, <2>2, <3>1, <3>2
      <4>2. k # 0 /\ k > place /\ k <= Len(Ms) /\ st[e - 1] = Ms[k] /\ k \in Nat
        BY <1>4, <1>7, <1>10, <3>2, <4>1, StreamFacts DEF InLines
      <4> HIDE DEF k
      <4>3. k + 1 \in DOMAIN Ms /\ Ms[k + 1].id \in LineIds
        BY <1>4, <2>1, <2>2, <3>2, <4>2
      <4>4. k + 1 \in place + 1..Len(Ms) /\ Ms[k + 1].id # "end"
        BY <1>4, <2>2, <4>2, <4>3 DEF LineIds
      <4>5. PICK j \in DOMAIN st : st[j].at = k + 1
        BY <1>10, <4>4 DEF Complete
      <4>6. j = e - 1 \/ j < e - 1
        BY <2>2, <4>1
      <4>7. CASE j = e - 1
        BY <4>2, <4>5, <4>7 DEF k
      <4>8. CASE j < e - 1
        <5>1. st[j].at # 0 /\ st[e - 1].at # 0
          BY <1>4, <4>2, <4>5 DEF k
        <5>2. st[j].at < st[e - 1].at
          BY <1>10, <4>1, <4>5, <4>8, <5>1 DEF Continues
        <5> QED BY <4>2, <4>5, <5>2 DEF k
      <4> QED BY <4>6, <4>7, <4>8
    <3>3. ASSUME e = 1, place > 0, InLines(Ms[place]) PROVE FALSE
      <4>1. place \in DOMAIN Ms
        <5>1. place <= Len(Ms)
          BY DEF TypeOK
        <5> QED BY <1>4, <2>2, <3>3, <5>1
      <4>2. place + 1 \in DOMAIN Ms /\ Ms[place + 1].id \in LineIds
        BY <2>1, <3>3, <4>1
      <4>3. place + 1 \in place + 1..Len(Ms) /\ Ms[place + 1].id # "end"
        BY <1>4, <2>2, <4>2 DEF LineIds
      <4>4. \E j \in DOMAIN st : TRUE
        BY <1>10, <4>3 DEF Complete
      <4> QED BY <1>1, <2>2, <3>1, <3>3, <4>4
    <3> QED BY <1>4, <1>7, <1>10, <1>11, <1>13, <3>2, <3>3, InsertedUnbroken
  <2> QED BY <2>3, <2>4
<1> QED BY <1>3, <1>6, <1>9, <1>12, <1>13 DEF StreamInv

LEMMA StreamDies ==
  ASSUME TypeOK, StreamInv, ServerDies
  PROVE  StreamInv' /\ script' \in Seq(Messages) /\ half' \in BOOLEAN
<1>1. in \in Seq(Messages) /\ script \in Seq(Messages) /\ Len(in) \in Nat /\ Len(script) \in Nat /\ half \in BOOLEAN
  BY DEF TypeOK
<1>2. PICK k \in 0..Len(Coming) : script' = SubSeq(script, 1, k) /\ half' = (half /\ k > 0)
  BY DEF ServerDies
<1>3. alive' = FALSE /\ UNCHANGED <<program, sent, c, in, place>>
  BY DEF ServerDies
<1>4. place \in Nat /\ Placed(Ms) /\ c.pversion \in {2, 3}
  BY MsFacts, ProgramAnswered
<1> DEFINE st == Stream
           new == in \o script'
<1>5. k \in Nat /\ k <= Len(script)
  BY <1>1, <1>2, EndAtFacts
<1>6. script' \in Seq(Messages) /\ Len(script') = k /\ \A i \in 1..k : script'[i] = script[i]
  BY <1>1, <1>2, <1>5
<1>7. /\ st \in Seq(Messages) /\ Len(st) = Len(in) + Len(script)
      /\ \A i \in 1..Len(in) : st[i] = in[i]
      /\ \A i \in 1..Len(script) : st[Len(in) + i] = script[i]
  BY StreamTypes
<1>8. /\ new \in Seq(Messages) /\ Len(new) = Len(in) + Len(script')
      /\ \A i \in 1..Len(in) : new[i] = in[i]
      /\ \A i \in 1..Len(script') : new[Len(in) + i] = script'[i]
  <2>1. script' \in Seq(Messages)
    BY <1>6
  <2> QED BY <1>1, <2>1, ConcatAt
<1>9. Stream' = new /\ Ms' = Ms
  BY <1>3 DEF Stream, Ms
<1>10. Continues(st, place, Ms, c.pversion) /\ (c.pversion = 2 => Unbroken(st, place, Ms))
  BY DEF StreamInv
<1> HIDE DEF st, new
<1>11. CutShort(new, st)
  <2>1. Len(new) <= Len(st)
    BY <1>1, <1>5, <1>6, <1>7, <1>8
  <2>2. ASSUME NEW i \in 1..Len(new) PROVE new[i] = st[i]
    <3>1. CASE i <= Len(in)
      <4>1. i \in 1..Len(in)
        BY <1>1, <3>1
      <4> QED BY <1>7, <1>8, <4>1
    <3>2. CASE i > Len(in)
      <4> DEFINE d == i - Len(in)
      <4>1. d \in 1..k /\ d \in 1..Len(script) /\ d \in 1..Len(script') /\ Len(in) + d = i
        BY <1>1, <1>5, <1>6, <1>8, <3>2
      <4> HIDE DEF d
      <4>2. new[Len(in) + d] = script'[d] /\ st[Len(in) + d] = script[d] /\ script'[d] = script[d]
        BY <1>6, <1>7, <1>8, <4>1
      <4> QED BY <4>1, <4>2
    <3> QED BY <1>1, <3>1, <3>2
  <2> QED BY <1>8, <2>1, <2>2 DEF CutShort
<1>12. Continues(new, place, Ms, c.pversion) /\ (c.pversion = 2 => Unbroken(new, place, Ms))
  BY <1>4, <1>7, <1>10, <1>11, CutShortContinues
<1>13. half' => script' # <<>> /\ Head(script').id # "end"
  <2> SUFFICES ASSUME half' PROVE script' # <<>> /\ Head(script').id # "end"
    OBVIOUS
  <2>1. half /\ k > 0
    BY <1>2
  <2>2. script # <<>> /\ Head(script).id # "end" /\ Head(script) = script[1]
    BY <1>1, <2>1 DEF StreamInv
  <2>3. 1 \in 1..k
    BY <1>5, <2>1
  <2>4. script'[1] = script[1] /\ Len(script') > 0
    BY <1>5, <1>6, <2>1, <2>3
  <2> QED BY <1>6, <2>2, <2>4
<1> QED BY <1>1, <1>2, <1>3, <1>6, <1>9, <1>12, <1>13 DEF StreamInv

\* The next query is sent when the answer to the last is at its end.
LEMMA StreamAsked ==
  ASSUME TypeOK, StreamInv, place = Len(Ms), sent < Len(program), sent' = sent + 1, place' = 0,
         ServerAsked(program[sent + 1]), UNCHANGED <<program, in, half, alive>>,
         c'.pversion = c.pversion
  PROVE  StreamInv' /\ script' \in Seq(Messages)
<1>1. in \in Seq(Messages) /\ script \in Seq(Messages) /\ Len(in) \in Nat /\ Len(script) \in Nat
  BY DEF TypeOK
<1>2. place \in Nat /\ Placed(Ms) /\ c.pversion \in {2, 3} /\ Len(Ms) \in Nat /\ sent \in Nat /\ Len(program) \in Nat
  BY MsFacts, ProgramAnswered
<1>3. sent + 1 \in DOMAIN program
  <2>1. DOMAIN program = 1..Len(program)
    BY ProgramAnswered DEF Answered
  <2> QED BY <1>2, <2>1
<1> DEFINE new == program[sent + 1].messages
<1>4. Placed(new) /\ Answers(c.pversion, program[sent + 1])
  BY <1>3, AnswerFacts
<1>5. c.pversion = 2 => LinesFollow(new)
  BY <1>4 DEF Answers
<1>6. Ms' = new
  BY <1>2 DEF Ms
<1>7. Continues(Stream, place, Ms, c.pversion) /\ Stream \in Seq(Messages)
  BY StreamTypes DEF StreamInv
<1>8. OnlyUnasked(Stream)
  <2> SUFFICES ASSUME NEW i \in DOMAIN Stream PROVE Stream[i].at = 0
    BY DEF OnlyUnasked
  <2>1. Stream[i].at # 0 => Stream[i].at > place /\ Stream[i].at <= Len(Ms) /\ Stream[i].at \in Nat
    <3> HIDE DEF Stream, Ms
    <3> QED BY <1>2, <1>7, StreamFacts
  <2> QED BY <1>2, <2>1
<1>9. new \in Seq(Messages)
  BY <1>4 DEF Placed
<1> HIDE DEF new
<1>10. CASE alive
  <2>1. script' = script \o new
    BY <1>10 DEF ServerAsked, new
  <2>2. script' \in Seq(Messages) /\ (script # <<>> => script' # <<>> /\ Head(script') = Head(script))
    BY <1>1, <1>9, <2>1
  <2>3. Stream' = Stream \o new
    <3>1. Stream' = in \o (script \o new)
      BY <2>1 DEF Stream
    <3>0. in \in Seq(Messages) /\ script \in Seq(Messages)
      BY <1>1
    <3>2. in \o (script \o new) = (in \o script) \o new
      BY <1>9, <3>0, ConcatThrice
    <3> QED BY <3>1, <3>2 DEF Stream
  <2>4. /\ Continues(Stream \o new, 0, new, c.pversion) /\ Complete(Stream \o new, 0, new)
        /\ c.pversion = 2 => Unbroken(Stream \o new, 0, new)
    <3> HIDE DEF Stream, Ms
    <3> QED BY <1>2, <1>4, <1>5, <1>7, <1>8, AnswerContinues
  <2> QED
    <3> HIDE DEF Stream, Ms
    <3> QED BY <1>6, <1>10, <2>2, <2>3, <2>4 DEF StreamInv
<1>11. CASE ~alive
  <2>1. script' = script
    BY <1>11 DEF ServerAsked
  <2>2. Stream' = Stream
    BY <2>1 DEF Stream
  <2>3. Continues(Stream, 0, new, c.pversion) /\ Unbroken(Stream, 0, new)
    <3> HIDE DEF Stream, Ms
    <3> QED BY <1>2, <1>7, <1>8, OnlyUnaskedContinues
  <2> QED
    <3> HIDE DEF Stream, Ms
    <3> QED BY <1>1, <1>6, <1>11, <2>1, <2>2, <2>3 DEF StreamInv
<1> QED BY <1>10, <1>11

-----------------------------------------------------------------------------
(* Rows, statements and copies in an answer. *)

LEMMA AnswerShape ==
  ASSUME TypeOK, NEW k \in DOMAIN Ms
  PROVE  /\ sent > 0 /\ k \in Nat /\ k >= 1 /\ k <= Len(Ms) /\ Len(Ms) \in Nat /\ DOMAIN Ms = 1..Len(Ms)
         /\ Ms[k] \in Messages /\ Ms[k].at = k /\ Ms[k].stmt \in Nat /\ Ms[k].n \in Nat
         /\ IF k = Len(Ms) THEN Ms[k].id = "Z" /\ Ms[k].stmt = 0 /\ Ms[k].form = "ok"
            ELSE Ms[k].id \in AnswerIds(c.pversion, program[sent].class) /\ Ms[k].stmt > 0
         /\ c.pversion = 2 => Ms[k].form = "ok"
<1>1. sent > 0
  BY MsFacts DEF Ms
<1>2. Placed(Ms) /\ Answers(c.pversion, program[sent]) /\ Ms = program[sent].messages
  BY <1>1, MsFacts
<1> HIDE DEF Ms
<1>3. Ms \in Seq(Messages) /\ Ms[k] \in Messages /\ Ms[k].at = k
  BY <1>2 DEF Placed
<1>4. Ms[k].stmt \in Nat /\ Ms[k].n \in Nat
  BY <1>3 DEF Messages
<1>5. /\ IF k = Len(Ms) THEN Ms[k].id = "Z" /\ Ms[k].stmt = 0 /\ Ms[k].form = "ok"
         ELSE Ms[k].id \in AnswerIds(c.pversion, program[sent].class) /\ Ms[k].stmt > 0
      /\ c.pversion = 2 => Ms[k].form = "ok"
  BY <1>2 DEF Answers
<1> QED BY <1>1, <1>3, <1>4, <1>5

\* The rows of a statement in the answer, behind their description.
LEMMA RowRun ==
  ASSUME TypeOK, NEW t \in DOMAIN Ms, Ms[t].id = "T"
  PROVE  \E last \in t..Len(Ms) :
           /\ RowPlaces(Ms, Ms[t].stmt) = t + 1..last
           /\ \A k \in t + 1..last : IsRow(Ms[k]) /\ Ms[k].stmt = Ms[t].stmt /\ Ms[k].n = k - t
<1>1. sent > 0
  BY AnswerShape
<1>2. RowsFollow(Ms)
  BY <1>1, MsFacts DEF Answers
<1> HIDE DEF Ms
<1>3. PICK last \in t..Len(Ms) : /\ RowPlaces(Ms, Ms[t].stmt) = t + 1..last
                                 /\ \A k \in t + 1..last : Ms[k].n = k - t
  BY <1>2 DEF RowsFollow
<1>4. \A k \in t + 1..last : k \in RowPlaces(Ms, Ms[t].stmt)
  BY <1>3
<1> QED BY <1>3, <1>4 DEF RowPlaces

LEMMA RowIsDescribed ==
  ASSUME TypeOK, NEW k \in DOMAIN Ms, IsRow(Ms[k])
  PROVE  \E t \in 1..k - 1 : t \in DOMAIN Ms /\ Ms[t].id = "T" /\ Ms[t].stmt = Ms[k].stmt
<1>1. sent > 0 /\ DOMAIN Ms = 1..Len(Ms) /\ k \in Nat /\ k <= Len(Ms) /\ Len(Ms) \in Nat
  BY AnswerShape
<1>2. RowsFollow(Ms)
  BY <1>1, MsFacts DEF Answers
<1> HIDE DEF Ms
<1>3. PICK t \in 1..k - 1 : Describes(Ms[t], Ms[k].stmt)
  BY <1>2 DEF RowsFollow
<1> QED BY <1>1, <1>3 DEF Describes

LEMMA RowBefore ==
  ASSUME TypeOK, NEW k \in DOMAIN Ms, IsRow(Ms[k])
  PROVE  k - 1 \in DOMAIN Ms /\ (Ms[k - 1].id = "T" \/ IsRow(Ms[k - 1]))
<1>1. PICK t \in 1..k - 1 : t \in DOMAIN Ms /\ Ms[t].id = "T" /\ Ms[t].stmt = Ms[k].stmt
  BY RowIsDescribed
<1>2. PICK last \in t..Len(Ms) :
        /\ RowPlaces(Ms, Ms[t].stmt) = t + 1..last
        /\ \A j \in t + 1..last : IsRow(Ms[j]) /\ Ms[j].stmt = Ms[t].stmt
  BY <1>1, RowRun
<1>3. DOMAIN Ms = 1..Len(Ms) /\ k \in Nat /\ Len(Ms) \in Nat
  BY AnswerShape
<1>4. k \in t + 1..last
  <2>1. k \in RowPlaces(Ms, Ms[t].stmt)
    BY <1>1 DEF RowPlaces
  <2> QED BY <1>2, <2>1
<1>5. k - 1 \in 1..Len(Ms) /\ (k - 1 = t \/ k - 1 \in t + 1..last)
  BY <1>1, <1>2, <1>3, <1>4
<1> QED BY <1>1, <1>2, <1>3, <1>5

LEMMA RowFollows ==
  ASSUME TypeOK, NEW k \in Nat, k + 1 \in DOMAIN Ms, IsRow(Ms[k + 1])
  PROVE  k \in DOMAIN Ms /\ (Ms[k].id = "T" \/ IsRow(Ms[k]))
<1>1. (k + 1) - 1 = k
  OBVIOUS
<1> QED BY <1>1, RowBefore

\* A statement belongs to one query.
LEMMA QueryIs ==
  ASSUME TypeOK, NEW k \in DOMAIN Ms, Ms[k].stmt # 0
  PROVE  QueryOf(Ms[k].stmt) = sent /\ Answer(Ms[k].stmt) = Ms /\ ~Before(Ms[k].stmt)
<1>1. sent > 0
  BY AnswerShape
<1>2. sent \in DOMAIN program /\ Ms = program[sent].messages /\ sent \in Nat
  BY <1>1, MsFacts
<1> HIDE DEF Ms
<1> DEFINE s == Ms[k].stmt
<1>3. \A i \in DOMAIN program : (\E l \in DOMAIN program[i].messages : program[i].messages[l].stmt = s) => i = sent
  BY <1>2, ProgramAnswered DEF Answered
<1>4. \E l \in DOMAIN program[sent].messages : program[sent].messages[l].stmt = s
  BY <1>2
<1> HIDE DEF s
<1>5. QueryOf(s) = sent
  BY <1>2, <1>3, <1>4 DEF QueryOf
<1>6. ~Before(s)
  <2>1. \A i \in 1..sent - 1 : i \in DOMAIN program /\ i # sent
    <3>1. DOMAIN program = 1..Len(program) /\ Len(program) \in Nat
      BY ProgramAnswered DEF Answered
    <3> QED BY <1>2, <3>1
  <2> QED BY <1>3, <2>1 DEF Before
<1>7. Answer(s) = Ms
  BY <1>2, <1>5 DEF Answer
<1> QED BY <1>5, <1>6, <1>7 DEF s

LEMMA TroubledHere ==
  ASSUME TypeOK, NEW k \in DOMAIN Ms, Ms[k].id \in {"E", "?"} \/ Ms[k].form # "ok" \/ Ms[k].stmt \in hurt
  PROVE  Troubled(Ms[k].stmt)
<1>1. CASE Ms[k].stmt = 0
  BY <1>1 DEF Troubled
<1>2. CASE Ms[k].stmt # 0
  <2>1. Answer(Ms[k].stmt) = Ms
    BY <1>2, QueryIs
  <2> HIDE DEF Ms
  <2> QED BY <2>1 DEF Troubled
<1> QED BY <1>1, <1>2

\* Data belongs to the last start of a copy before it.
LEMMA DataOfCopy ==
  ASSUME TypeOK, NEW k \in DOMAIN Ms, IsData(Ms[k]), NEW h \in 1..k - 1, StartsCopy(Ms[h]),
         NEW p \in h..k - 1, \A j \in h + 1..p : IsData(Ms[j]) \/ Ms[j].id = "end",
         \A j \in p + 1..k - 1 : Ms[j].id = "end"
  PROVE  /\ \A j \in h..k : Ms[j].stmt = Ms[h].stmt
         /\ \A j \in h + 1..k : IsData(Ms[j]) \/ Ms[j].id = "end"
<1>1. sent > 0 /\ DOMAIN Ms = 1..Len(Ms) /\ Len(Ms) \in Nat /\ k \in Nat /\ k <= Len(Ms)
  BY AnswerShape
<1>2. DataFollows(Ms)
  BY <1>1, MsFacts DEF Answers
<1> HIDE DEF Ms
<1>3. PICK g \in 1..k - 1 : StartsCopy(Ms[g]) /\ \A j \in g..k : /\ Ms[j].stmt = Ms[k].stmt
                                                                 /\ j > g => IsData(Ms[j]) \/ Ms[j].id = "end"
  BY <1>2 DEF DataFollows
<1>4. \A m : StartsCopy(m) => ~IsData(m) /\ m.id # "end"
  BY DEF StartsCopy, IsData, DataIds
<1>5. ~(g > h)
  <2>1. g > h => g \in h + 1..p \/ g \in p + 1..k - 1
    BY <1>1, <1>3
  <2>2. g \in h + 1..p \/ g \in p + 1..k - 1 => IsData(Ms[g]) \/ Ms[g].id = "end"
    OBVIOUS
  <2>3. ~IsData(Ms[g]) /\ Ms[g].id # "end"
    BY <1>3, <1>4
  <2> QED BY <2>1, <2>2, <2>3
<1>6. ~(g < h)
  <2>1. g < h => h \in g..k /\ h > g
    BY <1>1, <1>3
  <2> QED BY <1>3, <1>4, <2>1
<1>7. g = h
  BY <1>3, <1>5, <1>6
<1>8. \A j \in h..k : /\ Ms[j].stmt = Ms[k].stmt
                      /\ j > h => IsData(Ms[j]) \/ Ms[j].id = "end"
  BY <1>3, <1>7
<1>9. h \in h..k /\ \A j \in h + 1..k : j \in h..k /\ j > h
  BY <1>1
<1>10. Ms[h].stmt = Ms[k].stmt
  BY <1>1, <1>8, <1>9
<1> QED BY <1>1, <1>8, <1>9, <1>10

\* The data of a statement is behind the start of its copy, and nothing else
\* but the waits of the server between.
LEMMA CopyOfData ==
  ASSUME TypeOK, NEW h \in DOMAIN Ms, StartsCopy(Ms[h]), NEW k \in DOMAIN Ms, IsData(Ms[k]),
         Ms[k].stmt = Ms[h].stmt
  PROVE  k > h /\ \A j \in h + 1..k : IsData(Ms[j]) \/ Ms[j].id = "end"
<1>1. sent > 0 /\ DOMAIN Ms = 1..Len(Ms) /\ Len(Ms) \in Nat /\ k \in Nat /\ k <= Len(Ms) /\ h \in Nat
  BY AnswerShape
<1>2. DataFollows(Ms)
  BY <1>1, MsFacts DEF Answers
<1> HIDE DEF Ms
<1>3. PICK g \in 1..k - 1 : StartsCopy(Ms[g]) /\ \A j \in g..k : /\ Ms[j].stmt = Ms[k].stmt
                                                                 /\ j > g => IsData(Ms[j]) \/ Ms[j].id = "end"
  BY <1>2 DEF DataFollows
<1>4. g \in DOMAIN Ms /\ g \in g..k
  BY <1>1, <1>3
<1>5. g = h
  <2>1. Ms[g].stmt = Ms[h].stmt
    BY <1>1, <1>3, <1>4
  <2>2. \A a, b \in DOMAIN Ms : StartsCopy(Ms[a]) /\ StartsCopy(Ms[b]) /\ Ms[a].stmt = Ms[b].stmt => a = b
    BY <1>2 DEF DataFollows
  <2> QED BY <1>3, <1>4, <2>1, <2>2
<1>6. \A j \in h + 1..k : j \in g..k /\ j > g
  BY <1>1, <1>5
<1>7. \A j \in g..k : j > g => IsData(Ms[j]) \/ Ms[j].id = "end"
  BY <1>1, <1>3
<1>8. k > h
  BY <1>1, <1>3, <1>5
<1> QED BY <1>6, <1>7, <1>8

-----------------------------------------------------------------------------
(* What was handed out stays right. *)

LEMMA SameProgram ==
  ASSUME program' = program, c'.pversion = c.pversion, hurt \subseteq hurt'
  PROVE  /\ \A s : QueryOf(s)' = QueryOf(s) /\ Answer(s)' = Answer(s) /\ RowsOf(s)' = RowsOf(s)
         /\ \A s : Troubled(s) => Troubled(s)'
         /\ OutOfStep => OutOfStep'
<1>1. \A s : QueryOf(s)' = QueryOf(s)
  BY DEF QueryOf
<1>2. \A s : Answer(s)' = Answer(s)
  BY <1>1 DEF Answer
<1>3. \A s : RowsOf(s)' = RowsOf(s)
  BY <1>2 DEF RowsOf, RowPlaces
<1>4. \A s : Troubled(s) => Troubled(s)'
  BY <1>2 DEF Troubled
<1>5. OutOfStep => OutOfStep'
  BY DEF OutOfStep
<1> QED BY <1>1, <1>2, <1>3, <1>4, <1>5

LEMMA AnswerKept ==
  ASSUME program' = program, c'.pversion = c.pversion, hurt \subseteq hurt',
         NEW i \in Nat, \A j \in 1..i : delivered'[j] = delivered[j], i >= 1, RightAnswer(i)
  PROVE  RightAnswer(i)'
<1>1. delivered'[i] = delivered[i]
  OBVIOUS
<1>2. \A s : SingleRows(i, s)' = SingleRows(i, s)
  <2> TAKE s
  <2>1. \A j \in 1..i - 1 : delivered'[j] = delivered[j]
    OBVIOUS
  <2> QED BY <2>1 DEF SingleRows
<1>3. /\ \A s : QueryOf(s)' = QueryOf(s) /\ RowsOf(s)' = RowsOf(s) /\ (Troubled(s) => Troubled(s)')
      /\ OutOfStep => OutOfStep'
  BY SameProgram
<1> QED BY <1>1, <1>2, <1>3 DEF RightAnswer

LEMMA RightAnswersStay ==
  ASSUME TypeOK, RightAnswers, hurt \subseteq hurt', UNCHANGED <<program, delivered>>,
         c'.pversion = c.pversion
  PROVE  RightAnswers'
<1>1. \A i \in DOMAIN delivered : RightAnswer(i) /\ i \in Nat /\ i >= 1
  <2>1. DOMAIN delivered = 1..Len(delivered)
    BY DEF TypeOK
  <2> QED BY <2>1 DEF RightAnswers, RightAnswer
<1>2. ASSUME NEW i \in DOMAIN delivered PROVE RightAnswer(i)'
  BY <1>1, AnswerKept
<1> QED BY <1>2 DEF RightAnswers, RightAnswer

LEMMA AnswersStay ==
  ASSUME TypeOK, SeenInv, RightAnswers, hurt \subseteq hurt', UNCHANGED <<program, sent, delivered>>,
         c'.pversion = c.pversion, place' \in Nat, place <= place'
  PROVE  SeenInv' /\ RightAnswers'
<1>1. Ms' = Ms /\ (\A s : Before(s)' = Before(s)) /\ place \in Nat
  BY MsFacts DEF Ms, Before
<1>2. SeenInv'
  <2>1. \A s : RowSeen(s) => RowSeen(s)'
    BY <1>1 DEF RowSeen
  <2> QED BY <1>1, <2>1 DEF SeenInv
<1>3. RightAnswers'
  BY RightAnswersStay
<1> QED BY <1>2, <1>3

LEMMA ToldStays ==
  ASSUME TypeOK, ToldInv, UNCHANGED <<program, sent, copied>>, place' \in Nat, place <= place'
  PROVE  ToldInv'
<1>1. Ms' = Ms /\ (\A s : Before(s)' = Before(s)) /\ place \in Nat
  BY MsFacts DEF Ms, Before
<1>2. \A s : CopySeen(s) => CopySeen(s)'
  BY <1>1 DEF CopySeen
<1> QED BY <1>1, <1>2 DEF ToldInv

LEMMA HistoryKept ==
  ASSUME TypeOK, SeenInv, RightAnswers, ToldInv, CopyDataWhole, hurt \subseteq hurt',
         UNCHANGED <<program, sent, delivered, got, copied>>, c'.pversion = c.pversion,
         place' \in Nat, place <= place'
  PROVE  SeenInv' /\ RightAnswers' /\ ToldInv' /\ CopyDataWhole'
BY AnswersStay, ToldStays DEF CopyDataWhole

\* A result more is handed out.
LEMMA AnswersAppended ==
  ASSUME TypeOK, RightAnswers, program' = program, c'.pversion = c.pversion, hurt \subseteq hurt',
         NEW r \in Results, delivered' = Append(delivered, r), NEW n, n = Len(delivered) + 1
  PROVE  /\ RightAnswer(n)' => RightAnswers'
         /\ delivered' \in Seq(Results) /\ Len(delivered') = n /\ delivered'[n] = r
         /\ DOMAIN delivered' = 1..n /\ n \in Nat
         /\ \A i \in 1..n - 1 : i \in DOMAIN delivered /\ delivered'[i] = delivered[i]
         /\ \A s : SingleRows(n, s)' = SingleRows(n, s)
<1>1. delivered \in Seq(Results) /\ DOMAIN delivered = 1..n - 1 /\ n \in Nat /\ n >= 1
  BY DEF TypeOK
<1>2. /\ delivered' \in Seq(Results) /\ Len(delivered') = n /\ delivered'[n] = r
      /\ \A i \in 1..n - 1 : delivered'[i] = delivered[i]
      /\ DOMAIN delivered' = 1..n
  BY <1>1
<1>3. ASSUME RightAnswer(n)' PROVE RightAnswers'
  <2>1. ASSUME NEW i \in DOMAIN delivered PROVE RightAnswer(i)'
    <3>1. RightAnswer(i) /\ i \in Nat /\ i >= 1 /\ \A j \in 1..i : delivered'[j] = delivered[j]
      BY <1>1, <1>2 DEF RightAnswers, RightAnswer
    <3> QED BY <3>1, AnswerKept
  <2>2. \A i \in DOMAIN delivered' : i \in DOMAIN delivered \/ i = n
    BY <1>1, <1>2
  <2>3. \A i \in DOMAIN delivered' : RightAnswer(i)'
    BY <1>3, <2>1, <2>2
  <2> QED BY <2>3 DEF RightAnswers, RightAnswer
<1>4. \A s : SingleRows(n, s)' = SingleRows(n, s)
  BY <1>2 DEF SingleRows
<1> QED BY <1>1, <1>2, <1>3, <1>4

-----------------------------------------------------------------------------
(* A message is treated. *)

LEMMA HeadKinds ==
  ASSUME TypeOK, StreamInv, in # <<>>, NEW m, m = Head(in)
  PROVE  /\ m \in Messages /\ m.id # "end" /\ m.stmt \in Nat /\ m.n \in Nat /\ m.at \in Nat
         /\ m.form \in {"ok", "bad", "short", "huge"}
         /\ m.at = 0 <=> m.id \in {"A", "N", "S"}
         /\ m.at = 0 => m.form = "ok" /\ m.stmt = 0 /\ (c.pversion = 2 => m.id # "S")
         /\ m.at # 0 =>
              /\ sent > 0 /\ m.at \in DOMAIN Ms /\ m = Ms[m.at] /\ m.at > place
              /\ IF m.at = Len(Ms) THEN m.id = "Z" /\ m.stmt = 0 /\ m.form = "ok"
                 ELSE m.id \in AnswerIds(c.pversion, program[sent].class) /\ m.stmt > 0
         /\ c.pversion = 2 => m.form = "ok"
<1>1. /\ m \in Messages /\ m.id # "end" /\ m.at \in Nat
      /\ m.at = 0 => m \in UnaskedMessages(c.pversion) /\ m.stmt = 0 /\ m.id \in {"A", "N", "S"}
      /\ m.at # 0 => sent > 0 /\ m.at > place /\ m.at <= Len(Ms) /\ m = Ms[m.at]
  BY HeadFacts
<1>2. m.stmt \in Nat /\ m.n \in Nat /\ m.form \in {"ok", "bad", "short", "huge"}
  BY <1>1 DEF Messages
<1>3. c.pversion \in {2, 3} /\ place \in Nat /\ Placed(Ms) /\ Len(Ms) \in Nat
  BY ProgramAnswered, MsFacts
<1>4. m.at = 0 => m.form = "ok" /\ (c.pversion = 2 => m.id # "S")
  BY <1>1, <1>3, UnaskedFacts
<1>5. m.at # 0 => m.at \in DOMAIN Ms
  <2> HIDE DEF Ms
  <2> QED BY <1>1, <1>3 DEF Placed
<1>6. m.at # 0 =>
        /\ IF m.at = Len(Ms) THEN m.id = "Z" /\ m.stmt = 0 /\ m.form = "ok"
           ELSE m.id \in AnswerIds(c.pversion, program[sent].class) /\ m.stmt > 0
        /\ c.pversion = 2 => m.form = "ok"
  <2>1. m.at # 0 => m = Ms[m.at] /\ m.at \in DOMAIN Ms
    BY <1>1, <1>5
  <2> QED BY <2>1, AnswerShape
<1>7. m.at # 0 => m.id \notin {"A", "N", "S"}
  <2>1. m.at # 0 => m.id = "Z" \/ m.id \in AnswerIds(c.pversion, program[sent].class)
    BY <1>6
  <2>2. {"A", "N", "S"} \intersect AnswerIds(c.pversion, program[sent].class) = {}
    BY <1>3 DEF AnswerIds, KnownIds
  <2> QED BY <2>1, <2>2
<1> QED BY <1>1, <1>2, <1>4, <1>5, <1>6, <1>7

\* While an answer is awaited, these are its messages.
LEMMA BusyKinds ==
  ASSUME TypeOK, StreamInv, ConnInv, in # <<>>, NEW m, m = Head(in), c.async # "IDLE"
  PROVE  /\ c.ok /\ sent > 0 /\ sent \in DOMAIN program
         /\ c.class = program[sent].class /\ c.single = program[sent].single
         /\ c.class # "FUNCTION" /\ c.class \in Classes(c.pversion)
         /\ m.at # 0 => m.id = "Z" \/ m.id \in KnownIds(c.pversion)
         /\ m.at # 0 /\ c.class = "DESCRIBE" => m.id # "D"
         /\ c.pversion \in {2, 3} /\ (c.pversion = 2 => c.class # "DESCRIBE")
<1>1. c.ok
  BY DEF ConnInv
<1>2. sent > 0 /\ c.class = program[sent].class /\ c.single = program[sent].single /\ c.class # "FUNCTION"
  BY <1>1 DEF ConnInv
<1>3. sent \in DOMAIN program /\ c.pversion \in {2, 3}
  BY <1>2, MsFacts, ProgramAnswered
<1>4. c.class \in Classes(c.pversion)
  BY <1>2, <1>3, AnswerFacts
<1>5. m.at # 0 => m.id = "Z" \/ m.id \in AnswerIds(c.pversion, c.class)
  BY <1>2, HeadKinds
<1>6. AnswerIds(c.pversion, c.class) = IF c.class = "DESCRIBE" THEN KnownIds(c.pversion) \ {"D"} ELSE KnownIds(c.pversion)
  BY <1>2 DEF AnswerIds
<1>7. c.pversion = 2 => c.class # "DESCRIBE"
  BY <1>4 DEF Classes
<1> QED BY <1>1, <1>2, <1>3, <1>4, <1>5, <1>6, <1>7

Acts == {"next", "end", "stay", "lost", "drop"}

\* What the input is then.
LEMMA InputMoves ==
  ASSUME TypeOK, StreamInv, in # <<>>, NEW m, m = Head(in), NEW act \in Acts, InputAfter(act),
         UNCHANGED <<program, sent, script, alive>>, c'.pversion = c.pversion
  PROVE  /\ StreamInv' /\ in' \in Seq(Messages) /\ half' \in BOOLEAN
         /\ Ms' = Ms /\ place' \in Nat /\ place <= place' /\ place' <= Len(Ms)
         /\ act \in {"next", "end"} => in' = Tail(in) /\ place' = IF m.at = 0 THEN place ELSE m.at
         /\ act \in {"next", "end"} => \A k \in place + 1..place' : k = m.at \/ Ms[k].id = "end"
         /\ act = "stay" => in' = in /\ place' = place
         /\ act \in {"lost", "drop"} => in' = <<>>
         /\ act # "stay" => m.at <= place'
<1>1. place \in Nat /\ place <= Len(Ms) /\ Len(Ms) \in Nat /\ in \in Seq(Messages) /\ half \in BOOLEAN
  BY MsFacts DEF TypeOK
<1>2. Ms' = Ms
  BY DEF Ms
<1>3. /\ m.at \in Nat /\ (m.at # 0 => m.at > place /\ m.at <= Len(Ms))
      /\ m.at # 0 => \A k \in place + 1..m.at - 1 : Ms[k].id = "end"
      /\ Passed(<<m>>) = IF m.at = 0 THEN place ELSE m.at
  BY HeadFacts
<1>4. CASE act \in {"next", "end"}
  <2>1. TakeMessage /\ half' = half
    BY <1>4 DEF InputAfter
  <2>2. StreamInv'
    BY <2>1, StreamTaken
  <2>3. in' = Tail(in) /\ place' = IF m.at = 0 THEN place ELSE m.at
    BY <1>3, <2>1 DEF TakeMessage
  <2>4. in' \in Seq(Messages)
    BY <1>1, <2>3
  <2>5. \A k \in place + 1..place' : k = m.at \/ Ms[k].id = "end"
    <3> TAKE k \in place + 1..place'
    <3>1. k # m.at => k \in place + 1..m.at - 1 /\ m.at # 0
      BY <1>1, <1>3, <2>3
    <3> QED BY <1>3, <3>1
  <2>6. place' \in Nat /\ place <= place' /\ place' <= Len(Ms) /\ m.at <= place'
    BY <1>1, <1>3, <2>3
  <2> QED BY <1>1, <1>2, <1>4, <2>1, <2>2, <2>3, <2>4, <2>5, <2>6
<1>5. CASE act = "stay"
  <2>1. UNCHANGED <<in, half, place>>
    BY <1>5 DEF InputAfter
  <2>2. StreamInv'
    BY <2>1, StreamSame
  <2> QED BY <1>1, <1>2, <1>5, <2>1, <2>2
<1>6. CASE act \in {"lost", "drop"}
  <2>1. in' = <<>> /\ half' = FALSE /\ place' = Passed(in)
    BY <1>6 DEF InputAfter
  <2>2. /\ StreamInv' /\ place' \in Nat /\ place' <= Len(Ms) /\ place <= place'
        /\ \A i \in DOMAIN in : in[i].at <= place'
    BY <2>1, StreamDropped
  <2>3. 1 \in DOMAIN in /\ m = in[1]
    BY <1>1
  <2>4. m.at <= place'
    BY <2>2, <2>3
  <2>5. in' \in Seq(Messages)
    BY <2>1
  <2>6. half' \in BOOLEAN
    BY <2>1
  <2> QED BY <1>2, <1>6, <2>1, <2>2, <2>4, <2>5, <2>6
<1> QED BY <1>4, <1>5, <1>6 DEF Acts

\* What a message does to the connection, and what that takes.
Same(d) ==
  d \in Connections /\ d.pversion = c.pversion /\ d.class = c.class /\ d.single = c.single
KeepsResult(d) == d.result = c.result /\ d.next_result = c.next_result
KeepsPlace(d) == d.ok = c.ok /\ d.copy_already_done = c.copy_already_done
Plain(m) == ~IsRow(m) /\ (c.pversion = 2 => ~InLines(m))

Ignored(d, m, act) ==
  /\ Same(d) /\ KeepsResult(d) /\ KeepsPlace(d) /\ d.async = c.async
  /\ \/ act = "stay"
     \/ act = "next" /\ m.at = 0
     \/ act \in {"next", "drop"} /\ c.async = "IDLE" /\ pc \notin FunctionPcs
     \/ act = "next" /\ c.async = "BUSY" /\ Plain(m) /\ m.id # "T"
     \/ act = "next" /\ c.async = "BUSY" /\ c.pversion = 3 /\ IsError(c.result)
     \/ act = "drop" /\ c.async = "BUSY" /\ c.result = NULL /\ OutOfStep

Finished(d, m, act) ==
  /\ Same(d) /\ KeepsResult(d) /\ KeepsPlace(d) /\ c.async = "BUSY" /\ d.async = "READY" /\ m.at # 0
  /\ \/ act = "stay" /\ ~IsRow(m)
     \/ act = "next" /\ Plain(m) /\ (m.id = "T" => c.class = "DESCRIBE")

Refused(d, m, act, failed) ==
  /\ Same(d) /\ d.next_result = NULL /\ Is(d.result, "FATAL_ERROR")
  /\ \/ d.result = c.result
     \/ d.result.stmt = m.stmt /\ (failed \/ m.id \in {"E", "?"} \/ m.form # "ok" \/ OutOfStep)
  /\ c.pversion = 2 => d.copy_already_done = c.copy_already_done
  /\ \/ act = "lost" /\ ~d.ok /\ d.async = "READY" /\ c.pversion = 3
     \/ /\ c.async = "BUSY" /\ d.ok = c.ok /\ m.at # 0
        /\ \/ act = "next" /\ d.async = "BUSY" /\ c.pversion = 3
           \/ act = "next" /\ d.async = "READY" /\ Plain(m) /\ m.id # "T"
           \/ act = "stay" /\ d.async = "READY" /\ ~IsRow(m)
           \/ act = "drop" /\ d.async = "READY" /\ (OutOfStep \/ (c.pversion = 2 /\ failed))

Made(d, m, act) ==
  /\ Same(d) /\ KeepsPlace(d) /\ c.async = "BUSY" /\ act = "next" /\ m.at # 0 /\ Plain(m)
  /\ d.next_result = NULL /\ d.result # NULL /\ d.result.rows = <<>>
  /\ d.result.status \in {"COMMAND_OK", "EMPTY_QUERY"}
  /\ d.async = "READY" \/ (c.pversion = 3 /\ d.async = "BUSY")
  /\ m.id = "T" => c.class = "DESCRIBE"

Described(d, m, act) ==
  /\ Same(d) /\ KeepsPlace(d) /\ c.async = "BUSY" /\ d.async = "BUSY" /\ act = "next" /\ m.at # 0
  /\ m.id = "T" /\ c.class # "DESCRIBE"
  /\ d.result = NewResult("TUPLES_OK", m.stmt) /\ d.next_result = NULL

RowAdded(d, m, act) ==
  /\ Same(d) /\ KeepsPlace(d) /\ c.async = "BUSY" /\ act = "next" /\ m.at # 0
  /\ IsRow(m) /\ Is(c.result, "TUPLES_OK")
  /\ IF c.single
       THEN /\ d.result = [c.result EXCEPT !.status = "SINGLE_TUPLE", !.rows = <<m.n>>]
            /\ d.next_result = c.result /\ d.async = "READY"
       ELSE /\ d.result = [c.result EXCEPT !.rows = Append(@, m.n)]
            /\ d.next_result = c.next_result /\ d.async = "BUSY"

CopyBegun(d, m, act) ==
  /\ Same(d) /\ d.ok = c.ok /\ c.async = "BUSY" /\ act = "next" /\ m.at # 0
  /\ \/ m.id = "G" /\ d.async = "COPY_IN"
     \/ m.id = "H" /\ d.async = "COPY_OUT"
     \/ m.id = "W" /\ d.async = "COPY_BOTH" /\ c.pversion = 3
  /\ d.next_result = c.next_result
  /\ IF c.pversion = 2 THEN d.result = c.result ELSE d.result = NewResult(d.async, m.stmt)
  /\ IF c.pversion = 3 /\ m.id # "G" THEN d.copy_already_done = 0
     ELSE d.copy_already_done = c.copy_already_done

AnswerEnds(d, m, act) ==
  /\ Same(d) /\ KeepsResult(d) /\ KeepsPlace(d) /\ c.async = "BUSY" /\ d.async = "IDLE"
  /\ act = "next" /\ m.id = "Z"

Kind(d, m, act, failed) ==
  \/ Ignored(d, m, act) \/ Finished(d, m, act) \/ Refused(d, m, act, failed)
  \/ Made(d, m, act) \/ Described(d, m, act) \/ RowAdded(d, m, act)
  \/ CopyBegun(d, m, act) \/ AnswerEnds(d, m, act)
ParseKind(o, m) == Kind(o.c, m, o.act, o.failed)

LEMMA BusyResult ==
  ASSUME TypeOK, ConnInv, c.async # "READY"
  PROVE  /\ ~RowWaits /\ c.next_result = NULL /\ Filling = c.result
         /\ IsError(c.result) <=> Is(c.result, "FATAL_ERROR")
<1>1. ~RowWaits /\ c.next_result = NULL
  BY DEF ConnInv
<1> QED BY <1>1 DEF Filling, IsError, Is

\* The results that handlers make.
LEMMA ResultTypes ==
  /\ \A status \in Statuses, s \in Nat : NewResult(status, s) \in Results /\ NewResult(status, s) # NULL
  /\ \A r \in Results : r # NULL /\ r.status \in Statuses /\ r.stmt \in Nat /\ r.rows \in Seq(Nat)
<1>1. \A status \in Statuses, s \in Nat : NewResult(status, s) \in Results
  BY DEF NewResult, Results
<1>2. \A r \in Results : r # NULL
  BY NullAssumption
<1>3. \A r \in Results : r.status \in Statuses /\ r.stmt \in Nat /\ r.rows \in Seq(Nat)
  BY DEF Results
<1> QED BY <1>1, <1>2, <1>3

LEMMA SaveError ==
  ASSUME NEW d \in Connections, NEW s \in Nat,
         NEW e, e = V3!pqSaveErrorResult(d, s) \/ e = V2!pqSaveErrorResult(d, s) \/ e = pqSaveErrorResult(d, s)
  PROVE  /\ e \in Connections /\ Is(e.result, "FATAL_ERROR")
         /\ IF IsError(d.result) THEN e = d
            ELSE /\ e.result = NewResult("FATAL_ERROR", s) /\ e.next_result = NULL
                 /\ e.pversion = d.pversion /\ e.class = d.class /\ e.single = d.single /\ e.ok = d.ok
                 /\ e.copy_already_done = d.copy_already_done /\ e.async = d.async
<1>1. e = IF IsError(d.result) THEN d
          ELSE [[d EXCEPT !.result = NULL, !.next_result = NULL] EXCEPT !.result = NewResult("FATAL_ERROR", s)]
  BY DEF V3!pqSaveErrorResult, V2!pqSaveErrorResult, pqSaveErrorResult,
         V3!pqClearAsyncResult, V2!pqClearAsyncResult, pqClearAsyncResult,
         V3!NewResult, V2!NewResult, NewResult, V3!IsError, V2!IsError, IsError
<1>2. "FATAL_ERROR" \in Statuses
  BY DEF Statuses
<1>3. NewResult("FATAL_ERROR", s) \in Results /\ NewResult("FATAL_ERROR", s) # NULL
  BY <1>2, ResultTypes
<1>4. NewResult("FATAL_ERROR", s).status = "FATAL_ERROR"
  BY DEF NewResult
<1> HIDE DEF NewResult
<1>5. CASE IsError(d.result)
  <2>1. e = d
    BY <1>1, <1>5
  <2> QED BY <1>5, <2>1 DEF IsError, Is
<1>6. CASE ~IsError(d.result)
  <2>1. e = [[d EXCEPT !.result = NULL, !.next_result = NULL] EXCEPT !.result = NewResult("FATAL_ERROR", s)]
    BY <1>1, <1>6
  <2>2. /\ e.result = NewResult("FATAL_ERROR", s) /\ e.next_result = NULL
        /\ e.pversion = d.pversion /\ e.class = d.class /\ e.single = d.single /\ e.ok = d.ok
        /\ e.copy_already_done = d.copy_already_done /\ e.async = d.async
        /\ e \in Connections
    BY <1>3, <2>1 DEF Connections
  <2> QED BY <1>3, <1>4, <1>6, <2>2 DEF Is
<1> QED BY <1>5, <1>6

\* Steps of the handlers of both protocols.
LEMMA KeepsConnection ==
  ASSUME c \in Connections
  PROVE  /\ Same(c) /\ KeepsResult(c) /\ KeepsPlace(c)
         /\ \A k \in Nat : LET d == [c EXCEPT !.notifies = k]
                           IN  Same(d) /\ KeepsResult(d) /\ KeepsPlace(d) /\ d.async = c.async
         /\ \A s \in AsyncStates : LET d == [c EXCEPT !.async = s]
                                   IN  Same(d) /\ KeepsResult(d) /\ KeepsPlace(d) /\ d.async = s
BY DEF Connections, Same, KeepsResult, KeepsPlace

LEMMA CompletesKinds ==
  ASSUME TypeOK, ConnInv, c.async = "BUSY", NEW m \in Messages, m.at # 0, Plain(m), m.id # "T",
         NEW status \in {"COMMAND_OK", "EMPTY_QUERY"},
         NEW o, o \in V2!Completes(c, m, status) \/ o \in V3!Completes(c, m, status)
  PROVE  o.act \in Acts /\ o.failed \in BOOLEAN /\ ParseKind(o, m)
<1>1. c \in Connections /\ m.stmt \in Nat
  BY DEF TypeOK, Messages
<1>2. c.next_result = NULL
  BY BusyResult
<1>3. o \in IF c.result # NULL THEN {Took([c EXCEPT !.async = "READY"])}
            ELSE {Took([[c EXCEPT !.result = NewResult(status, m.stmt)] EXCEPT !.async = "READY"]),
                  Failed([pqSaveErrorResult(c, m.stmt) EXCEPT !.async = "READY"], "next")}
  BY DEF V2!Completes, V3!Completes, V2!Took, V3!Took, Took, V2!Failed, V3!Failed, Failed,
         V2!Ready, V3!Ready, Outcome, V2!Outcome, V3!Outcome, V2!NewResult, V3!NewResult, NewResult,
         V3!pqSaveErrorResult, V2!pqSaveErrorResult, pqSaveErrorResult,
         V3!pqClearAsyncResult, V2!pqClearAsyncResult, pqClearAsyncResult,
         V3!IsError, V2!IsError, IsError
<1>4. CASE c.result # NULL
  <2> DEFINE d == [c EXCEPT !.async = "READY"]
  <2>1. o = Took(d)
    BY <1>3, <1>4
  <2>2. Same(d) /\ KeepsResult(d) /\ KeepsPlace(d) /\ d.async = "READY"
    BY <1>1, KeepsConnection DEF AsyncStates
  <2>3. o.c = d /\ o.act = "next" /\ o.failed = FALSE
    BY <2>1 DEF Took, Outcome
  <2> HIDE DEF d
  <2>4. Finished(o.c, m, o.act)
    BY <2>2, <2>3 DEF Finished
  <2> QED BY <2>3, <2>4 DEF ParseKind, Kind, Acts
<1>5. CASE o = Took([[c EXCEPT !.result = NewResult(status, m.stmt)] EXCEPT !.async = "READY"])
  <2> DEFINE d == [[c EXCEPT !.result = NewResult(status, m.stmt)] EXCEPT !.async = "READY"]
  <2>1. status \in Statuses
    BY DEF Statuses
  <2>2. /\ NewResult(status, m.stmt) \in Results /\ NewResult(status, m.stmt) # NULL
        /\ NewResult(status, m.stmt).rows = <<>> /\ NewResult(status, m.stmt).status = status
    BY <1>1, <2>1, ResultTypes DEF NewResult
  <2>3. o.c = d /\ o.act = "next" /\ o.failed = FALSE
    BY <1>5 DEF Took, Outcome
  <2>4. Same(d) /\ KeepsPlace(d) /\ d.async = "READY" /\ d.result = NewResult(status, m.stmt) /\ d.next_result = NULL
    BY <1>1, <1>2, <2>2 DEF Connections, Same, KeepsPlace, AsyncStates
  <2> HIDE DEF d
  <2>5. Made(o.c, m, o.act)
    BY <2>2, <2>3, <2>4 DEF Made
  <2> QED BY <2>3, <2>5 DEF ParseKind, Kind, Acts
<1>6. CASE o = Failed([pqSaveErrorResult(c, m.stmt) EXCEPT !.async = "READY"], "next")
  <2> DEFINE e == pqSaveErrorResult(c, m.stmt)
             d == [e EXCEPT !.async = "READY"]
  <2>1. /\ e \in Connections /\ Is(e.result, "FATAL_ERROR")
        /\ IF IsError(c.result) THEN e = c
           ELSE /\ e.result = NewResult("FATAL_ERROR", m.stmt) /\ e.next_result = NULL
                /\ e.pversion = c.pversion /\ e.class = c.class /\ e.single = c.single /\ e.ok = c.ok
                /\ e.copy_already_done = c.copy_already_done /\ e.async = c.async
    BY <1>1, SaveError
  <2>2. o.c = d /\ o.act = "next" /\ o.failed = TRUE
    BY <1>6 DEF Failed
  <2> HIDE DEF e
  <2>3. Same(d) /\ KeepsPlace(d) /\ d.async = "READY" /\ d.result = e.result /\ d.next_result = NULL
    BY <1>1, <1>2, <2>1 DEF Connections, Same, KeepsPlace, AsyncStates
  <2> HIDE DEF d
  <2>4. Refused(o.c, m, o.act, o.failed)
    BY <2>1, <2>2, <2>3 DEF Refused, NewResult, KeepsPlace
  <2> QED BY <2>2, <2>4 DEF ParseKind, Kind, Acts
<1> QED BY <1>3, <1>4, <1>5, <1>6

\* An ErrorResponse.
LEMMA ErrorKinds ==
  ASSUME TypeOK, c.async = "BUSY", NEW m \in Messages, m.at # 0, m.id = "E",
         NEW o, \/ o = V2!Took(V2!Ready(V2!ErrorReceived(c, m)))
                \/ o = V3!Took(V3!Ready(V3!ErrorReceived(c, m)))
  PROVE  o.act \in Acts /\ o.failed \in BOOLEAN /\ ParseKind(o, m)
<1>1. c \in Connections /\ m.stmt \in Nat
  BY DEF TypeOK, Messages
<1> DEFINE r == NewResult("FATAL_ERROR", m.stmt)
           d == [[[c EXCEPT !.result = NULL, !.next_result = NULL] EXCEPT !.result = r] EXCEPT !.async = "READY"]
<1>2. o = [c |-> d, act |-> "next", failed |-> FALSE]
  BY DEF V2!Took, V3!Took, V2!Outcome, V3!Outcome, V2!Ready, V3!Ready, V2!ErrorReceived, V3!ErrorReceived,
         V2!pqClearAsyncResult, V3!pqClearAsyncResult, V2!NewResult, V3!NewResult, NewResult
<1>3. r \in Results /\ r # NULL /\ r.status = "FATAL_ERROR" /\ r.stmt = m.stmt
  <2>1. "FATAL_ERROR" \in Statuses
    BY DEF Statuses
  <2> QED BY <1>1, <2>1, ResultTypes DEF NewResult
<1> HIDE DEF r
<1>4. Same(d) /\ KeepsPlace(d) /\ d.async = "READY" /\ d.result = r /\ d.next_result = NULL
  BY <1>1, <1>3 DEF Connections, Same, KeepsPlace, AsyncStates
<1> HIDE DEF d
<1>5. ~IsRow(m) /\ ~InLines(m)
  BY DEF IsRow, InLines
<1>6. Refused(d, m, "next", FALSE)
  BY <1>3, <1>4, <1>5 DEF Refused, Is, KeepsPlace, Plain
<1> QED BY <1>2, <1>6 DEF ParseKind, Kind, Acts

\* A row, or what comes in its place when there is no memory for it.
LEMMA RowKinds ==
  ASSUME TypeOK, ConnInv, c.async = "BUSY", NEW m \in Messages, m.at # 0, IsRow(m),
         Is(c.result, "TUPLES_OK"),
         NEW o, \/ o = V2!Took(V2!pqRowProcessor(c, m.n))
                \/ o = V3!Took(V3!pqRowProcessor(c, m.n))
  PROVE  o.act \in Acts /\ o.failed \in BOOLEAN /\ ParseKind(o, m)
<1>1. c \in Connections /\ m.n \in Nat
  BY DEF TypeOK, Messages
<1>2. c.result \in Results /\ c.next_result = NULL /\ c.single \in BOOLEAN
  BY <1>1, BusyResult DEF Connections, Is
<1> DEFINE d == IF c.single
                  THEN [c EXCEPT !.result = [@ EXCEPT !.status = "SINGLE_TUPLE", !.rows = <<m.n>>],
                                 !.next_result = c.result, !.async = "READY"]
                  ELSE [c EXCEPT !.result.rows = Append(@, m.n)]
<1>3. o = [c |-> d, act |-> "next", failed |-> FALSE]
  BY DEF V2!Took, V3!Took, V2!Outcome, V3!Outcome, V2!pqRowProcessor, V3!pqRowProcessor
<1>4. RowAdded(d, m, "next")
  <2>1. CASE c.single
    <3>1. [c.result EXCEPT !.status = "SINGLE_TUPLE", !.rows = <<m.n>>] \in Results
      <4>1. <<m.n>> \in Seq(Nat) /\ "SINGLE_TUPLE" \in Statuses
        BY <1>1 DEF Statuses
      <4> QED BY <1>2, <4>1 DEF Results
    <3>2. /\ Same(d) /\ KeepsPlace(d) /\ d.next_result = c.result /\ d.async = "READY"
          /\ d.result = [c.result EXCEPT !.status = "SINGLE_TUPLE", !.rows = <<m.n>>]
      BY <1>1, <1>2, <2>1, <3>1 DEF Connections, Same, KeepsPlace, AsyncStates
    <3> HIDE DEF d
    <3> QED BY <2>1, <3>2 DEF RowAdded
  <2>2. CASE ~c.single
    <3>1. [c.result EXCEPT !.rows = Append(@, m.n)] \in Results
      <4>1. c.result.rows \in Seq(Nat)
        BY <1>2, ResultTypes
      <4>2. Append(c.result.rows, m.n) \in Seq(Nat)
        BY <1>1, <4>1
      <4> QED BY <1>2, <4>2 DEF Results
    <3>2. /\ Same(d) /\ KeepsPlace(d) /\ d.next_result = c.next_result /\ d.async = "BUSY"
          /\ d.result = [c.result EXCEPT !.rows = Append(@, m.n)]
      BY <1>1, <1>2, <2>2, <3>1 DEF Connections, Same, KeepsPlace, AsyncStates
    <3> HIDE DEF d
    <3> QED BY <2>2, <3>2 DEF RowAdded
  <2> QED BY <2>1, <2>2
<1> HIDE DEF d
<1> QED BY <1>3, <1>4 DEF ParseKind, Kind, Acts

LEMMA RowsLostKind ==
  ASSUME TypeOK, c.async = "BUSY", c.pversion = 2, NEW m \in Messages, m.at # 0, NEW o, o = V2!RowsLost(c, m)
  PROVE  o.act \in Acts /\ o.failed \in BOOLEAN /\ ParseKind(o, m)
<1>1. c \in Connections /\ m.stmt \in Nat
  BY DEF TypeOK, Messages
<1> DEFINE r == NewResult("FATAL_ERROR", m.stmt)
           d == [[[c EXCEPT !.result = NULL, !.next_result = NULL] EXCEPT !.result = r] EXCEPT !.async = "READY"]
<1>2. o = [c |-> d, act |-> "drop", failed |-> TRUE]
  BY DEF V2!RowsLost, V2!Failed, V2!Ready, V2!pqClearAsyncResult, V2!NewResult, NewResult
<1>3. r \in Results /\ r # NULL /\ r.status = "FATAL_ERROR" /\ r.stmt = m.stmt
  <2>1. "FATAL_ERROR" \in Statuses
    BY DEF Statuses
  <2> QED BY <1>1, <2>1, ResultTypes DEF NewResult
<1> HIDE DEF r
<1>4. Same(d) /\ KeepsPlace(d) /\ d.async = "READY" /\ d.result = r /\ d.next_result = NULL
  BY <1>1, <1>3 DEF Connections, Same, KeepsPlace, AsyncStates
<1> HIDE DEF d
<1>5. o.c = d /\ o.act = "drop" /\ o.failed = TRUE
  BY <1>2
<1>6. Refused(o.c, m, o.act, o.failed)
  BY <1>3, <1>4, <1>5 DEF Refused, Is, KeepsPlace
<1> QED BY <1>5, <1>6 DEF ParseKind, Kind, Acts

\* A row description starts a result.
LEMMA DescribedKind ==
  ASSUME TypeOK, c.async = "BUSY", NEW m \in Messages, m.at # 0, m.id = "T", c.class # "DESCRIBE",
         c.next_result = NULL,
         NEW o, \/ o = V2!Took([c EXCEPT !.result = V2!NewResult("TUPLES_OK", m.stmt)])
                \/ o = V3!Took([c EXCEPT !.result = V3!NewResult("TUPLES_OK", m.stmt)])
  PROVE  o.act \in Acts /\ o.failed \in BOOLEAN /\ ParseKind(o, m)
<1>1. c \in Connections /\ m.stmt \in Nat
  BY DEF TypeOK, Messages
<1> DEFINE r == NewResult("TUPLES_OK", m.stmt)
           d == [c EXCEPT !.result = r]
<1>2. o = [c |-> d, act |-> "next", failed |-> FALSE]
  BY DEF V2!Took, V3!Took, V2!Outcome, V3!Outcome, V2!NewResult, V3!NewResult, NewResult
<1>3. r \in Results
  <2>1. "TUPLES_OK" \in Statuses
    BY DEF Statuses
  <2> QED BY <1>1, <2>1, ResultTypes
<1> HIDE DEF r
<1>4. Same(d) /\ KeepsPlace(d) /\ d.async = "BUSY" /\ d.result = r /\ d.next_result = NULL
  BY <1>1, <1>3 DEF Connections, Same, KeepsPlace
<1> HIDE DEF d
<1>5. Described(d, m, "next")
  BY <1>4 DEF Described, r
<1> QED BY <1>2, <1>5 DEF ParseKind, Kind, Acts

\* A row or a line at the head of the input follows what was treated last.
LEMMA HeadRow ==
  ASSUME TypeOK, StreamInv, in # <<>>, NEW m, m = Head(in), m.at # 0, IsRow(m)
  PROVE  m.at = place + 1 /\ place + 1 \in DOMAIN Ms /\ place < Len(Ms) /\ IsRow(Ms[place + 1])
<1>1. /\ m.at \in DOMAIN Ms /\ m = Ms[m.at] /\ m.at > place /\ m.at \in Nat
      /\ \A k \in place + 1..m.at - 1 : Ms[k].id = "end"
  BY HeadFacts, HeadKinds
<1>2. place \in Nat /\ DOMAIN Ms = 1..Len(Ms) /\ Len(Ms) \in Nat
  BY <1>1, MsFacts, AnswerShape
<1>3. m.at - 1 \in DOMAIN Ms /\ Ms[m.at - 1].id # "end"
  <2>1. m.at - 1 \in DOMAIN Ms /\ (Ms[m.at - 1].id = "T" \/ IsRow(Ms[m.at - 1]))
    BY <1>1, RowBefore
  <2> QED BY <2>1 DEF IsRow
<1>4. m.at - 1 \notin place + 1..m.at - 1
  BY <1>1, <1>3
<1>5. m.at = place + 1
  BY <1>1, <1>2, <1>4
<1> QED BY <1>1, <1>2, <1>5

LEMMA HeadLine ==
  ASSUME TypeOK, StreamInv, in # <<>>, NEW m, m = Head(in), c.pversion = 2, m.id \in LineIds
  PROVE  m.at = place + 1 /\ place > 0 /\ InLines(Ms[place]) /\ place \in DOMAIN Ms
<1>1. m.at # 0
  <2>1. m.id \notin {"A", "N", "S"}
    BY DEF LineIds
  <2> QED BY <2>1, HeadKinds
<1>2. /\ sent > 0 /\ m.at \in DOMAIN Ms /\ m = Ms[m.at] /\ m.at > place /\ m.at \in Nat
      /\ \A k \in place + 1..m.at - 1 : Ms[k].id = "end"
  BY <1>1, HeadFacts, HeadKinds
<1>3. place \in Nat /\ DOMAIN Ms = 1..Len(Ms) /\ Len(Ms) \in Nat
  BY <1>2, MsFacts, AnswerShape
<1>4. LinesFollow(Ms)
  BY <1>2, MsFacts DEF Answers
<1>5. m.at > 1 /\ InLines(Ms[m.at - 1])
  <2> HIDE DEF Ms
  <2>1. m.id \in {"line", "."}
    BY DEF LineIds
  <2> QED BY <1>2, <1>4, <2>1 DEF LinesFollow
<1>6. m.at - 1 \notin place + 1..m.at - 1
  <2>1. Ms[m.at - 1].id # "end"
    BY <1>5 DEF InLines
  <2> QED BY <1>2, <2>1
<1>7. m.at = place + 1
  BY <1>2, <1>3, <1>6
<1>8. (place + 1) - 1 = place
  BY <1>3
<1> QED BY <1>2, <1>3, <1>5, <1>7, <1>8

LEMMA Kinds2 ==
  ASSUME IInv, c.pversion = 2, in # <<>>, NEW m, m = Head(in), pc \notin FunctionPcs,
         NEW o \in V2!pqParseInput2(c, m)
  PROVE  o.act \in Acts /\ o.failed \in BOOLEAN /\ ParseKind(o, m)
<1>0. TypeOK /\ StreamInv /\ ConnInv /\ LinesInv /\ NextRowInv
  BY DEF IInv, RowsInv
<1>1. c \in Connections /\ m.stmt \in Nat /\ m \in Messages /\ c.async \in AsyncStates
  BY <1>0, HeadKinds DEF TypeOK, Connections
<1>2. m.at = 0 <=> m.id \in {"A", "N", "S"}
  BY <1>0, HeadKinds
<1>3. m.at = 0 => m.id # "S"
  BY <1>0, HeadKinds
<1>4. c.async # "COPY_BOTH"
  BY <1>0 DEF ConnInv
<1> DEFINE Goal == o.act \in Acts /\ o.failed \in BOOLEAN /\ ParseKind(o, m)
<1>5. ASSUME NEW d, NEW act \in Acts, o = [c |-> d, act |-> act, failed |-> FALSE], Ignored(d, m, act) PROVE Goal
  BY <1>5 DEF ParseKind, Kind
<1>6. Same(c) /\ KeepsResult(c) /\ KeepsPlace(c)
  BY <1>1, KeepsConnection
<1>7. CASE c.async = "COPY_OUT" \/ (c.async \in {"READY", "COPY_IN"} /\ m.id \notin {"A", "N"})
  <2>1. o = [c |-> c, act |-> "stay", failed |-> FALSE]
    BY <1>7 DEF V2!pqParseInput2, V2!Stays, V2!Outcome
  <2>2. Ignored(c, m, "stay")
    BY <1>6 DEF Ignored
  <2> QED BY <1>5, <2>1, <2>2 DEF Acts
<1>8. CASE c.async # "COPY_OUT" /\ m.id \in {"A", "N"}
  <2>1. PICK k \in Nat, f \in BOOLEAN : o = [c |-> [c EXCEPT !.notifies = k], act |-> "next", failed |-> f]
    <3>1. c.notifies \in Nat /\ c.notifies + 1 \in Nat /\ c = [c EXCEPT !.notifies = c.notifies]
      BY <1>1 DEF Connections
    <3>2. CASE m.id = "A"
      <4>1. o \in V2!getNotify(c)
        BY <1>8, <3>2 DEF V2!pqParseInput2
      <4>2. \/ o = [c |-> [c EXCEPT !.notifies = c.notifies + 1], act |-> "next", failed |-> FALSE]
            \/ o = [c |-> c, act |-> "next", failed |-> TRUE]
        BY <4>1 DEF V2!getNotify, V2!Took, V2!Outcome, V2!Failed
      <4> QED BY <3>1, <4>2
    <3>3. CASE m.id = "N"
      <4>1. o = [c |-> c, act |-> "next", failed |-> FALSE]
        BY <1>8, <3>3 DEF V2!pqParseInput2, V2!Took, V2!Outcome
      <4> QED BY <3>1, <4>1
    <3> QED BY <1>8, <3>2, <3>3
  <2> DEFINE d == [c EXCEPT !.notifies = k]
  <2>2. o.c = d /\ o.act = "next" /\ o.failed \in BOOLEAN
    BY <2>1
  <2>3. Same(d) /\ KeepsResult(d) /\ KeepsPlace(d) /\ d.async = c.async
    BY <1>1, KeepsConnection
  <2> HIDE DEF d
  <2>4. Ignored(o.c, m, o.act)
    BY <1>2, <1>8, <2>2, <2>3 DEF Ignored
  <2> QED BY <2>2, <2>4 DEF ParseKind, Kind, Acts
<1>9. CASE c.async = "IDLE" /\ m.id \notin {"A", "N"}
  <2>1. \/ o = [c |-> c, act |-> "next", failed |-> FALSE]
        \/ o = [c |-> c, act |-> "drop", failed |-> FALSE]
    BY <1>9 DEF V2!pqParseInput2, V2!Took, V2!Outcome
  <2>2. Ignored(c, m, "next") /\ Ignored(c, m, "drop")
    BY <1>6, <1>9 DEF Ignored
  <2> QED BY <1>5, <2>1, <2>2 DEF Acts
<1>10. CASE c.async = "BUSY" /\ m.id \notin {"A", "N"}
  <2>1. o \in V2!Busy2(c, m) /\ m.at # 0
    BY <1>2, <1>3, <1>10 DEF V2!pqParseInput2
  <2>2. ~RowWaits /\ c.next_result = NULL /\ Filling = c.result /\ (c.result = NULL \/ Is(c.result, "TUPLES_OK"))
    BY <1>0, <1>10, BusyResult DEF ConnInv
  <2>3. c.ok /\ c.class # "DESCRIBE" /\ (m.id = "Z" \/ m.id \in KnownIds(2))
    BY <1>0, <1>10, <2>1, BusyKinds
  <2>4. CASE m.id \in {"C", "I"}
    <3>1. Plain(m) /\ m.id # "T"
      BY <2>4 DEF Plain, IsRow, InLines
    <3>2. o \in V2!Completes(c, m, "COMMAND_OK") \/ o \in V2!Completes(c, m, "EMPTY_QUERY")
      BY <2>1, <2>4 DEF V2!Busy2
    <3> QED BY <1>0, <1>1, <1>10, <2>1, <3>1, <3>2, CompletesKinds
  <2>5. CASE m.id = "E"
    <3>1. o = V2!Took(V2!Ready(V2!ErrorReceived(c, m)))
      BY <2>1, <2>5 DEF V2!Busy2
    <3> QED BY <1>0, <1>1, <1>10, <2>1, <2>5, <3>1, ErrorKinds
  <2>6. CASE m.id = "Z"
    <3> DEFINE d == [c EXCEPT !.async = "IDLE"]
    <3>1. o = [c |-> d, act |-> "next", failed |-> FALSE]
      BY <2>1, <2>6 DEF V2!Busy2, V2!Took, V2!Outcome
    <3>2. Same(d) /\ KeepsResult(d) /\ KeepsPlace(d) /\ d.async = "IDLE"
      BY <1>1, KeepsConnection DEF AsyncStates
    <3> HIDE DEF d
    <3>3. AnswerEnds(d, m, "next")
      BY <1>10, <2>6, <3>2 DEF AnswerEnds
    <3> QED BY <3>1, <3>3 DEF ParseKind, Kind, Acts
  <2>7. CASE m.id \in {"K", "P"}
    <3>1. o = [c |-> c, act |-> "next", failed |-> FALSE]
      BY <2>1, <2>7 DEF V2!Busy2, V2!Took, V2!Outcome
    <3>2. Ignored(c, m, "next")
      BY <1>6, <1>10, <2>7 DEF Ignored, Plain, IsRow, InLines
    <3> QED BY <1>5, <3>1, <3>2 DEF Acts
  <2>8. CASE m.id = "T" /\ c.result = NULL
    <3>1. o \in V2!getRowDescriptions(c, m)
      BY <2>1, <2>8 DEF V2!Busy2
    <3>2. o = V2!Took([c EXCEPT !.result = V2!NewResult("TUPLES_OK", m.stmt)]) \/ o = V2!RowsLost(c, m)
      BY <3>1 DEF V2!getRowDescriptions
    <3> QED BY <1>0, <1>1, <1>10, <2>1, <2>2, <2>3, <2>8, <3>2, DescribedKind, RowsLostKind
  <2>9. CASE m.id = "T" /\ c.result # NULL
    <3> DEFINE d == [c EXCEPT !.async = "READY"]
    <3>1. o = [c |-> d, act |-> "stay", failed |-> FALSE]
      BY <2>1, <2>9 DEF V2!Busy2, V2!Stays, V2!Outcome, V2!Ready
    <3>2. Same(d) /\ KeepsResult(d) /\ KeepsPlace(d) /\ d.async = "READY"
      BY <1>1, KeepsConnection DEF AsyncStates
    <3> HIDE DEF d
    <3>3. Finished(d, m, "stay")
      BY <1>10, <2>1, <2>9, <3>2 DEF Finished, IsRow
    <3> QED BY <3>1, <3>3 DEF ParseKind, Kind, Acts
  <2>10. CASE m.id \in {"D", "B"} /\ c.result # NULL
    <3>1. o \in V2!getAnotherTuple(c, m)
      BY <2>1, <2>10 DEF V2!Busy2
    <3>2. o = V2!Took(V2!pqRowProcessor(c, m.n)) \/ o = V2!RowsLost(c, m)
      BY <3>1 DEF V2!getAnotherTuple
    <3>3. IsRow(m) /\ Is(c.result, "TUPLES_OK")
      BY <2>2, <2>10 DEF IsRow
    <3> QED BY <1>0, <1>1, <1>10, <2>1, <3>2, <3>3, RowKinds, RowsLostKind
  <2>11. CASE m.id \in {"D", "B"} /\ c.result = NULL
    <3>1. o = [c |-> c, act |-> "drop", failed |-> FALSE]
      BY <2>1, <2>11 DEF V2!Busy2, V2!Outcome
    <3>2. IsRow(m)
      BY <2>11 DEF IsRow
    <3>3. place < Len(Ms) /\ IsRow(Ms[place + 1])
      BY <1>0, <2>1, <3>2, HeadRow
    <3>4. OutOfStep
      BY <1>0, <2>2, <2>3, <2>11, <3>3 DEF NextRowInv, Is
    <3>5. Ignored(c, m, "drop")
      BY <1>6, <1>10, <2>11, <3>4 DEF Ignored
    <3> QED BY <1>5, <3>1, <3>5 DEF Acts
  <2>12. CASE m.id \in {"G", "H"}
    <3> DEFINE d == [c EXCEPT !.async = IF m.id = "G" THEN "COPY_IN" ELSE "COPY_OUT"]
    <3>1. o = [c |-> d, act |-> "next", failed |-> FALSE]
      BY <2>1, <2>12 DEF V2!Busy2, V2!Took, V2!Outcome
    <3>2. Same(d) /\ KeepsResult(d) /\ KeepsPlace(d) /\ d.async = IF m.id = "G" THEN "COPY_IN" ELSE "COPY_OUT"
      <4>1. (IF m.id = "G" THEN "COPY_IN" ELSE "COPY_OUT") \in AsyncStates
        BY DEF AsyncStates, CopyStates
      <4> QED BY <1>1, <4>1, KeepsConnection
    <3> HIDE DEF d
    <3>3. CopyBegun(d, m, "next")
      BY <1>10, <2>1, <2>12, <3>2 DEF CopyBegun, KeepsResult, KeepsPlace
    <3> QED BY <3>1, <3>3 DEF ParseKind, Kind, Acts
  <2>13. CASE m.id \in {"line", "."}
    <3> DEFINE e == V2!pqSaveErrorResult(c, m.stmt)
               d == [e EXCEPT !.async = "READY"]
    <3>1. o = [c |-> d, act |-> "drop", failed |-> FALSE]
      BY <2>1, <2>13 DEF V2!Busy2, V2!Outcome, V2!Ready
    <3>2. /\ e \in Connections /\ Is(e.result, "FATAL_ERROR")
          /\ IF IsError(c.result) THEN e = c
             ELSE /\ e.result = NewResult("FATAL_ERROR", m.stmt) /\ e.next_result = NULL
                  /\ e.pversion = c.pversion /\ e.class = c.class /\ e.single = c.single /\ e.ok = c.ok
                  /\ e.copy_already_done = c.copy_already_done /\ e.async = c.async
      BY <1>1, SaveError
    <3> HIDE DEF e
    <3>3. Same(d) /\ KeepsPlace(d) /\ d.async = "READY" /\ d.result = e.result /\ d.next_result = NULL
      BY <1>1, <2>2, <3>2 DEF Connections, Same, KeepsPlace, AsyncStates
    <3> HIDE DEF d
    <3>4. place > 0 /\ InLines(Ms[place])
      BY <1>0, <2>13, HeadLine DEF LineIds
    <3>5. OutOfStep
      BY <1>0, <1>10, <2>3, <3>4 DEF LinesInv
    <3>6. Refused(d, m, "drop", FALSE)
      BY <1>10, <2>1, <3>2, <3>3, <3>5 DEF Refused, NewResult, KeepsPlace
    <3> QED BY <3>1, <3>6 DEF ParseKind, Kind, Acts
  <2>14. m.id \in {"C", "I", "E", "Z", "K", "P", "T", "D", "B", "G", "H", "line", "."}
    <3>1. m.id # "end"
      BY <1>0, HeadKinds
    <3> QED BY <2>3, <3>1 DEF KnownIds
  <2> QED BY <2>4, <2>5, <2>6, <2>7, <2>8, <2>9, <2>10, <2>11, <2>12, <2>13, <2>14
<1> QED BY <1>1, <1>4, <1>7, <1>8, <1>9, <1>10 DEF AsyncStates, CopyStates

\* The connection is given up.
LEMMA LossKind ==
  ASSUME TypeOK, ConnInv, c.pversion = 3, NEW m \in Messages, m.form = "huge",
         NEW o, o = V3!handleSyncLoss(c, m)
  PROVE  /\ o.act = "lost" /\ o.failed = FALSE /\ Refused(o.c, m, o.act, o.failed)
         /\ o.c.async = "READY" /\ ~o.c.ok /\ Same(o.c)
<1>1. c \in Connections /\ m.stmt \in Nat
  BY DEF TypeOK, Messages
<1> DEFINE e == V3!pqSaveErrorResult(c, m.stmt)
           d == [[e EXCEPT !.async = "READY"] EXCEPT !.ok = FALSE]
<1>2. o = [c |-> d, act |-> "lost", failed |-> FALSE]
  BY DEF V3!handleSyncLoss, V3!Outcome, V3!Ready
<1>3. /\ e \in Connections /\ Is(e.result, "FATAL_ERROR")
      /\ IF IsError(c.result) THEN e = c
         ELSE /\ e.result = NewResult("FATAL_ERROR", m.stmt) /\ e.next_result = NULL
              /\ e.pversion = c.pversion /\ e.class = c.class /\ e.single = c.single /\ e.ok = c.ok
              /\ e.copy_already_done = c.copy_already_done /\ e.async = c.async
  BY <1>1, SaveError
<1>4. e.next_result = NULL
  <2>1. IsError(c.result) => ~RowWaits
    BY DEF IsError, RowWaits, Is
  <2> HIDE DEF e
  <2> QED BY <1>3, <2>1 DEF ConnInv
<1> HIDE DEF e
<1>5. /\ Same(d) /\ d.async = "READY" /\ ~d.ok /\ d.result = e.result /\ d.next_result = NULL
      /\ d.copy_already_done = c.copy_already_done
  BY <1>1, <1>3, <1>4 DEF Connections, Same, AsyncStates
<1> HIDE DEF d
<1>6. o.c = d /\ o.act = "lost" /\ o.failed = FALSE
  BY <1>2
<1>7. Refused(o.c, m, o.act, o.failed)
  BY <1>3, <1>5, <1>6 DEF Refused, NewResult
<1> QED BY <1>5, <1>6, <1>7

\* An error takes the place of the result.
LEMMA RefusedKind ==
  ASSUME TypeOK, c.async = "BUSY", c.pversion = 3, NEW m \in Messages, m.at # 0, NEW failed \in BOOLEAN,
         failed \/ m.form # "ok", NEW o, o = [c |-> V3!RowsRefused(c, m), act |-> "next", failed |-> failed]
  PROVE  o.act \in Acts /\ o.failed \in BOOLEAN /\ ParseKind(o, m)
<1>1. c \in Connections /\ m.stmt \in Nat
  BY DEF TypeOK, Messages
<1> DEFINE b == [c EXCEPT !.result = NULL, !.next_result = NULL]
           d == V3!pqSaveErrorResult(b, m.stmt)
<1>2. o.c = d /\ o.act = "next" /\ o.failed = failed
  BY DEF V3!RowsRefused, V3!pqClearAsyncResult
<1>3. /\ b \in Connections /\ ~IsError(b.result) /\ b.pversion = c.pversion /\ b.class = c.class
      /\ b.single = c.single /\ b.ok = c.ok /\ b.copy_already_done = c.copy_already_done /\ b.async = c.async
  BY <1>1 DEF Connections, IsError
<1> HIDE DEF b
<1>4. /\ d \in Connections /\ Is(d.result, "FATAL_ERROR")
      /\ d.result = NewResult("FATAL_ERROR", m.stmt) /\ d.next_result = NULL
      /\ d.pversion = c.pversion /\ d.class = c.class /\ d.single = c.single /\ d.ok = c.ok
      /\ d.copy_already_done = c.copy_already_done /\ d.async = c.async
  BY <1>1, <1>3, SaveError
<1> HIDE DEF d
<1>5. Refused(o.c, m, o.act, o.failed)
  BY <1>2, <1>4 DEF Refused, NewResult, Same
<1> QED BY <1>2, <1>5 DEF ParseKind, Kind, Acts

\* A copy starts.
LEMMA CopyKinds3 ==
  ASSUME TypeOK, ConnInv, c.async = "BUSY", c.pversion = 3, NEW m \in Messages, m.at # 0,
         NEW status, \/ m.id = "G" /\ status = "COPY_IN"
                     \/ m.id = "H" /\ status = "COPY_OUT"
                     \/ m.id = "W" /\ status = "COPY_BOTH",
         NEW o \in V3!getCopyStart(c, m, status)
  PROVE  o.act \in {"next", "stay"} /\ o.failed \in BOOLEAN /\ ParseKind(o, m)
<1>1. c \in Connections /\ m.stmt \in Nat
  BY DEF TypeOK, Messages
<1> DEFINE r == NewResult(status, m.stmt)
           d == [c EXCEPT !.result = r, !.async = status,
                          !.copy_already_done = IF status = "COPY_IN" THEN @ ELSE 0]
<1>2. o = [c |-> d, act |-> "next", failed |-> FALSE] \/ o = [c |-> c, act |-> "stay", failed |-> TRUE]
  BY DEF V3!getCopyStart, V3!Took, V3!Outcome, V3!Failed, V3!NewResult, NewResult
<1>3. CASE o = [c |-> d, act |-> "next", failed |-> FALSE]
  <2>1. r \in Results /\ status \in AsyncStates
    <3>1. status \in Statuses /\ status \in AsyncStates
      BY DEF Statuses, AsyncStates, CopyStates
    <3> QED BY <1>1, <3>1, ResultTypes
  <2>2. o.c = d /\ o.act = "next" /\ o.failed = FALSE
    BY <1>3
  <2> HIDE DEF r
  <2>3. /\ Same(d) /\ d.ok = c.ok /\ d.async = status /\ d.result = r /\ d.next_result = c.next_result
        /\ d.copy_already_done = IF status = "COPY_IN" THEN c.copy_already_done ELSE 0
    BY <1>1, <2>1 DEF Connections, Same
  <2> HIDE DEF d
  <2>4. CopyBegun(o.c, m, o.act)
    BY <2>2, <2>3 DEF CopyBegun, r
  <2> QED BY <2>2, <2>4 DEF ParseKind, Kind
<1>4. CASE o = [c |-> c, act |-> "stay", failed |-> TRUE]
  <2>1. o.c = c /\ o.act = "stay" /\ o.failed = TRUE
    BY <1>4
  <2>2. Ignored(o.c, m, o.act)
    BY <1>1, <2>1, KeepsConnection DEF Ignored
  <2> QED BY <2>1, <2>2 DEF ParseKind, Kind
<1> QED BY <1>2, <1>3, <1>4

LEMMA DescriptionKinds3 ==
  ASSUME TypeOK, ConnInv, c.async = "BUSY", c.pversion = 3, NEW m \in Messages, m.at # 0, m.id = "T",
         c.result = NULL \/ (c.class = "DESCRIBE" /\ ~IsError(c.result)),
         NEW o \in V3!getRowDescriptions(c, m)
  PROVE  o.act = "next" /\ o.failed \in BOOLEAN /\ ParseKind(o, m)
<1>1. c \in Connections /\ m.stmt \in Nat /\ c.next_result = NULL
  BY BusyResult DEF TypeOK, Messages
<1>2. CASE o = [c |-> V3!RowsRefused(c, m), act |-> "next", failed |-> TRUE] \/
           (m.form # "ok" /\ o = [c |-> V3!RowsRefused(c, m), act |-> "next", failed |-> FALSE])
  <2>1. PICK f \in BOOLEAN : /\ f \/ m.form # "ok"
                             /\ o = [c |-> V3!RowsRefused(c, m), act |-> "next", failed |-> f]
    BY <1>2
  <2>2. o.act = "next"
    BY <2>1
  <2> QED BY <2>1, <2>2, RefusedKind
<1>3. CASE c.class = "DESCRIBE" /\ c.result # NULL /\ o = V3!Took(V3!Ready([c EXCEPT !.result = c.result]))
  <2> DEFINE d == [c EXCEPT !.async = "READY"]
  <2>1. [c EXCEPT !.result = c.result] = c
    BY <1>1 DEF Connections
  <2>2. o = [c |-> d, act |-> "next", failed |-> FALSE]
    BY <1>3, <2>1 DEF V3!Took, V3!Outcome, V3!Ready
  <2>3. Same(d) /\ KeepsResult(d) /\ KeepsPlace(d) /\ d.async = "READY"
    BY <1>1, KeepsConnection DEF AsyncStates
  <2> HIDE DEF d
  <2>4. Finished(d, m, "next")
    BY <1>3, <2>3 DEF Finished, Plain, IsRow
  <2> QED BY <2>2, <2>4 DEF ParseKind, Kind
<1>4. CASE c.class = "DESCRIBE" /\ c.result = NULL
           /\ o = V3!Took(V3!Ready([c EXCEPT !.result = V3!NewResult("COMMAND_OK", m.stmt)]))
  <2> DEFINE r == NewResult("COMMAND_OK", m.stmt)
             d == [[c EXCEPT !.result = r] EXCEPT !.async = "READY"]
  <2>1. r \in Results /\ r # NULL /\ r.status = "COMMAND_OK" /\ r.rows = <<>>
    <3>1. "COMMAND_OK" \in Statuses
      BY DEF Statuses
    <3> QED BY <1>1, <3>1, ResultTypes DEF NewResult
  <2>2. o = [c |-> d, act |-> "next", failed |-> FALSE]
    BY <1>4 DEF V3!Took, V3!Outcome, V3!Ready, V3!NewResult, NewResult
  <2> HIDE DEF r
  <2>3. Same(d) /\ KeepsPlace(d) /\ d.async = "READY" /\ d.result = r /\ d.next_result = NULL
    BY <1>1, <2>1 DEF Connections, Same, KeepsPlace, AsyncStates
  <2> HIDE DEF d
  <2>4. Made(d, m, "next")
    BY <1>4, <2>1, <2>3 DEF Made, Plain, IsRow
  <2> QED BY <2>2, <2>4 DEF ParseKind, Kind
<1>5. CASE c.class # "DESCRIBE" /\ o = V3!Took([c EXCEPT !.result = V3!NewResult("TUPLES_OK", m.stmt)])
  <2>1. o.act = "next"
    BY <1>5 DEF V3!Took, V3!Outcome
  <2> QED BY <1>1, <1>5, <2>1, DescribedKind
<1> QED BY <1>2, <1>3, <1>4, <1>5 DEF V3!getRowDescriptions, V3!Failed, V3!Took, V3!Outcome

\* A message whose contents are too short is left.
LEMMA StarvedKind ==
  ASSUME TypeOK, NEW m \in Messages, NEW o \in V3!Starved(c, m)
  PROVE  o.act = "stay" /\ o.failed = FALSE /\ ParseKind(o, m)
<1>1. o.c = c /\ o.act = "stay" /\ o.failed = FALSE
  BY DEF V3!Starved, V3!Stays, V3!Outcome
<1>2. Ignored(o.c, m, o.act)
  BY <1>1, KeepsConnection DEF Ignored, TypeOK
<1> QED BY <1>1, <1>2 DEF ParseKind, Kind

LEMMA ParameterKinds3 ==
  ASSUME TypeOK, ConnInv, c.async = "BUSY", c.pversion = 3, NEW m \in Messages, m.at # 0, m.id = "t",
         NEW o \in V3!getParamDescriptions(c, m)
  PROVE  o.act \in {"next", "stay"} /\ o.failed \in BOOLEAN /\ ParseKind(o, m)
<1>1. c \in Connections /\ m.stmt \in Nat /\ c.next_result = NULL
  BY BusyResult DEF TypeOK, Messages
<1>2. CASE o = [c |-> V3!RowsRefused(c, m), act |-> "next", failed |-> TRUE] \/
           (m.form # "ok" /\ o = [c |-> V3!RowsRefused(c, m), act |-> "next", failed |-> FALSE])
  <2>1. PICK f \in BOOLEAN : /\ f \/ m.form # "ok"
                             /\ o = [c |-> V3!RowsRefused(c, m), act |-> "next", failed |-> f]
    BY <1>2
  <2>2. o.act = "next"
    BY <2>1
  <2> QED BY <2>1, <2>2, RefusedKind
<1>3. CASE o = V3!Took([c EXCEPT !.result = V3!NewResult("COMMAND_OK", m.stmt)])
  <2> DEFINE r == NewResult("COMMAND_OK", m.stmt)
             d == [c EXCEPT !.result = r]
  <2>1. r \in Results /\ r # NULL /\ r.status = "COMMAND_OK" /\ r.rows = <<>>
    <3>1. "COMMAND_OK" \in Statuses
      BY DEF Statuses
    <3> QED BY <1>1, <3>1, ResultTypes DEF NewResult
  <2>2. o = [c |-> d, act |-> "next", failed |-> FALSE]
    BY <1>3 DEF V3!Took, V3!Outcome, V3!NewResult, NewResult
  <2> HIDE DEF r
  <2>3. Same(d) /\ KeepsPlace(d) /\ d.async = "BUSY" /\ d.result = r /\ d.next_result = NULL
    BY <1>1, <2>1 DEF Connections, Same, KeepsPlace
  <2> HIDE DEF d
  <2>4. Made(d, m, "next")
    BY <2>1, <2>3 DEF Made, Plain, IsRow
  <2> QED BY <2>2, <2>4 DEF ParseKind, Kind
<1>4. CASE o \in V3!Starved(c, m)
  BY <1>4, StarvedKind
<1> QED BY <1>2, <1>3, <1>4 DEF V3!getParamDescriptions, V3!Failed, V3!Took, V3!Outcome

LEMMA TupleKinds3 ==
  ASSUME TypeOK, ConnInv, c.async = "BUSY", c.pversion = 3, NEW m \in Messages, m.at # 0, IsRow(m),
         Is(c.result, "TUPLES_OK"), NEW o \in V3!getAnotherTuple(c, m)
  PROVE  o.act = "next" /\ o.failed \in BOOLEAN /\ ParseKind(o, m)
<1>2. CASE o = [c |-> V3!RowsRefused(c, m), act |-> "next", failed |-> TRUE] \/
           (m.form # "ok" /\ o = [c |-> V3!RowsRefused(c, m), act |-> "next", failed |-> FALSE])
  <2>1. PICK f \in BOOLEAN : /\ f \/ m.form # "ok"
                             /\ o = [c |-> V3!RowsRefused(c, m), act |-> "next", failed |-> f]
    BY <1>2
  <2>2. o.act = "next"
    BY <2>1
  <2> QED BY <2>1, <2>2, RefusedKind
<1>3. CASE o = V3!Took(V3!pqRowProcessor(c, m.n))
  <2>1. o.act = "next"
    BY <1>3 DEF V3!Took, V3!Outcome
  <2> QED BY <1>3, <2>1, RowKinds
<1> QED BY <1>2, <1>3 DEF V3!getAnotherTuple, V3!Failed, V3!Took, V3!Outcome

LEMMA BusyKinds3 ==
  ASSUME IInv, c.pversion = 3, in # <<>>, NEW m, m = Head(in), c.async = "BUSY",
         m.id \notin {"A", "N"}, NEW o \in V3!Busy3(c, m)
  PROVE  o.act \in {"next", "stay"} /\ o.failed \in BOOLEAN /\ ParseKind(o, m)
<1>0. TypeOK /\ StreamInv /\ ConnInv /\ NextRowInv
  BY DEF IInv, RowsInv
<1>1. c \in Connections /\ m.stmt \in Nat /\ m \in Messages /\ m.id # "end"
  BY <1>0, HeadKinds DEF TypeOK
<1>2. m.at = 0 <=> m.id = "S"
  BY <1>0, HeadKinds
<1>3. /\ c.ok /\ (m.at # 0 => m.id = "Z" \/ m.id \in KnownIds(3))
      /\ c.next_result = NULL /\ Filling = c.result /\ ~RowWaits
      /\ IsError(c.result) <=> Is(c.result, "FATAL_ERROR")
  BY <1>0, BusyKinds, BusyResult
<1> DEFINE Goal == o.act \in {"next", "stay"} /\ o.failed \in BOOLEAN /\ ParseKind(o, m)
<1>4. Same(c) /\ KeepsResult(c) /\ KeepsPlace(c)
  BY <1>1, KeepsConnection
<1>5. ASSUME o = V3!Took(c), (Plain(m) /\ m.id # "T") \/ m.at = 0 \/ IsError(c.result) PROVE Goal
  <2>1. o = [c |-> c, act |-> "next", failed |-> FALSE]
    BY <1>5 DEF V3!Took, V3!Outcome
  <2>2. Ignored(c, m, "next")
    BY <1>4, <1>5 DEF Ignored
  <2> QED BY <2>1, <2>2 DEF ParseKind, Kind
<1>6. ASSUME NEW status \in {"COMMAND_OK", "EMPTY_QUERY"}, o \in V3!Completes(c, m, status),
             Plain(m), m.id # "T", m.at # 0
      PROVE  Goal
  <2>1. o.act \in Acts /\ o.failed \in BOOLEAN /\ ParseKind(o, m)
    BY <1>0, <1>1, <1>6, CompletesKinds
  <2>2. o.act = "next"
    BY <1>6 DEF V3!Completes, V3!Took, V3!Outcome, V3!Failed
  <2> QED BY <2>1, <2>2
<1>7. CASE m.id = "C" \/ m.id = "I" \/ (m.id = "1" /\ c.class = "PREPARE") \/ (m.id = "n" /\ c.class = "DESCRIBE")
  <2>1. \E status \in {"COMMAND_OK", "EMPTY_QUERY"} : o \in V3!Completes(c, m, status)
    BY <1>7 DEF V3!Busy3
  <2>2. Plain(m) /\ m.id # "T" /\ m.at # 0
    BY <1>2, <1>7 DEF Plain, IsRow, InLines
  <2> QED BY <1>6, <2>1, <2>2
<1>8. CASE m.id \in {"2", "3", "S", "K", "d", "c"} \/ (m.id = "1" /\ c.class # "PREPARE")
           \/ (m.id = "n" /\ c.class # "DESCRIBE")
  <2>1. o = V3!Took(c)
    BY <1>8 DEF V3!Busy3
  <2>2. Plain(m) /\ m.id # "T"
    BY <1>8 DEF Plain, IsRow, InLines
  <2> QED BY <1>5, <2>1, <2>2
<1>9. CASE m.id = "E"
  <2>1. o = V3!Took(V3!Ready(V3!ErrorReceived(c, m)))
    BY <1>9 DEF V3!Busy3
  <2>2. o.act = "next"
    BY <2>1 DEF V3!Took, V3!Outcome
  <2> QED BY <1>0, <1>1, <1>2, <1>9, <2>1, <2>2, ErrorKinds
<1>10. CASE m.id = "Z"
  <2> DEFINE d == [c EXCEPT !.async = "IDLE"]
  <2>1. o = [c |-> d, act |-> "next", failed |-> FALSE]
    BY <1>10 DEF V3!Busy3, V3!Took, V3!Outcome
  <2>2. Same(d) /\ KeepsResult(d) /\ KeepsPlace(d) /\ d.async = "IDLE"
    BY <1>1, KeepsConnection DEF AsyncStates
  <2> HIDE DEF d
  <2>3. AnswerEnds(d, m, "next")
    BY <1>10, <2>2 DEF AnswerEnds
  <2> QED BY <2>1, <2>3 DEF ParseKind, Kind
<1>11. CASE m.id \in {"T", "D"} /\ IsError(c.result)
  <2>1. V3!IsError(c.result) <=> IsError(c.result)
    BY DEF V3!IsError, IsError
  <2>2. o = V3!Took(c)
    <3>1. c.result # NULL /\ c.result.status = "FATAL_ERROR"
      BY <1>11 DEF IsError
    <3> QED BY <1>11, <2>1, <3>1 DEF V3!Busy3
  <2> QED BY <1>5, <1>11, <2>2
<1>12. CASE m.id = "T" /\ ~IsError(c.result) /\ (c.result = NULL \/ c.class = "DESCRIBE")
  <2>1. o \in V3!getRowDescriptions(c, m)
    BY <1>12 DEF V3!Busy3, V3!IsError, IsError
  <2> QED BY <1>0, <1>1, <1>2, <1>12, <2>1, DescriptionKinds3
<1>13. CASE m.id = "T" /\ ~IsError(c.result) /\ c.result # NULL /\ c.class # "DESCRIBE"
  <2> DEFINE d == [c EXCEPT !.async = "READY"]
  <2>1. o = [c |-> d, act |-> "stay", failed |-> FALSE]
    BY <1>13 DEF V3!Busy3, V3!IsError, IsError, V3!Stays, V3!Outcome, V3!Ready
  <2>2. Same(d) /\ KeepsResult(d) /\ KeepsPlace(d) /\ d.async = "READY"
    BY <1>1, KeepsConnection DEF AsyncStates
  <2> HIDE DEF d
  <2>3. Finished(d, m, "stay")
    BY <1>2, <1>13, <2>2 DEF Finished, IsRow
  <2> QED BY <2>1, <2>3 DEF ParseKind, Kind
<1>14. CASE m.id = "t"
  <2>1. o \in V3!getParamDescriptions(c, m)
    BY <1>14 DEF V3!Busy3
  <2> QED BY <1>0, <1>1, <1>2, <1>14, <2>1, ParameterKinds3
<1>15. CASE m.id = "D" /\ ~IsError(c.result)
  <2>1. IsRow(m) /\ m.at # 0
    BY <1>2, <1>15 DEF IsRow
  <2>2. place < Len(Ms) /\ IsRow(Ms[place + 1])
    BY <1>0, <2>1, HeadRow
  <2>3. Is(c.result, "TUPLES_OK")
    BY <1>0, <1>3, <1>15, <2>2 DEF NextRowInv, OutOfStep
  <2>4. c.result # NULL /\ c.result.status = "TUPLES_OK" /\ ~V3!IsError(c.result)
    BY <2>3 DEF Is, V3!IsError
  <2>5. o \in V3!getAnotherTuple(c, m)
    BY <1>15, <2>4 DEF V3!Busy3
  <2> QED BY <1>0, <1>1, <2>1, <2>3, <2>5, TupleKinds3
<1>16. CASE m.id \in {"G", "H", "W"}
  <2>1. PICK status : /\ \/ m.id = "G" /\ status = "COPY_IN"
                         \/ m.id = "H" /\ status = "COPY_OUT"
                         \/ m.id = "W" /\ status = "COPY_BOTH"
                      /\ o \in V3!getCopyStart(c, m, status)
    BY <1>16 DEF V3!Busy3
  <2> QED BY <1>0, <1>1, <1>2, <1>16, <2>1, CopyKinds3
<1>17. CASE m.id = "?"
  <2> DEFINE e == V3!pqSaveErrorResult(c, m.stmt)
             d == [e EXCEPT !.async = "READY"]
  <2>1. o = [c |-> d, act |-> "next", failed |-> FALSE]
    BY <1>17 DEF V3!Busy3, V3!Took, V3!Outcome, V3!Ready
  <2>2. /\ e \in Connections /\ Is(e.result, "FATAL_ERROR")
        /\ IF IsError(c.result) THEN e = c
           ELSE /\ e.result = NewResult("FATAL_ERROR", m.stmt) /\ e.next_result = NULL
                /\ e.pversion = c.pversion /\ e.class = c.class /\ e.single = c.single /\ e.ok = c.ok
                /\ e.copy_already_done = c.copy_already_done /\ e.async = c.async
    <3>1. e = V3!pqSaveErrorResult(c, m.stmt)
      OBVIOUS
    <3> HIDE DEF d, e
    <3> QED BY <1>1, <3>1, SaveError
  <2> HIDE DEF e
  <2>3. Same(d) /\ KeepsPlace(d) /\ d.async = "READY" /\ d.result = e.result /\ d.next_result = NULL
    BY <1>1, <1>3, <2>2 DEF Connections, Same, KeepsPlace, AsyncStates
  <2> HIDE DEF d
  <2>4. Plain(m) /\ m.id # "T" /\ m.at # 0
    BY <1>2, <1>17 DEF Plain, IsRow, InLines
  <2>5. Refused(d, m, "next", FALSE)
    BY <1>17, <2>2, <2>3, <2>4 DEF Refused, NewResult, KeepsPlace
  <2> QED BY <2>1, <2>5 DEF ParseKind, Kind
<1>18. m.id \in {"S", "Z", "C", "E", "I", "K", "1", "2", "3", "n", "t", "T", "D", "G", "H", "W", "d", "c", "?"}
  BY <1>1, <1>2, <1>3 DEF KnownIds
<1> QED BY <1>7, <1>8, <1>9, <1>10, <1>11, <1>12, <1>13, <1>14, <1>15, <1>16, <1>17, <1>18

\* The contents of a message do not agree with its length.
LEMMA DisagreesKind ==
  ASSUME TypeOK, StreamInv, ConnInv, c.pversion = 3, in # <<>>, NEW m, m = Head(in), c.async = "BUSY",
         m.form # "ok", m.id \notin {"T", "t", "D"},
         NEW p, p.act \in {"next", "stay"}, ParseKind(p, m), NEW f \in BOOLEAN,
         NEW o, o.c = V3!Disagrees(p.c, m), o.act = p.act, o.failed = f
  PROVE  o.act \in Acts /\ o.failed \in BOOLEAN /\ ParseKind(o, m)
<1>1. m.stmt \in Nat /\ m.at # 0 /\ (m.id = "Z" \/ m.id \in KnownIds(3)) /\ c.ok
  BY HeadKinds, BusyKinds
<1>2. ~IsRow(m) /\ m.id # "T"
  BY <1>1 DEF IsRow, KnownIds
<1>3. c.next_result = NULL /\ (IsError(c.result) <=> Is(c.result, "FATAL_ERROR"))
  BY BusyResult
<1>4. /\ Same(p.c) /\ p.c.next_result = NULL /\ p.c.ok = c.ok
      /\ Is(p.c.result, "FATAL_ERROR") => p.c.result = c.result \/ p.c.result.stmt = m.stmt
  <2>1. CASE Ignored(p.c, m, p.act) \/ Finished(p.c, m, p.act) \/ AnswerEnds(p.c, m, p.act)
    BY <1>3, <2>1 DEF Ignored, Finished, AnswerEnds, KeepsResult, KeepsPlace
  <2>2. CASE Refused(p.c, m, p.act, p.failed)
    BY <2>2 DEF Refused
  <2>3. CASE Made(p.c, m, p.act)
    BY <2>3 DEF Made, KeepsPlace, Is
  <2>4. CASE Described(p.c, m, p.act) \/ RowAdded(p.c, m, p.act)
    BY <1>2, <2>4 DEF Described, RowAdded
  <2>5. CASE CopyBegun(p.c, m, p.act)
    <3>1. p.c.result = NewResult(p.c.async, m.stmt) /\ p.c.async # "FATAL_ERROR"
      BY <2>5 DEF CopyBegun
    <3> QED BY <1>3, <2>5, <3>1 DEF CopyBegun, NewResult
  <2> QED BY <2>1, <2>2, <2>3, <2>4, <2>5 DEF ParseKind, Kind
<1> DEFINE b == p.c
           e == V3!pqSaveErrorResult(b, m.stmt)
           d == [e EXCEPT !.async = "READY"]
<1>5. o.c = d
  BY DEF V3!Disagrees, V3!Ready
<1>6. b \in Connections
  BY <1>4 DEF Same
<1>b. /\ Same(b) /\ b.next_result = NULL /\ b.ok = c.ok
      /\ Is(b.result, "FATAL_ERROR") => b.result = c.result \/ b.result.stmt = m.stmt
  BY <1>4
<1> HIDE DEF b
<1>7. /\ e \in Connections /\ Is(e.result, "FATAL_ERROR")
      /\ IF IsError(b.result) THEN e = b
         ELSE /\ e.result = NewResult("FATAL_ERROR", m.stmt) /\ e.next_result = NULL
              /\ e.pversion = b.pversion /\ e.class = b.class /\ e.single = b.single /\ e.ok = b.ok
              /\ e.copy_already_done = b.copy_already_done /\ e.async = b.async
  BY <1>1, <1>6, SaveError
<1> HIDE DEF e
<1>8. IsError(b.result) => Is(b.result, "FATAL_ERROR")
  BY DEF IsError, Is
<1>9. e.next_result = NULL /\ e.ok = c.ok /\ Same(e) /\ (e.result = c.result \/ e.result.stmt = m.stmt)
  BY <1>b, <1>7, <1>8 DEF Same, NewResult
<1>10. Same(d) /\ d.ok = c.ok /\ d.async = "READY" /\ d.result = e.result /\ d.next_result = NULL
  BY <1>7, <1>9 DEF Connections, Same, AsyncStates
<1> HIDE DEF d
<1>11. Is(d.result, "FATAL_ERROR") /\ (d.result = c.result \/ d.result.stmt = m.stmt)
  BY <1>7, <1>9, <1>10
<1>12. (o.act = "next" /\ Plain(m)) \/ o.act = "stay"
  BY <1>2 DEF Plain
<1>13. m.form # "ok"
  OBVIOUS
<1>14. Refused(o.c, m, o.act, o.failed)
  <2> DEFINE oc == o.c
             oa == o.act
  <2>1. Same(oc) /\ oc.next_result = NULL /\ Is(oc.result, "FATAL_ERROR")
    BY <1>5, <1>10, <1>11
  <2>2. oc.result = c.result \/ (oc.result.stmt = m.stmt /\ m.form # "ok")
    BY <1>5, <1>11, <1>13
  <2>3. /\ c.async = "BUSY" /\ oc.ok = c.ok /\ m.at # 0 /\ oc.async = "READY"
        /\ (oa = "next" /\ Plain(m) /\ m.id # "T") \/ (oa = "stay" /\ ~IsRow(m))
    BY <1>1, <1>2, <1>5, <1>10, <1>12
  <2> HIDE DEF oc, oa
  <2>4. Refused(oc, m, oa, o.failed)
    BY <2>1, <2>2, <2>3 DEF Refused
  <2> QED BY <2>4 DEF oc, oa
<1> QED BY <1>12, <1>14 DEF ParseKind, Kind, Acts

\* Messages that come unasked.
LEMMA UnaskedKinds3 ==
  ASSUME TypeOK, StreamInv, in # <<>>, NEW m, m = Head(in), m.id \in {"A", "N", "S"},
         NEW o, o \in V3!getNotify(c) \/ o = V3!Took(c)
  PROVE  o.act \in {"next", "stay"} /\ o.failed \in BOOLEAN /\ Ignored(o.c, m, o.act)
<1>1. c \in Connections /\ m.at = 0
  BY HeadKinds DEF TypeOK
<1>2. PICK k \in Nat, act \in {"next", "stay"}, f \in BOOLEAN : o = [c |-> [c EXCEPT !.notifies = k], act |-> act, failed |-> f]
  <2>1. c.notifies \in Nat /\ c.notifies + 1 \in Nat /\ c = [c EXCEPT !.notifies = c.notifies]
    BY <1>1 DEF Connections
  <2>2. \/ o = [c |-> [c EXCEPT !.notifies = c.notifies + 1], act |-> "next", failed |-> FALSE]
        \/ o = [c |-> c, act |-> "next", failed |-> FALSE]
        \/ o = [c |-> c, act |-> "next", failed |-> TRUE]
        \/ o = [c |-> c, act |-> "stay", failed |-> TRUE]
    BY DEF V3!getNotify, V3!Took, V3!Outcome, V3!Failed
  <2> QED BY <2>1, <2>2
<1> DEFINE d == [c EXCEPT !.notifies = k]
<1>3. Same(d) /\ KeepsResult(d) /\ KeepsPlace(d) /\ d.async = c.async
  BY <1>1, KeepsConnection
<1>4. o.c = d /\ o.act = act /\ o.failed \in BOOLEAN
  BY <1>2
<1> HIDE DEF d
<1>5. Ignored(o.c, m, o.act)
  BY <1>1, <1>3, <1>4 DEF Ignored
<1> QED BY <1>4, <1>5

LEMMA Kinds3 ==
  ASSUME IInv, c.pversion = 3, in # <<>>, NEW m, m = Head(in), pc \notin FunctionPcs,
         NEW o \in V3!pqParseInput3(c, m)
  PROVE  o.act \in Acts /\ o.failed \in BOOLEAN /\ ParseKind(o, m)
<1>0. TypeOK /\ StreamInv /\ ConnInv
  BY DEF IInv
<1>1. c \in Connections /\ m \in Messages /\ m.form \in {"ok", "bad", "short", "huge"}
  BY <1>0, HeadKinds DEF TypeOK
<1>2. Same(c) /\ KeepsResult(c) /\ KeepsPlace(c)
  BY <1>1, KeepsConnection
<1>3. CASE m.form = "huge"
  <2>1. o = V3!handleSyncLoss(c, m)
    BY <1>3 DEF V3!pqParseInput3
  <2> QED BY <1>0, <1>1, <1>3, <2>1, LossKind DEF ParseKind, Kind, Acts
<1>4. CASE m.form # "huge" /\ m.id \in {"A", "N"}
  <2>1. o \in V3!getNotify(c) \/ o = V3!Took(c)
    BY <1>4 DEF V3!pqParseInput3
  <2>2. o.act \in {"next", "stay"} /\ o.failed \in BOOLEAN /\ Ignored(o.c, m, o.act)
    BY <1>0, <1>4, <2>1, UnaskedKinds3
  <2> QED BY <2>2 DEF ParseKind, Kind, Acts
<1>5. CASE m.form # "huge" /\ m.id \notin {"A", "N"} /\ c.async = "IDLE"
  <2>1. o = [c |-> c, act |-> "next", failed |-> FALSE]
    BY <1>5 DEF V3!pqParseInput3, V3!Idle3, V3!Took, V3!Outcome
  <2>2. Ignored(c, m, "next")
    BY <1>2, <1>5 DEF Ignored
  <2> QED BY <2>1, <2>2 DEF ParseKind, Kind, Acts
<1>6. CASE m.form # "huge" /\ m.id \notin {"A", "N"} /\ c.async = "BUSY"
  <2>1. o \in V3!Checked(c, m, V3!Busy3(c, m))
    BY <1>6 DEF V3!pqParseInput3
  <2>2. CASE m.form # "ok" /\ m.id \notin {"T", "t", "D"} /\ o \notin V3!Starved(c, m)
    <3>1. PICK p \in V3!Busy3(c, m) : o = [p EXCEPT !.c = V3!Disagrees(p.c, m)]
      BY <2>1, <2>2 DEF V3!Checked
    <3>2. p.act \in {"next", "stay"} /\ p.failed \in BOOLEAN /\ ParseKind(p, m)
      BY <1>6, BusyKinds3
    <3>3. \E d, act, f : p = [c |-> d, act |-> act, failed |-> f]
      <4>1. \A x \in V3!Busy3(c, m) : \E d, act, f : x = [c |-> d, act |-> act, failed |-> f]
        <5> DEFINE R(x) == \E d, act, f : x = [c |-> d, act |-> act, failed |-> f]
        <5>1. \A d : R(V3!Took(d)) /\ R(V3!Stays(d)) /\ \A act : R(V3!Failed(d, act))
          BY DEF V3!Took, V3!Stays, V3!Failed, V3!Outcome
        <5>2. \A status : \A x \in V3!Completes(c, m, status) : R(x)
          <6> HIDE DEF R
          <6> QED BY <5>1 DEF V3!Completes
        <5>3. \A x \in V3!getRowDescriptions(c, m) : R(x)
          <6> HIDE DEF R
          <6> QED BY <5>1 DEF V3!getRowDescriptions
        <5>4. \A x \in V3!getParamDescriptions(c, m) : R(x)
          <6> HIDE DEF R
          <6> QED BY <5>1 DEF V3!getParamDescriptions, V3!Starved
        <5>5. \A x \in V3!getAnotherTuple(c, m) : R(x)
          <6> HIDE DEF R
          <6> QED BY <5>1 DEF V3!getAnotherTuple
        <5>6. \A status : \A x \in V3!getCopyStart(c, m, status) : R(x)
          <6> HIDE DEF R
          <6> QED BY <5>1 DEF V3!getCopyStart
        <5> HIDE DEF R
        <5>7. \A x \in V3!Busy3(c, m) : R(x)
          BY <5>1, <5>2, <5>3, <5>4, <5>5, <5>6 DEF V3!Busy3
        <5> QED BY <5>7 DEF R
      <4> QED BY <4>1
    <3>4. o.c = V3!Disagrees(p.c, m) /\ o.act = p.act /\ o.failed = p.failed
      BY <3>1, <3>3
    <3> QED BY <1>0, <1>6, <2>2, <3>2, <3>4, DisagreesKind
  <2>3. CASE ~(m.form # "ok" /\ m.id \notin {"T", "t", "D"})
    <3>1. o \in V3!Busy3(c, m)
      BY <2>1, <2>3 DEF V3!Checked
    <3>2. o.act \in {"next", "stay"} /\ o.failed \in BOOLEAN /\ ParseKind(o, m)
      BY <1>6, <3>1, BusyKinds3
    <3> QED BY <3>2 DEF Acts
  <2>4. CASE o \in V3!Starved(c, m)
    BY <1>0, <1>1, <2>4, StarvedKind DEF Acts
  <2> QED BY <2>2, <2>3, <2>4
<1>7. CASE m.form # "huge" /\ m.id \notin {"A", "N"} /\ c.async \notin {"IDLE", "BUSY"}
  <2>1. o = [c |-> c, act |-> "stay", failed |-> FALSE]
    BY <1>7 DEF V3!pqParseInput3, V3!Stays, V3!Outcome
  <2>2. Ignored(c, m, "stay")
    BY <1>2 DEF Ignored
  <2> QED BY <2>1, <2>2 DEF ParseKind, Kind, Acts
<1> QED BY <1>1, <1>3, <1>4, <1>5, <1>6, <1>7

\* The buffer only takes outcomes away.
LEMMA PossibleFacts ==
  ASSUME NEW m, NEW outcomes, NEW o \in Possible(m, outcomes)
  PROVE  o \in outcomes
BY DEF Possible

\* What a handler does with a message that is there, as far as the buffer allows.
LEMMA HandlerFacts ==
  ASSUME NEW m
  PROVE  /\ c.pversion = 3 => parseInput(m) \subseteq V3!pqParseInput3(c, m)
         /\ c.pversion = 2 => parseInput(m) = V2!pqParseInput2(c, m)
         /\ c.pversion = 3 => FunctionMessage(m) \subseteq V3!FunctionMessage3(c, m)
         /\ c.pversion = 2 => FunctionMessage(m) = V2!FunctionMessage2(c, m)
<1>1. c.pversion = 3 => parseInput(m) \subseteq V3!pqParseInput3(c, m)
  BY PossibleFacts DEF parseInput
<1>2. c.pversion = 3 => FunctionMessage(m) \subseteq V3!FunctionMessage3(c, m)
  BY PossibleFacts DEF FunctionMessage
<1> QED BY <1>1, <1>2 DEF parseInput, FunctionMessage

\* What the parser does with the message at the head of the input.
LEMMA ParserKinds ==
  ASSUME IInv, in # <<>>, pc \notin FunctionPcs, NEW o \in parseInput(Head(in))
  PROVE  o.act \in Acts /\ o.failed \in BOOLEAN /\ ParseKind(o, Head(in))
<1>1. c.pversion \in {2, 3}
  BY ProgramAnswered DEF IInv
<1>2. CASE c.pversion = 2
  BY <1>2, Kinds2, HandlerFacts
<1>3. CASE c.pversion = 3
  BY <1>3, Kinds3, HandlerFacts
<1> QED BY <1>1, <1>2, <1>3

-----------------------------------------------------------------------------
(* What treating a message keeps. *)

\* The message at the head of the input is treated, and the caller told nothing.
Treating(m, act, failed) ==
  /\ in # <<>> /\ m = Head(in) /\ act \in Acts /\ InputAfter(act)
  /\ UNCHANGED <<program, sent, script, alive, delivered, got, copied>>
  /\ hurt \subseteq hurt' /\ hurt' \in SUBSET Nat /\ (failed => m.stmt \in hurt')
  /\ pc' \in Pcs /\ (pc \in FunctionPcs <=> pc' \in FunctionPcs)
  /\ Kind(c', m, act, failed) /\ (pc \in FunctionPcs => Ignored(c', m, act))

LEMMA KindFrame ==
  ASSUME NEW m, NEW act, NEW failed, Kind(c', m, act, failed)
  PROVE  /\ c' \in Connections /\ c'.pversion = c.pversion /\ c'.class = c.class /\ c'.single = c.single
         /\ c'.ok => c.ok
<1>1. CASE Ignored(c', m, act) \/ Finished(c', m, act) \/ AnswerEnds(c', m, act)
  BY <1>1 DEF Ignored, Finished, AnswerEnds, Same, KeepsPlace
<1>2. CASE Refused(c', m, act, failed)
  BY <1>2 DEF Refused, Same
<1>3. CASE Made(c', m, act) \/ Described(c', m, act) \/ RowAdded(c', m, act)
  BY <1>3 DEF Made, Described, RowAdded, Same, KeepsPlace
<1>4. CASE CopyBegun(c', m, act)
  BY <1>4 DEF CopyBegun, Same
<1> QED BY <1>1, <1>2, <1>3, <1>4 DEF Kind

LEMMA TreatingMoves ==
  ASSUME IInv, NEW m, NEW act, NEW failed, Treating(m, act, failed)
  PROVE  /\ StreamInv' /\ in' \in Seq(Messages) /\ half' \in BOOLEAN
         /\ Ms' = Ms /\ place' \in Nat /\ place <= place' /\ place' <= Len(Ms)
         /\ act \in {"next", "end"} => in' = Tail(in) /\ place' = IF m.at = 0 THEN place ELSE m.at
         /\ act \in {"next", "end"} => \A k \in place + 1..place' : k = m.at \/ Ms[k].id = "end"
         /\ act = "stay" => in' = in /\ place' = place
         /\ act \in {"lost", "drop"} => in' = <<>>
         /\ act # "stay" => m.at <= place'
         /\ c.async = "IDLE" /\ c.ok /\ pc \notin FunctionPcs =>
              place' = place /\ place = Len(Ms) /\ m.at = 0
<1>1. TypeOK /\ StreamInv /\ ConnInv
  BY DEF IInv
<1>2. /\ in # <<>> /\ m = Head(in) /\ act \in Acts /\ InputAfter(act)
      /\ UNCHANGED <<program, sent, script, alive>> /\ c'.pversion = c.pversion
  BY KindFrame DEF Treating
<1>3. /\ StreamInv' /\ in' \in Seq(Messages) /\ half' \in BOOLEAN
      /\ Ms' = Ms /\ place' \in Nat /\ place <= place' /\ place' <= Len(Ms)
      /\ act \in {"next", "end"} => in' = Tail(in) /\ place' = IF m.at = 0 THEN place ELSE m.at
      /\ act \in {"next", "end"} => \A k \in place + 1..place' : k = m.at \/ Ms[k].id = "end"
      /\ act = "stay" => in' = in /\ place' = place
      /\ act \in {"lost", "drop"} => in' = <<>>
      /\ act # "stay" => m.at <= place'
  BY <1>1, <1>2, InputMoves
<1>4. c.async = "IDLE" /\ c.ok /\ pc \notin FunctionPcs => place = Len(Ms)
  BY <1>1 DEF ConnInv
<1>5. /\ m.at \in Nat /\ (m.at # 0 => m.at > place /\ m.at <= Len(Ms))
      /\ place \in Nat /\ Len(Ms) \in Nat
  BY <1>1, <1>2, HeadFacts, MsFacts
<1> QED BY <1>3, <1>4, <1>5

LEMMA TypesTreated ==
  ASSUME IInv, NEW m, NEW act, NEW failed, Treating(m, act, failed)
  PROVE  TypeOK'
<1>1. TypeOK
  BY DEF IInv
<1>2. c' \in Connections /\ c'.pversion = c.pversion
  BY KindFrame DEF Treating
<1>3. in' \in Seq(Messages) /\ half' \in BOOLEAN /\ Ms' = Ms /\ place' \in 0..Len(Ms)
  BY <1>1, TreatingMoves, MsFacts
<1>4. /\ UNCHANGED <<program, sent, script, alive, delivered, got, copied>> /\ hurt' \in SUBSET Nat
      /\ pc' \in Pcs
  BY DEF Treating
<1> HIDE DEF Ms
<1> QED BY <1>1, <1>2, <1>3, <1>4 DEF TypeOK

LEMMA HistoryTreated ==
  ASSUME IInv, NEW m, NEW act, NEW failed, Treating(m, act, failed)
  PROVE  SeenInv' /\ RightAnswers' /\ ToldInv' /\ CopyDataWhole'
<1>1. TypeOK /\ SeenInv /\ RightAnswers /\ ToldInv /\ CopyDataWhole
  BY DEF IInv, RowsInv, CopyInv
<1>2. place' \in Nat /\ place <= place'
  BY TreatingMoves
<1>3. /\ hurt \subseteq hurt' /\ UNCHANGED <<program, sent, delivered, got, copied>>
      /\ c'.pversion = c.pversion
  BY KindFrame DEF Treating
<1> QED BY <1>1, <1>2, <1>3, HistoryKept

\* Where the next of the answer is a row, what was treated is a row or its
\* description, or came unasked.
LEMMA RowAhead ==
  ASSUME IInv, NEW m, NEW act, NEW failed, Treating(m, act, failed),
         place' < Len(Ms), IsRow(Ms[place' + 1])
  PROVE  /\ act = "stay" => m.at = 0 \/ IsRow(m)
         /\ act \in {"next", "end"} /\ m.at # 0 => m.id = "T" \/ IsRow(m)
         /\ place' + 1 \in DOMAIN Ms /\ program[sent].class # "DESCRIBE"
<1>1. TypeOK /\ StreamInv /\ in # <<>> /\ m = Head(in)
  BY DEF IInv, Treating
<1>2. /\ place' \in Nat /\ Len(Ms) \in Nat /\ place \in Nat
      /\ act = "stay" => place' = place
      /\ act \in {"next", "end"} => place' = IF m.at = 0 THEN place ELSE m.at
  BY <1>1, MsFacts, TreatingMoves
<1>3. place' + 1 \in DOMAIN Ms
  <2>1. Placed(Ms)
    BY <1>1, MsFacts
  <2> HIDE DEF Ms
  <2> QED BY <1>2, <2>1 DEF Placed
<1>4. place' \in DOMAIN Ms /\ (Ms[place'].id = "T" \/ IsRow(Ms[place']))
  BY <1>1, <1>2, <1>3, RowFollows
<1>5. /\ m.at \in Nat /\ (m.at # 0 => m.at > place /\ m.at \in DOMAIN Ms /\ m = Ms[m.at])
      /\ m.at # 0 => \A k \in place + 1..m.at - 1 : Ms[k].id = "end"
  BY <1>1, HeadFacts, HeadKinds
<1>6. ASSUME act = "stay", m.at # 0 PROVE IsRow(m)
  <2>1. place + 1 \notin place + 1..m.at - 1
    <3>1. Ms[place + 1].id # "end"
      BY <1>2, <1>6 DEF IsRow
    <3> QED BY <1>5, <1>6, <3>1
  <2>2. m.at = place + 1
    BY <1>2, <1>5, <1>6, <2>1
  <2> QED BY <1>2, <1>5, <1>6, <2>2
<1>7. act \in {"next", "end"} /\ m.at # 0 => m.id = "T" \/ IsRow(m)
  BY <1>2, <1>4, <1>5
<1>8. program[sent].class # "DESCRIBE"
  <2>1. /\ place' + 1 = Len(Ms) => Ms[place' + 1].id = "Z"
        /\ place' + 1 # Len(Ms) => Ms[place' + 1].id \in AnswerIds(c.pversion, program[sent].class)
        /\ sent > 0
    BY <1>1, <1>3, AnswerShape
  <2>2. Ms[place' + 1].id \in {"D", "B"}
    BY DEF IsRow
  <2>3. Ms[place' + 1].id \in AnswerIds(c.pversion, program[sent].class)
    BY <2>1, <2>2
  <2>4. c.pversion \in {2, 3} /\ program[sent].class \in Classes(c.pversion)
    BY <1>1, <2>1, ProgramAnswered, MsFacts, AnswerFacts
  <2>5. ASSUME program[sent].class = "DESCRIBE" PROVE FALSE
    <3>1. c.pversion = 3
      BY <2>4, <2>5 DEF Classes
    <3>2. AnswerIds(c.pversion, program[sent].class) = KnownIds(3) \ {"D"}
      BY <2>5, <3>1 DEF AnswerIds
    <3>3. "B" \notin KnownIds(3)
      BY DEF KnownIds
    <3> QED BY <2>2, <2>3, <3>2, <3>3
  <2> QED BY <2>5
<1> QED BY <1>3, <1>6, <1>7, <1>8

\* The result when a row was added to it.
LEMMA RowAddedResult ==
  ASSUME TypeOK, NEW m \in Messages, NEW act, RowAdded(c', m, act)
  PROVE  /\ c'.ok = c.ok /\ c.async = "BUSY" /\ c.result \in Results /\ Is(c.result, "TUPLES_OK")
         /\ m.n \in Nat /\ c.result.rows \in Seq(Nat)
         /\ c'.result \in Results /\ c'.result.stmt = c.result.stmt
         /\ IF c.single
              THEN /\ Is(c'.result, "SINGLE_TUPLE") /\ c'.result.rows = <<m.n>>
                   /\ c'.next_result = c.result /\ c'.async = "READY" /\ RowWaits' /\ Filling' = c.result
              ELSE /\ Is(c'.result, "TUPLES_OK") /\ c'.result.rows = Append(c.result.rows, m.n)
                   /\ c'.next_result = c.next_result /\ c'.async = "BUSY" /\ ~RowWaits'
                   /\ Filling' = c'.result
<1>1. c'.ok = c.ok /\ c.async = "BUSY" /\ c.result \in Results /\ Is(c.result, "TUPLES_OK") /\ c.single \in BOOLEAN
  BY DEF RowAdded, KeepsPlace, Is, TypeOK, Connections
<1>2. m.n \in Nat /\ c.result.rows \in Seq(Nat) /\ Append(c.result.rows, m.n) \in Seq(Nat) /\ <<m.n>> \in Seq(Nat)
  <2>1. m.n \in Nat /\ c.result.rows \in Seq(Nat)
    BY <1>1, ResultTypes DEF Messages
  <2> QED BY <2>1
<1>3. CASE c.single
  <2>1. /\ c'.result = [c.result EXCEPT !.status = "SINGLE_TUPLE", !.rows = <<m.n>>]
        /\ c'.next_result = c.result /\ c'.async = "READY"
    BY <1>3 DEF RowAdded
  <2>2. "SINGLE_TUPLE" \in Statuses
    BY DEF Statuses
  <2>3. /\ c'.result \in Results /\ c'.result.status = "SINGLE_TUPLE" /\ c'.result.stmt = c.result.stmt
        /\ c'.result.rows = <<m.n>>
    BY <1>1, <1>2, <2>1, <2>2 DEF Results
  <2>4. c'.result # NULL
    BY <2>3, NullAssumption
  <2>5. RowWaits' /\ Is(c'.result, "SINGLE_TUPLE")
    BY <2>3, <2>4 DEF RowWaits, Is
  <2> QED BY <1>1, <1>2, <1>3, <2>1, <2>3, <2>5 DEF Filling
<1>4. CASE ~c.single
  <2>1. /\ c'.result = [c.result EXCEPT !.rows = Append(@, m.n)]
        /\ c'.next_result = c.next_result /\ c'.async = "BUSY"
    BY <1>4 DEF RowAdded
  <2>3. /\ c'.result \in Results /\ c'.result.status = "TUPLES_OK" /\ c'.result.stmt = c.result.stmt
        /\ c'.result.rows = Append(c.result.rows, m.n)
    BY <1>1, <1>2, <2>1 DEF Results, Is
  <2>4. c'.result # NULL
    BY <2>3, NullAssumption
  <2>5. ~RowWaits' /\ Is(c'.result, "TUPLES_OK")
    BY <2>3, <2>4 DEF RowWaits, Is
  <2> QED BY <1>1, <1>2, <1>4, <2>1, <2>3, <2>5 DEF Filling
<1> QED BY <1>1, <1>3, <1>4

LEMMA ConnTreated ==
  ASSUME IInv, NEW m, NEW act, NEW failed, Treating(m, act, failed)
  PROVE  ConnInv'
<1>1. TypeOK /\ StreamInv /\ ConnInv
  BY DEF IInv
<1>2. /\ in # <<>> /\ m = Head(in) /\ (pc \in FunctionPcs <=> pc' \in FunctionPcs)
      /\ UNCHANGED <<program, sent>> /\ Kind(c', m, act, failed)
      /\ pc \in FunctionPcs => Ignored(c', m, act)
  BY DEF Treating
<1>3. /\ c'.pversion = c.pversion /\ c'.class = c.class /\ c'.single = c.single
      /\ c'.ok => c.ok
  BY <1>2, KindFrame
<1>4. /\ Ms' = Ms
      /\ act \in {"next", "end"} => place' = IF m.at = 0 THEN place ELSE m.at
      /\ act \in {"lost", "drop"} => in' = <<>>
      /\ act = "stay" => in' = in
      /\ c.async = "IDLE" /\ c.ok /\ pc \notin FunctionPcs => place' = place /\ place = Len(Ms)
  BY TreatingMoves
<1> HIDE DEF Ms
<1>5. m.id = "Z" => m.at # 0 /\ m.at = Len(Ms)
  <2>1. m.at # 0 /\ m.at # Len(Ms) => m.id \in AnswerIds(c.pversion, program[sent].class)
    BY <1>1, <1>2, HeadKinds
  <2>2. "Z" \notin AnswerIds(c.pversion, program[sent].class)
    <3>1. c.pversion \in {2, 3}
      BY <1>1, ProgramAnswered
    <3> QED BY <3>1 DEF AnswerIds, KnownIds
  <2>3. m.at = 0 => m.id \in {"A", "N", "S"}
    BY <1>1, <1>2, HeadKinds
  <2> QED BY <2>1, <2>2, <2>3
<1>6. CASE Ignored(c', m, act)
  <2>1. c'.result = c.result /\ c'.next_result = c.next_result /\ c'.ok = c.ok /\ c'.async = c.async
    BY <1>6 DEF Ignored, KeepsResult, KeepsPlace
  <2>2. ~c.ok => c.async = "IDLE" /\ c.result = NULL
    BY <1>1, <1>2 DEF ConnInv
  <2>3. c.async = "IDLE" /\ c.ok /\ pc \notin FunctionPcs => place' = Len(Ms)
    BY <1>4
  <2>4. RowWaits' = RowWaits
    BY <2>1 DEF RowWaits, Is
  <2> QED BY <1>1, <1>2, <1>3, <1>4, <2>1, <2>2, <2>3, <2>4 DEF ConnInv, Is
<1>7. CASE ~Ignored(c', m, act)
  <2>1. pc \notin FunctionPcs /\ pc' \notin FunctionPcs
    BY <1>2, <1>7
  <2>2. c.async = "BUSY" => ~RowWaits /\ c.next_result = NULL /\ c.ok
    BY <1>1, <1>2 DEF ConnInv
  <2>3. c.async # "IDLE" /\ c.ok => /\ sent > 0 /\ c.class = program[sent].class
                                    /\ c.single = program[sent].single /\ c.class # "FUNCTION"
    BY <1>1 DEF ConnInv
  <2>4. c.pversion = 2 /\ c.async = "BUSY" => c.result = NULL \/ Is(c.result, "TUPLES_OK")
    BY <1>1 DEF ConnInv
  <2>5. CASE Finished(c', m, act) \/ AnswerEnds(c', m, act)
    <3>1. c'.result = c.result /\ c'.next_result = c.next_result /\ c'.ok = c.ok /\ c.async = "BUSY"
      BY <2>5 DEF Finished, AnswerEnds, KeepsResult, KeepsPlace
    <3>2. RowWaits' = RowWaits
      BY <3>1 DEF RowWaits, Is
    <3>3. c'.async = "READY" \/ (c'.async = "IDLE" /\ place' = Len(Ms))
      BY <1>4, <1>5, <2>5 DEF Finished, AnswerEnds
    <3> QED BY <1>2, <1>3, <1>4, <2>1, <2>2, <2>3, <3>1, <3>2, <3>3 DEF ConnInv
  <2>6. CASE Refused(c', m, act, failed)
    <3>1. c'.next_result = NULL /\ Is(c'.result, "FATAL_ERROR") /\ ~RowWaits'
      BY <2>6 DEF Refused, RowWaits, Is
    <3>2. \/ ~c'.ok /\ c'.async = "READY" /\ in' = <<>>
          \/ c.async = "BUSY" /\ c'.ok = c.ok /\ c'.async \in {"BUSY", "READY"}
             /\ (c'.async = "BUSY" => c.pversion = 3)
      BY <1>4, <2>6 DEF Refused
    <3> QED BY <1>2, <1>3, <1>4, <2>1, <2>2, <2>3, <3>1, <3>2 DEF ConnInv
  <2>7. CASE Made(c', m, act) \/ Described(c', m, act)
    <3>1. c'.next_result = NULL /\ ~RowWaits' /\ c'.ok = c.ok /\ c.async = "BUSY"
      BY <2>7 DEF Made, Described, KeepsPlace, RowWaits, Is, NewResult
    <3>2. c'.async = "READY" \/ (c'.async = "BUSY" /\ (c.pversion = 3 \/ c'.result = NewResult("TUPLES_OK", m.stmt)))
      BY <2>7 DEF Made, Described
    <3>3. c.pversion = 2 /\ c'.async = "BUSY" => Is(c'.result, "TUPLES_OK")
      <4>1. c.pversion = 2 /\ c'.async = "BUSY" => Described(c', m, act)
        BY <2>7 DEF Made
      <4>2. m.stmt \in Nat /\ "TUPLES_OK" \in Statuses
        BY <1>1, <1>2, HeadKinds DEF Statuses
      <4>3. NewResult("TUPLES_OK", m.stmt) # NULL /\ NewResult("TUPLES_OK", m.stmt).status = "TUPLES_OK"
        BY <4>2, ResultTypes DEF NewResult
      <4> QED BY <4>1, <4>3 DEF Described, Is
    <3> QED BY <1>2, <1>3, <1>4, <2>1, <2>2, <2>3, <3>1, <3>2, <3>3 DEF ConnInv
  <2>8. CASE RowAdded(c', m, act)
    <3>1. m \in Messages
      BY <1>1, <1>2, HeadKinds
    <3>2. c.async = "BUSY" /\ c'.ok = c.ok
      BY <1>1, <2>8, <3>1, RowAddedResult
    <3>3. \/ /\ c'.async = "READY" /\ RowWaits' /\ Is(c'.next_result, "TUPLES_OK")
             /\ c'.next_result.stmt = c'.result.stmt
          \/ /\ c'.async = "BUSY" /\ ~RowWaits' /\ Is(c'.result, "TUPLES_OK")
             /\ c'.next_result = c.next_result
      BY <1>1, <2>8, <3>1, RowAddedResult
    <3> QED BY <1>2, <1>3, <1>4, <2>1, <2>2, <2>3, <3>2, <3>3 DEF ConnInv
  <2>9. CASE CopyBegun(c', m, act)
    <3>1. c'.ok = c.ok /\ c.async = "BUSY" /\ c'.next_result = c.next_result /\ c'.async \in CopyStates
          /\ (c.pversion = 2 => c'.async # "COPY_BOTH" /\ c'.result = c.result)
      BY <2>9 DEF CopyBegun, CopyStates
    <3>2. ~RowWaits'
      <4>1. c.pversion # 2 => c'.result = NewResult(c'.async, m.stmt)
        BY <2>9 DEF CopyBegun
      <4>2. c.pversion = 2 => RowWaits' = RowWaits
        BY <3>1 DEF RowWaits, Is
      <4>3. c.pversion # 2 => c'.result.status # "SINGLE_TUPLE"
        BY <3>1, <4>1 DEF NewResult, CopyStates
      <4> QED BY <2>2, <3>1, <4>2, <4>3 DEF RowWaits, Is
    <3> QED BY <1>2, <1>3, <1>4, <2>1, <2>2, <2>3, <2>4, <3>1, <3>2 DEF ConnInv, CopyStates
  <2> QED BY <1>2, <1>7, <2>5, <2>6, <2>7, <2>8, <2>9 DEF Kind
<1> QED BY <1>6, <1>7

LEMMA LinesTreated ==
  ASSUME IInv, NEW m, NEW act, NEW failed, Treating(m, act, failed)
  PROVE  LinesInv'
<1>1. TypeOK /\ StreamInv /\ LinesInv
  BY DEF IInv, RowsInv
<1>2. /\ in # <<>> /\ m = Head(in) /\ Kind(c', m, act, failed) /\ (failed => m.stmt \in hurt')
      /\ hurt \subseteq hurt' /\ act \in Acts
  BY DEF Treating
<1>3. c'.pversion = c.pversion /\ (c'.ok => c.ok) /\ (OutOfStep => OutOfStep')
  BY <1>2, KindFrame DEF OutOfStep
<1>4. /\ Ms' = Ms
      /\ act \in {"next", "end"} => place' = IF m.at = 0 THEN place ELSE m.at
      /\ act = "stay" => place' = place
  BY TreatingMoves
<1>5. m.at # 0 => m = Ms[m.at]
  BY <1>1, <1>2, HeadKinds
<1> HIDE DEF Ms
<1> SUFFICES ASSUME c.pversion = 2, c'.ok, ~OutOfStep', place' > 0, InLines(Ms[place'])
             PROVE  c'.async = "COPY_OUT"
  BY <1>3, <1>4 DEF LinesInv
<1>6. place' = place => c.async = "COPY_OUT"
  BY <1>1, <1>3 DEF LinesInv
<1>7. c.async = "IDLE" /\ pc \notin FunctionPcs => place' = place
  BY <1>3, TreatingMoves
<1>8. act = "next" => place' = place \/ (m.at # 0 /\ InLines(m))
  BY <1>4, <1>5
<1>9. failed => OutOfStep'
  BY <1>2, <1>3 DEF OutOfStep
<1>10. CASE Ignored(c', m, act)
  <2>1. c'.async = c.async
    BY <1>10 DEF Ignored
  <2>2. act \in {"stay", "next"} \/ c.async = "IDLE"
    BY <1>3, <1>10 DEF Ignored
  <2> QED BY <1>4, <1>6, <1>7, <1>8, <1>10, <2>1, <2>2 DEF Ignored, Plain
<1>11. CASE Finished(c', m, act) \/ Made(c', m, act)
  BY <1>4, <1>6, <1>8, <1>11 DEF Finished, Made, Plain
<1>12. CASE Refused(c', m, act, failed)
  <2>1. c.async = "BUSY" /\ act \in {"next", "stay"} /\ (act = "next" => Plain(m))
    BY <1>3, <1>9, <1>12 DEF Refused
  <2> QED BY <1>4, <1>6, <1>8, <2>1 DEF Plain
<1>13. CASE Described(c', m, act) \/ RowAdded(c', m, act) \/ AnswerEnds(c', m, act)
  <2>1. ~InLines(m) /\ act = "next" /\ c.async = "BUSY"
    BY <1>13 DEF Described, RowAdded, AnswerEnds, InLines, IsRow
  <2> QED BY <1>6, <1>8, <2>1
<1>14. CASE CopyBegun(c', m, act)
  BY <1>6, <1>8, <1>14 DEF CopyBegun, InLines
<1> QED BY <1>2, <1>10, <1>11, <1>12, <1>13, <1>14 DEF Kind

LEMMA NextRowTreated ==
  ASSUME IInv, NEW m, NEW act, NEW failed, Treating(m, act, failed)
  PROVE  NextRowInv'
<1>1. TypeOK /\ StreamInv /\ ConnInv /\ NextRowInv
  BY DEF IInv, RowsInv
<1>2. /\ in # <<>> /\ m = Head(in) /\ Kind(c', m, act, failed) /\ (failed => m.stmt \in hurt')
      /\ hurt \subseteq hurt' /\ act \in Acts /\ UNCHANGED <<program, sent>>
  BY DEF Treating
<1>3. c'.pversion = c.pversion /\ (c'.ok => c.ok) /\ (OutOfStep => OutOfStep')
  BY <1>2, KindFrame DEF OutOfStep
<1>4. /\ Ms' = Ms
      /\ act = "next" => place' = IF m.at = 0 THEN place ELSE m.at
      /\ act = "stay" => place' = place
  BY TreatingMoves
<1> HIDE DEF Ms
<1> SUFFICES ASSUME c'.ok, ~OutOfStep', place' < Len(Ms), IsRow(Ms[place' + 1])
             PROVE  /\ Is(Filling', "TUPLES_OK") \/ Is(Filling', "FATAL_ERROR")
                    /\ c'.async = "BUSY" \/ RowWaits'
  BY <1>3, <1>4 DEF NextRowInv, Is
<1>5. /\ act = "stay" => m.at = 0 \/ IsRow(m)
      /\ act = "next" /\ m.at # 0 => m.id = "T" \/ IsRow(m)
      /\ program[sent].class # "DESCRIBE"
  BY RowAhead
<1>6. /\ c.async = "BUSY" => c.class # "DESCRIBE"
      /\ c.async = "BUSY" => ~RowWaits /\ Filling = c.result
  BY <1>1, <1>3, <1>5, BusyResult DEF ConnInv
<1>7. place' = place => /\ Is(Filling, "TUPLES_OK") \/ Is(Filling, "FATAL_ERROR")
                        /\ c.async = "BUSY" \/ RowWaits
  BY <1>1, <1>3 DEF NextRowInv
<1>8. failed /\ c.pversion = 2 => OutOfStep'
  BY <1>2, <1>3 DEF OutOfStep
<1>9. ~(c.async = "IDLE" /\ pc \notin FunctionPcs /\ act # "stay" /\ m.at # 0)
      /\ ~(act = "drop" /\ c.async = "IDLE" /\ pc \notin FunctionPcs)
  BY <1>3, <1>4, TreatingMoves
<1>10. CASE Ignored(c', m, act)
  <2>1. c'.async = c.async /\ c'.result = c.result /\ c'.next_result = c.next_result
    BY <1>10 DEF Ignored, KeepsResult
  <2>2. Filling' = Filling /\ RowWaits' = RowWaits
    BY <2>1 DEF Filling, RowWaits, Is
  <2>3. place' = place \/ (c.async = "BUSY" /\ IsError(c.result))
    BY <1>3, <1>4, <1>5, <1>9, <1>10 DEF Ignored, Plain
  <2>4. IsError(c.result) => Is(c.result, "FATAL_ERROR")
    BY DEF IsError, Is
  <2> QED BY <1>6, <1>7, <2>1, <2>2, <2>3, <2>4
<1>11. CASE Finished(c', m, act) \/ Made(c', m, act)
  BY <1>5, <1>6, <1>11 DEF Finished, Made, Plain
<1>12. CASE Refused(c', m, act, failed)
  <2>1. c.async = "BUSY" /\ act = "next" /\ c'.async = "BUSY"
    BY <1>3, <1>5, <1>8, <1>12 DEF Refused, Plain
  <2>2. Is(c'.result, "FATAL_ERROR") /\ ~RowWaits'
    BY <1>12 DEF Refused, RowWaits, Is
  <2> QED BY <2>1, <2>2 DEF Filling
<1>13. CASE Described(c', m, act)
  <2>1. c'.async = "BUSY"
    BY <1>13 DEF Described
  <2>2. ConnInv'
    BY ConnTreated
  <2>3. ~RowWaits'
    BY <2>1, <2>2 DEF ConnInv
  <2>4. m.stmt \in Nat /\ "TUPLES_OK" \in Statuses
    BY <1>1, <1>2, HeadKinds DEF Statuses
  <2>5. Is(c'.result, "TUPLES_OK")
    BY <1>13, <2>4, ResultTypes DEF Described, Is, NewResult
  <2> QED BY <2>1, <2>3, <2>5 DEF Filling
<1>14. CASE RowAdded(c', m, act)
  <2>1. m \in Messages
    BY <1>1, <1>2, HeadKinds
  <2> QED BY <1>1, <1>14, <2>1, RowAddedResult
<1>15. CASE CopyBegun(c', m, act) \/ AnswerEnds(c', m, act)
  <2>1. act = "next" /\ m.id \in {"G", "H", "W", "Z"}
    BY <1>15 DEF CopyBegun, AnswerEnds
  <2>2. m.at # 0
    BY <1>1, <1>2, <2>1, HeadKinds
  <2> QED BY <1>5, <2>1, <2>2 DEF IsRow
<1> QED BY <1>2, <1>10, <1>11, <1>12, <1>13, <1>14, <1>15 DEF Kind

LEMMA ErrorTreated ==
  ASSUME IInv, NEW m, NEW act, NEW failed, Treating(m, act, failed)
  PROVE  ErrorInv' /\ BareInv'
<1>1. TypeOK /\ StreamInv /\ ConnInv /\ ErrorInv /\ BareInv
  BY DEF IInv, RowsInv
<1>2. /\ in # <<>> /\ m = Head(in) /\ Kind(c', m, act, failed) /\ (failed => m.stmt \in hurt')
      /\ hurt \subseteq hurt' /\ program' = program
  BY DEF Treating
<1>3. c'.pversion = c.pversion /\ m \in Messages /\ m.stmt \in Nat
  BY <1>1, <1>2, KindFrame, HeadKinds
<1>4. (\A s : Troubled(s) => Troubled(s)') /\ (OutOfStep => OutOfStep')
  BY <1>2, <1>3, SameProgram
<1>5. ASSUME c'.result = c.result PROVE ErrorInv' /\ BareInv'
  BY <1>1, <1>4, <1>5 DEF ErrorInv, BareInv, Is
<1>6. CASE Ignored(c', m, act) \/ Finished(c', m, act) \/ AnswerEnds(c', m, act)
  BY <1>5, <1>6 DEF Ignored, Finished, AnswerEnds, KeepsResult
<1>7. CASE Refused(c', m, act, failed)
  <2>1. CASE c'.result = c.result
    BY <1>5, <2>1
  <2>2. CASE c'.result.stmt = m.stmt /\ (failed \/ m.id \in {"E", "?"} \/ m.form # "ok" \/ OutOfStep)
    <3>1. Is(c'.result, "FATAL_ERROR")
      BY <1>7 DEF Refused
    <3>2. CASE failed
      <4>1. m.stmt \in hurt'
        BY <1>2, <3>2
      <4>2. Troubled(m.stmt)'
        BY <4>1 DEF Troubled
      <4> QED BY <2>2, <3>1, <4>2 DEF ErrorInv, BareInv, Is
    <3>3. CASE m.id \in {"E", "?"} \/ m.form # "ok"
      <4>1. m.at # 0 /\ m.at \in DOMAIN Ms /\ m = Ms[m.at]
        BY <1>1, <1>2, <3>3, HeadKinds
      <4>2. Troubled(m.stmt)
        BY <1>1, <3>3, <4>1, TroubledHere
      <4>3. Troubled(m.stmt)'
        BY <1>4, <4>2
      <4> QED BY <2>2, <3>1, <4>3 DEF ErrorInv, BareInv, Is
    <3>4. CASE OutOfStep
      BY <1>4, <3>1, <3>4 DEF ErrorInv, BareInv, Is
    <3> QED BY <2>2, <3>2, <3>3, <3>4
  <2> QED BY <1>7, <2>1, <2>2 DEF Refused
<1>8. CASE Made(c', m, act)
  BY <1>8 DEF Made, ErrorInv, BareInv, Is
<1>9. CASE Described(c', m, act)
  BY <1>9 DEF Described, NewResult, ErrorInv, BareInv, Is
<1>10. CASE RowAdded(c', m, act)
  <2>1. Is(c'.result, "SINGLE_TUPLE") \/ Is(c'.result, "TUPLES_OK")
    BY <1>1, <1>3, <1>10, RowAddedResult
  <2> QED BY <2>1 DEF ErrorInv, BareInv, Is
<1>11. CASE CopyBegun(c', m, act)
  <2>1. CASE c'.result = c.result
    BY <1>5, <2>1
  <2>2. CASE c'.result # c.result
    <3>1. c'.result = NewResult(c'.async, m.stmt) /\ c'.async \in CopyStates
      BY <1>11, <2>2 DEF CopyBegun, CopyStates
    <3> QED BY <3>1 DEF NewResult, CopyStates, ErrorInv, BareInv, Is
  <2> QED BY <2>1, <2>2
<1> QED BY <1>2, <1>6, <1>7, <1>8, <1>9, <1>10, <1>11 DEF Kind

\* No message from a place on describes rows or is one.
NoRows(p, q) == \A k \in p + 1..q : Ms[k].id # "T" /\ ~IsRow(Ms[k])

\* A result that is there stays filled when no row is passed.
LEMMA FillStays ==
  ASSUME TypeOK, FillInv, UNCHANGED <<program, sent>>, KeepsResult(c'), c'.single = c.single,
         \A s : SingleRowsOf(s)' = SingleRowsOf(s),
         place' \in Nat, place <= place', NoRows(place, place'),
         c'.async = "READY" /\ ~RowWaits =>
           c.async = "READY" \/ (Is(Filling, "TUPLES_OK") =>
                                   RowPlaces(Ms, Filling.stmt) \subseteq 1..place')
  PROVE  FillInv'
<1> SUFFICES ASSUME Is(Filling', "TUPLES_OK")
             PROVE  /\ sent' > 0 /\ program'[sent'].class # "DESCRIBE"
                    /\ \E t \in 1..place' : \E w \in 0..Len(Ms') : Filled(Filling, t, w)'
  BY DEF FillInv, Is
<1>1. c'.result = c.result /\ c'.next_result = c.next_result
  BY DEF KeepsResult
<1>2. RowWaits' = RowWaits /\ Filling' = Filling
  BY <1>1 DEF RowWaits, Filling, Is
<1>3. Ms' = Ms /\ place \in Nat
  BY MsFacts DEF Ms
<1>4. /\ sent > 0 /\ program[sent].class # "DESCRIBE"
      /\ \E t \in 1..place : \E w \in 0..Len(Ms) : Filled(Filling, t, w)
  BY <1>2 DEF FillInv
<1>5. PICK t \in 1..place, w \in 0..Len(Ms) : Filled(Filling, t, w)
  BY <1>4
<1> HIDE DEF Ms
<1>6. t \in 1..place' /\ t \in Nat
  BY <1>3
<1>7. Filled(Filling, t, w)'
  <2>1. Describes(Ms[t], Filling.stmt) /\ \A k \in t + 1..place' : Ms[k].id # "T"
    <3>1. \A k \in t + 1..place' : k \in t + 1..place \/ k \in place + 1..place'
      BY <1>3, <1>6
    <3> QED BY <1>5, <3>1 DEF Filled, NoRows
  <2>2. RowPlaces(Ms, Filling.stmt) \intersect 1..place' = t + 1..t + w
    <3>1. RowPlaces(Ms, Filling.stmt) \intersect 1..place = t + 1..t + w
      BY <1>5 DEF Filled
    <3>2. \A k \in RowPlaces(Ms, Filling.stmt) : k \notin place + 1..place'
      BY DEF NoRows, RowPlaces
    <3>3. \A k \in 1..place' : k \in 1..place \/ k \in place + 1..place'
      BY <1>3
    <3>4. 1..place \subseteq 1..place'
      BY <1>3
    <3> QED BY <3>1, <3>2, <3>3, <3>4
  <2>3. /\ IF program[sent].single
             THEN /\ Filling.rows = <<>>
                  /\ IF RowWaits
                       THEN c.result.rows = <<w>> /\ w > 0 /\ SingleRowsOf(Filling.stmt) = 1..w - 1
                       ELSE SingleRowsOf(Filling.stmt) = 1..w
             ELSE Filling.rows = [k \in 1..w |-> k] /\ ~RowWaits
        /\ c.async = "READY" /\ ~RowWaits => RowPlaces(Ms, Filling.stmt) \subseteq 1..place
    BY <1>5 DEF Filled
  <2>4. c'.async = "READY" /\ ~RowWaits => RowPlaces(Ms, Filling.stmt) \subseteq 1..place'
    <3>1. 1..place \subseteq 1..place'
      BY <1>3
    <3>2. Is(Filling, "TUPLES_OK")
      BY <1>2
    <3> QED BY <2>3, <3>1, <3>2
  <2> QED BY <1>1, <1>2, <1>3, <2>1, <2>2, <2>3, <2>4 DEF Filled
<1> QED BY <1>2, <1>3, <1>4, <1>6, <1>7

LEMMA FillKept ==
  ASSUME TypeOK, FillInv, UNCHANGED <<program, sent, delivered>>, KeepsResult(c'), c'.single = c.single,
         place' \in Nat, place <= place', NoRows(place, place'),
         c'.async = "READY" /\ ~RowWaits =>
           c.async = "READY" \/ (Is(Filling, "TUPLES_OK") =>
                                   RowPlaces(Ms, Filling.stmt) \subseteq 1..place')
  PROVE  FillInv'
<1>1. \A s : SingleRowsOf(s)' = SingleRowsOf(s)
  BY DEF SingleRowsOf, SingleRows
<1> QED BY <1>1, FillStays

\* A statement has no more rows where the next of its answer is none.
LEMMA RowsPassed ==
  ASSUME TypeOK, NEW t \in DOMAIN Ms, Ms[t].id = "T", NEW q \in Nat, t <= q,
         q < Len(Ms) => ~IsRow(Ms[q + 1])
  PROVE  RowPlaces(Ms, Ms[t].stmt) \subseteq 1..q
<1>1. PICK last \in t..Len(Ms) :
        /\ RowPlaces(Ms, Ms[t].stmt) = t + 1..last
        /\ \A k \in t + 1..last : IsRow(Ms[k])
  BY RowRun
<1>2. t \in Nat /\ t >= 1 /\ Len(Ms) \in Nat
  BY AnswerShape
<1> HIDE DEF Ms
<1>3. last <= q
  <2>1. last > q => q + 1 \in t + 1..last /\ q < Len(Ms)
    BY <1>1, <1>2
  <2> QED BY <1>1, <1>2, <2>1
<1> QED BY <1>1, <1>2, <1>3

LEMMA FillDescribed ==
  ASSUME IInv, NEW m, NEW act, NEW failed, Treating(m, act, failed), Described(c', m, act)
  PROVE  FillInv'
<1>1. TypeOK /\ StreamInv /\ ConnInv /\ SeenInv
  BY DEF IInv, RowsInv
<1>2. /\ in # <<>> /\ m = Head(in) /\ UNCHANGED <<program, sent, delivered>>
  BY DEF Treating
<1>3. /\ Ms' = Ms /\ place' = m.at
  BY TreatingMoves DEF Described
<1>4. /\ m.at # 0 /\ m.id = "T" /\ c.class # "DESCRIBE" /\ c.async = "BUSY" /\ c'.async = "BUSY"
      /\ c'.result = NewResult("TUPLES_OK", m.stmt)
  BY DEF Described
<1>5. /\ sent > 0 /\ m.at \in DOMAIN Ms /\ m = Ms[m.at] /\ m.at > place /\ m.at \in Nat /\ m.stmt \in Nat
      /\ m.at # Len(Ms) /\ m.stmt # 0 /\ place \in Nat
  BY <1>1, <1>2, <1>4, HeadKinds, MsFacts
<1>6. program[sent].class # "DESCRIBE"
  BY <1>1, <1>2, <1>4, BusyKinds
<1>7. ~RowWaits' /\ Filling' = NewResult("TUPLES_OK", m.stmt)
  BY <1>4 DEF RowWaits, Filling, Is, NewResult
<1>8. PICK last \in m.at..Len(Ms) : RowPlaces(Ms, m.stmt) = m.at + 1..last
  BY <1>1, <1>4, <1>5, RowRun
<1>9. SingleRowsOf(m.stmt) = {}
  <2>1. QueryOf(m.stmt) = sent /\ ~Before(m.stmt)
    BY <1>1, <1>5, QueryIs
  <2>2. ~RowSeen(m.stmt)
    <3>1. \A k \in 1..place : IsRow(Ms[k]) /\ Ms[k].stmt = m.stmt => k \in RowPlaces(Ms, m.stmt)
      <4>1. \A k \in 1..place : k \in DOMAIN Ms
        <5>1. Placed(Ms) /\ place <= Len(Ms) /\ Len(Ms) \in Nat
          BY <1>1, MsFacts DEF TypeOK
        <5> HIDE DEF Ms
        <5> QED BY <1>5, <5>1 DEF Placed
      <4> QED BY <4>1 DEF RowPlaces
    <3>2. \A k \in 1..place : k \notin m.at + 1..last
      BY <1>5
    <3> QED BY <1>8, <3>1, <3>2 DEF RowSeen
  <2>3. \A i \in DOMAIN delivered : ~(delivered[i].stmt = m.stmt /\ delivered[i].status = "SINGLE_TUPLE")
    BY <1>1, <2>1, <2>2 DEF SeenInv
  <2>4. DOMAIN delivered = 1..Len(delivered) /\ Len(delivered) \in Nat
    BY <1>1 DEF TypeOK
  <2>5. \A h \in 1..(Len(delivered) + 1) - 1 : h \in DOMAIN delivered
    BY <2>4
  <2> QED BY <2>3, <2>5 DEF SingleRowsOf, SingleRows
<1>10. SingleRowsOf(m.stmt)' = SingleRowsOf(m.stmt)
  BY <1>2 DEF SingleRowsOf, SingleRows
<1> DEFINE r == NewResult("TUPLES_OK", m.stmt)
<1>11. r.stmt = m.stmt /\ r.rows = <<>> /\ r.status = "TUPLES_OK"
  BY DEF NewResult
<1>12. <<>> = [k \in 1..0 |-> k]
  <2>1. [k \in 1..0 |-> k] \in Seq(Nat) /\ Len([k \in 1..0 |-> k]) = 0
    OBVIOUS
  <2> QED BY <2>1
<1> HIDE DEF r, Ms
<1>13. Filled(r, m.at, 0)'
  <2>1. Describes(Ms[m.at], m.stmt) /\ \A k \in m.at + 1..m.at : Ms[k].id # "T"
    BY <1>4, <1>5 DEF Describes
  <2>2. RowPlaces(Ms, m.stmt) \intersect 1..m.at = m.at + 1..m.at + 0
    BY <1>5, <1>8
  <2>3. 1..0 = {}
    OBVIOUS
  <2> QED BY <1>2, <1>3, <1>4, <1>7, <1>9, <1>10, <1>11, <1>12, <2>1, <2>2, <2>3 DEF Filled
<1>14. Filling' = r
  BY <1>7 DEF r
<1>15. m.at \in 1..m.at /\ 0 \in 0..Len(Ms)
  <2>1. Len(Ms) \in Nat
    BY <1>1, MsFacts
  <2> QED BY <1>5, <2>1
<1>16. \E t \in 1..place' : \E w \in 0..Len(Ms') : Filled(Filling, t, w)'
  <2>1. Filled(Filling, m.at, 0)'
    BY <1>13, <1>14
  <2> QED BY <1>3, <1>15, <2>1
<1> QED BY <1>2, <1>5, <1>6, <1>16 DEF FillInv

LEMMA FillRowAdded ==
  ASSUME IInv, NEW m, NEW act, NEW failed, Treating(m, act, failed), RowAdded(c', m, act)
  PROVE  FillInv'
<1>1. TypeOK /\ StreamInv /\ ConnInv /\ FillInv
  BY DEF IInv, RowsInv
<1>2. /\ in # <<>> /\ m = Head(in) /\ UNCHANGED <<program, sent, delivered>>
  BY DEF Treating
<1>3. /\ Ms' = Ms /\ place' = m.at
  BY TreatingMoves DEF RowAdded
<1>4. /\ m.at # 0 /\ IsRow(m) /\ c.async = "BUSY"
  BY DEF RowAdded
<1>5. /\ sent > 0 /\ m.at \in DOMAIN Ms /\ m = Ms[m.at] /\ m.at \in Nat /\ m \in Messages
      /\ m.at = place + 1 /\ place \in Nat /\ Len(Ms) \in Nat /\ place < Len(Ms)
  BY <1>1, <1>2, <1>4, HeadKinds, MsFacts, HeadRow
<1>6. ~RowWaits /\ Filling = c.result /\ c.single = program[sent].single
  BY <1>1, <1>2, <1>4, BusyResult, BusyKinds
<1>0. c.result \in Results /\ c'.result \in Results
  BY <1>1, <1>5, RowAddedResult
<1>21. PICK r \in Results, q \in Results : r = c.result /\ q = c'.result
  BY <1>0
<1>7. /\ r \in Results /\ Is(r, "TUPLES_OK") /\ m.n \in Nat /\ r.rows \in Seq(Nat)
      /\ q.stmt = r.stmt
      /\ IF c.single
           THEN q.rows = <<m.n>> /\ c'.async = "READY" /\ RowWaits' /\ Filling' = r
           ELSE q.rows = Append(r.rows, m.n) /\ c'.async = "BUSY" /\ ~RowWaits' /\ Filling' = q
  BY <1>1, <1>5, <1>21, RowAddedResult
<1>8. /\ program[sent].class # "DESCRIBE"
      /\ \E t \in 1..place : \E w \in 0..Len(Ms) : Filled(r, t, w)
  BY <1>1, <1>6, <1>7, <1>21 DEF FillInv
<1>9. PICK t \in 1..place, w \in 0..Len(Ms) : Filled(r, t, w)
  BY <1>8
<1>10. /\ t \in Nat /\ w \in Nat /\ t \in DOMAIN Ms /\ Ms[t].id = "T" /\ Ms[t].stmt = r.stmt
       /\ \A k \in t + 1..place : Ms[k].id # "T"
       /\ RowPlaces(Ms, r.stmt) \intersect 1..place = t + 1..t + w
  <2>1. DOMAIN Ms = 1..Len(Ms)
    BY <1>1, <1>5, AnswerShape
  <2> HIDE DEF Ms
  <2> QED BY <1>5, <1>9, <2>1 DEF Filled, Describes
<1>11. PICK last \in t..Len(Ms) :
         /\ RowPlaces(Ms, r.stmt) = t + 1..last
         /\ \A k \in t + 1..last : IsRow(Ms[k]) /\ Ms[k].stmt = r.stmt /\ Ms[k].n = k - t
  BY <1>1, <1>10, RowRun
<1>12. PICK u \in 1..place : u \in DOMAIN Ms /\ Ms[u].id = "T" /\ Ms[u].stmt = m.stmt
  <2>1. \E u \in 1..m.at - 1 : u \in DOMAIN Ms /\ Ms[u].id = "T" /\ Ms[u].stmt = Ms[m.at].stmt
    BY <1>1, <1>4, <1>5, RowIsDescribed
  <2>2. m.at - 1 = place
    BY <1>5
  <2> HIDE DEF Ms
  <2> QED BY <1>5, <2>1, <2>2
<1>13. PICK end \in u..Len(Ms) :
         /\ RowPlaces(Ms, m.stmt) = u + 1..end
         /\ \A k \in u + 1..end : IsRow(Ms[k])
  BY <1>1, <1>12, RowRun
<1> HIDE DEF Ms
<1>14. u = t
  <2>1. ~(u > t)
    <3>1. u > t => u \in t + 1..place
      BY <1>10, <1>12
    <3> QED BY <1>10, <1>12, <3>1
  <2>2. m.at \in RowPlaces(Ms, m.stmt)
    BY <1>4, <1>5 DEF RowPlaces
  <2>3. m.at <= end
    BY <1>13, <2>2
  <2>4. ~(u < t)
    <3>1. u < t => t \in u + 1..end
      BY <1>5, <1>9, <1>10, <1>12, <1>13, <2>3
    <3>2. ~IsRow(Ms[t])
      BY <1>10 DEF IsRow
    <3> QED BY <1>13, <3>1, <3>2
  <2> QED BY <1>10, <1>12, <2>1, <2>4
<1>15. m.stmt = r.stmt /\ m.at \in t + 1..last /\ w = place - t /\ m.n = w + 1
  <2>1. m.stmt = r.stmt
    BY <1>10, <1>12, <1>14
  <2>2. m.at \in RowPlaces(Ms, r.stmt)
    BY <1>4, <1>5, <2>1 DEF RowPlaces
  <2>3. m.at \in t + 1..last
    BY <1>11, <2>2
  <2>4. t + 1..t + w = t + 1..place
    <3>1. (t + 1..last) \intersect 1..place = t + 1..place
      BY <1>5, <1>9, <1>10, <2>3
    <3> QED BY <1>10, <1>11, <3>1
  <2>5. w = place - t
    <3>1. place >= t
      BY <1>9, <1>10
    <3>2. w > place - t => t + w \in t + 1..t + w /\ t + w \notin t + 1..place
      BY <1>5, <1>10, <3>1
    <3>3. w < place - t => place \in t + 1..place /\ place \notin t + 1..t + w
      BY <1>5, <1>10, <3>1
    <3>4. w \in Nat /\ place \in Nat /\ t \in Nat
      BY <1>5, <1>10
    <3>5. ~(w > place - t) /\ ~(w < place - t)
      BY <2>4, <3>2, <3>3
    <3> QED BY <3>4, <3>5
  <2>6. m.n = m.at - t
    BY <1>5, <1>11, <2>3
  <2> QED BY <1>5, <1>10, <2>1, <2>3, <2>5, <2>6
<1>16. SingleRowsOf(r.stmt)' = SingleRowsOf(r.stmt)
  BY <1>2 DEF SingleRowsOf, SingleRows
<1>17. w + 1 \in 0..Len(Ms) /\ t \in 1..m.at
  BY <1>5, <1>9, <1>10, <1>15
<1>18. /\ Describes(Ms[t], r.stmt) /\ \A k \in t + 1..m.at : Ms[k].id # "T"
       /\ RowPlaces(Ms, r.stmt) \intersect 1..m.at = t + 1..t + (w + 1)
  <2>1. \A k \in t + 1..m.at : Ms[k].id # "T"
    <3>1. \A k \in t + 1..m.at : k \in t + 1..place \/ k = m.at
      BY <1>5, <1>10
    <3>2. m.id # "T"
      BY <1>4 DEF IsRow
    <3> QED BY <1>5, <1>10, <3>1, <3>2
  <2>2. t + (w + 1) = m.at
    BY <1>5, <1>10, <1>15
  <2>3. RowPlaces(Ms, r.stmt) \intersect 1..m.at = t + 1..m.at
    BY <1>10, <1>11, <1>15
  <2> QED BY <1>10, <2>1, <2>2, <2>3 DEF Describes
<1>19. /\ program[sent].single => r.rows = <<>> /\ SingleRowsOf(r.stmt) = 1..w
       /\ ~program[sent].single => r.rows = [k \in 1..w |-> k]
  BY <1>6, <1>9 DEF Filled
<1>20. \E t1 \in 1..place' : \E w1 \in 0..Len(Ms') : Filled(Filling, t1, w1)'
  <2>1. CASE c.single
    <3>1. Filling' = r /\ RowWaits' /\ c'.result.rows = <<w + 1>> /\ (w + 1) - 1 = w /\ w + 1 > 0
      BY <1>7, <1>10, <1>15, <1>21, <2>1
    <3>2. Filled(r, t, w + 1)'
      BY <1>2, <1>3, <1>6, <1>16, <1>18, <1>19, <2>1, <3>1 DEF Filled
    <3>3. Filled(Filling, t, w + 1)'
      BY <3>1, <3>2
    <3> QED BY <1>3, <1>17, <3>3
  <2>2. CASE ~c.single
    <3>1. Filling' = q /\ ~RowWaits' /\ c'.async = "BUSY" /\ q.rows = Append(r.rows, w + 1)
      BY <1>7, <1>15, <2>2
    <3>2. q.rows = [k \in 1..w + 1 |-> k]
      <4> DEFINE g == [k \in 1..w |-> k]
      <4>1. g \in Seq(Nat) /\ Len(g) = w /\ r.rows = g
        BY <1>6, <1>10, <1>19, <2>2
      <4>2. \A k \in 1..w : g[k] = k
        OBVIOUS
      <4> HIDE DEF g
      <4> DEFINE a == Append(g, w + 1)
                 b == [k \in 1..w + 1 |-> k]
      <4>3. a \in Seq(Nat) /\ Len(a) = w + 1 /\ \A k \in 1..w + 1 : a[k] = k
        BY <1>10, <4>1, <4>2
      <4>4. b \in Seq(Nat) /\ Len(b) = w + 1 /\ \A k \in 1..w + 1 : b[k] = k
        BY <1>10
      <4> HIDE DEF a, b
      <4>5. a = b
        BY <4>3, <4>4, SeqEqual
      <4> QED BY <3>1, <4>1, <4>5 DEF a, b
    <3>3. Filled(q, t, w + 1)'
      <4>1. Describes(Ms[t], q.stmt) /\ RowPlaces(Ms, q.stmt) \intersect 1..m.at = t + 1..t + (w + 1)
        BY <1>7, <1>18
      <4> QED BY <1>2, <1>3, <1>6, <1>18, <2>2, <3>1, <3>2, <4>1 DEF Filled
    <3>4. Filled(Filling, t, w + 1)'
      BY <3>1, <3>3
    <3> QED BY <1>3, <1>17, <3>4
  <2> QED BY <2>1, <2>2
<1> QED BY <1>2, <1>3, <1>5, <1>8, <1>20 DEF FillInv

LEMMA FillTreated ==
  ASSUME IInv, NEW m, NEW act, NEW failed, Treating(m, act, failed)
  PROVE  FillInv'
<1>1. TypeOK /\ StreamInv /\ ConnInv /\ FillInv
  BY DEF IInv, RowsInv
<1>2. /\ in # <<>> /\ m = Head(in) /\ Kind(c', m, act, failed) /\ UNCHANGED <<program, sent, delivered>>
      /\ pc \in FunctionPcs => Ignored(c', m, act)
  BY DEF Treating
<1>3. c'.pversion = c.pversion /\ m \in Messages /\ c'.single = c.single
  BY <1>1, <1>2, KindFrame, HeadKinds
<1>4. /\ Ms' = Ms /\ place' \in Nat /\ place <= place' /\ place \in Nat /\ place' <= Len(Ms)
      /\ act \in {"next", "end"} => place' = IF m.at = 0 THEN place ELSE m.at
      /\ act \in {"next", "end"} => \A k \in place + 1..place' : k = m.at \/ Ms[k].id = "end"
      /\ act = "stay" => place' = place
      /\ c.async = "IDLE" /\ c.ok /\ pc \notin FunctionPcs => place' = place
  BY <1>1, TreatingMoves, MsFacts
<1>5. /\ m.at # 0 => m = Ms[m.at] /\ m.at \in Nat
  BY <1>1, <1>2, HeadKinds
<1>6. /\ place' = place => NoRows(place, place')
      /\ act = "next" /\ (m.at = 0 \/ (m.id # "T" /\ ~IsRow(m))) => NoRows(place, place')
  <2> HIDE DEF Ms
  <2>1. place' = place => place + 1..place' = {}
    BY <1>4
  <2>2. \A k : Ms[k].id = "end" => Ms[k].id # "T" /\ ~IsRow(Ms[k])
    BY DEF IsRow
  <2> QED BY <1>4, <1>5, <2>1, <2>2 DEF NoRows
<1>7. ASSUME KeepsResult(c'), Is(Filling, "TUPLES_OK") => NoRows(place, place'),
             c'.async = "READY" /\ ~RowWaits =>
               c.async = "READY" \/ (Is(Filling, "TUPLES_OK") => RowPlaces(Ms, Filling.stmt) \subseteq 1..place')
      PROVE  FillInv'
  <2>1. CASE Is(Filling, "TUPLES_OK")
    BY <1>1, <1>2, <1>3, <1>4, <1>7, <2>1, FillKept
  <2>2. CASE ~Is(Filling, "TUPLES_OK")
    <3>1. ~Is(Filling', "TUPLES_OK")
      BY <1>7, <2>2 DEF KeepsResult, Filling, RowWaits, Is
    <3> QED BY <3>1 DEF FillInv, Is
  <2> QED BY <2>1, <2>2
<1>8. c.async = "BUSY" => /\ ~RowWaits /\ Filling = c.result
                          /\ IsError(c.result) <=> Is(c.result, "FATAL_ERROR")
  BY <1>1, BusyResult
<1>9. CASE Ignored(c', m, act)
  <2>1. KeepsResult(c') /\ c'.async = c.async
    BY <1>9 DEF Ignored
  <2>2. ~c.ok => c.async = "IDLE" /\ c.result = NULL /\ c.next_result = NULL
    <3>1. ~c.ok => c.async = "IDLE" /\ c.result = NULL
      BY <1>1, <1>2 DEF ConnInv
    <3> QED BY <1>1, <3>1 DEF ConnInv
  <2>3. ~c.ok => ~Is(Filling, "TUPLES_OK")
    BY <2>2 DEF Filling, Is
  <2>4. Is(Filling, "TUPLES_OK") => NoRows(place, place')
    <3>1. Is(c.result, "TUPLES_OK") => ~Is(c.result, "FATAL_ERROR") /\ c.result # NULL
      BY DEF Is
    <3> QED BY <1>4, <1>6, <1>8, <1>9, <2>3, <3>1 DEF Ignored, Plain
  <2> QED BY <1>7, <2>1, <2>4
<1>10. CASE Finished(c', m, act)
  <2>1. KeepsResult(c') /\ c.async = "BUSY" /\ m.at # 0
    BY <1>10 DEF Finished
  <2>2. Is(Filling, "TUPLES_OK") => c.class # "DESCRIBE"
    BY <1>1, <1>2, <2>1, BusyKinds DEF FillInv
  <2>3. Is(Filling, "TUPLES_OK") => ~IsRow(m) /\ act \in {"stay", "next"} /\ (act = "next" => m.id # "T")
    BY <1>10, <2>2 DEF Finished, Plain
  <2>4. Is(Filling, "TUPLES_OK") => NoRows(place, place')
    BY <1>4, <1>6, <2>3
  <2>5. ASSUME Is(Filling, "TUPLES_OK") PROVE RowPlaces(Ms, Filling.stmt) \subseteq 1..place'
    <3>1. PICK t \in 1..place, w \in 0..Len(Ms) : Filled(Filling, t, w)
      BY <1>1, <2>5 DEF FillInv
    <3>2. Ms[t].id = "T" /\ Ms[t].stmt = Filling.stmt
      BY <3>1 DEF Filled, Describes
    <3>3. t \in DOMAIN Ms /\ t <= place' /\ t \in Nat
      <4>1. Placed(Ms) /\ Len(Ms) \in Nat
        BY <1>1, MsFacts
      <4> HIDE DEF Ms
      <4> QED BY <1>4, <3>1, <4>1 DEF Placed
    <3>4. place' < Len(Ms) => ~IsRow(Ms[place' + 1])
      BY <2>1, <2>3, <2>5, RowAhead
    <3>5. RowPlaces(Ms, Ms[t].stmt) \subseteq 1..place'
      BY <1>1, <1>4, <3>2, <3>3, <3>4, RowsPassed
    <3> QED BY <3>2, <3>5
  <2> QED BY <1>7, <2>1, <2>4, <2>5
<1>11. CASE AnswerEnds(c', m, act)
  <2>1. KeepsResult(c') /\ c'.async = "IDLE" /\ act = "next" /\ m.id = "Z"
    BY <1>11 DEF AnswerEnds
  <2>2. NoRows(place, place')
    BY <1>6, <2>1 DEF IsRow
  <2> QED BY <1>7, <2>1, <2>2
<1>12. CASE Refused(c', m, act, failed)
  BY <1>12 DEF Refused, FillInv, Filling, RowWaits, Is
<1>13. CASE Made(c', m, act)
  BY <1>13 DEF Made, FillInv, Filling, RowWaits, Is
<1>14. CASE Described(c', m, act)
  BY <1>14, FillDescribed
<1>15. CASE RowAdded(c', m, act)
  BY <1>15, FillRowAdded
<1>16. CASE CopyBegun(c', m, act)
  <2>1. m.id \in {"G", "H", "W"} /\ act = "next" /\ c'.next_result = c.next_result
        /\ c'.async \in CopyStates /\ c.async = "BUSY"
    BY <1>16 DEF CopyBegun, CopyStates
  <2>2. CASE c'.result = c.result
    <3>1. NoRows(place, place')
      BY <1>6, <2>1 DEF IsRow
    <3>2. KeepsResult(c')
      BY <2>1, <2>2 DEF KeepsResult
    <3> QED BY <1>7, <2>1, <3>1, <3>2 DEF CopyStates
  <2>3. CASE c'.result # c.result
    <3>1. c'.result = NewResult(c'.async, m.stmt)
      BY <1>16, <2>3 DEF CopyBegun
    <3> QED BY <2>1, <3>1 DEF FillInv, Filling, RowWaits, Is, NewResult, CopyStates
  <2> QED BY <2>2, <2>3
<1> QED BY <1>2, <1>9, <1>10, <1>11, <1>12, <1>13, <1>14, <1>15, <1>16 DEF Kind

LEMMA PendingMoves ==
  ASSUME TypeOK, PendingInv, in # <<>>, UNCHANGED <<program, sent, got>>, place' \in Nat, place <= place',
         Head(in).at \in Nat, (in' = in /\ place' = place) \/ Head(in).at <= place'
  PROVE  PendingInv'
<1>1. Ms' = Ms /\ place \in Nat /\ Len(Ms) \in Nat
  BY MsFacts DEF Ms
<1> HIDE DEF Ms
<1>2. PICK q \in Nat : q = place'
  OBVIOUS
<1>3. ASSUME sent > 0, NEW k \in q + 1..Len(Ms), got[sent][k] # 0 PROVE in' # <<>> /\ Head(in').at = k
  <2>0. place <= q
    BY <1>2
  <2>1. k \in Nat /\ k > q
    BY <1>1, <1>3
  <2>2. k \in place + 1..Len(Ms)
    BY <1>1, <1>3, <2>0, <2>1
  <2>3. Head(in).at = k
    BY <1>3, <2>2 DEF PendingInv
  <2>4. ~(Head(in).at <= q)
    BY <1>2, <2>1, <2>3
  <2> QED BY <1>2, <2>3, <2>4
<1> QED BY <1>1, <1>2, <1>3 DEF PendingInv

LEMMA PendingTreated ==
  ASSUME IInv, NEW m, NEW act, NEW failed, Treating(m, act, failed)
  PROVE  PendingInv'
<1>1. TypeOK /\ StreamInv /\ PendingInv
  BY DEF IInv, CopyInv
<1>2. in # <<>> /\ m = Head(in) /\ UNCHANGED <<program, sent, got>>
  BY DEF Treating
<1>3. /\ place' \in Nat /\ place <= place'
      /\ act = "stay" => in' = in /\ place' = place
      /\ act # "stay" => m.at <= place'
  BY TreatingMoves
<1>4. m.at \in Nat
  BY <1>1, <1>2, HeadKinds
<1> QED BY <1>1, <1>2, <1>3, <1>4, PendingMoves

LEMMA PieceTreated ==
  ASSUME IInv, NEW m, NEW act, NEW failed, Treating(m, act, failed)
  PROVE  PieceInv'
<1>1. TypeOK /\ StreamInv /\ ConnInv /\ PieceInv
  BY DEF IInv, CopyInv
<1>2. in # <<>> /\ m = Head(in) /\ Kind(c', m, act, failed)
  BY DEF Treating
<1>3. c'.pversion = c.pversion /\ act = "stay" => in' = in
  BY <1>2, TreatingMoves
<1>4. c.copy_already_done \in Nat
  BY <1>1 DEF TypeOK, Connections
<1>5. CASE Ignored(c', m, act)
  <2>1. c'.copy_already_done = c.copy_already_done /\ c'.async = c.async
    BY <1>5 DEF Ignored, KeepsPlace
  <2>2. c.async \in CopyOutStates => act = "stay" \/ m.at = 0
    BY <1>5 DEF Ignored, CopyOutStates
  <2>3. m.at = 0 => ~IsData(m)
    BY <1>1, <1>2, HeadKinds DEF IsData, DataIds
  <2>4. m.at = 0 /\ c.async \in CopyOutStates => c.copy_already_done = 0
    BY <1>1, <1>2, <1>4, <2>3 DEF PieceInv, DataThere
  <2>5. c'.pversion = c.pversion /\ (c'.ok => c.ok)
    BY <1>2, KindFrame
  <2>6. act = "stay" => in' = in
    BY TreatingMoves
  <2> QED BY <1>1, <1>4, <2>1, <2>2, <2>4, <2>5, <2>6 DEF PieceInv, DataThere
<1>6. CASE ~Ignored(c', m, act) /\ ~CopyBegun(c', m, act)
  <2>1. c'.pversion = c.pversion /\ (c'.ok => c.ok)
    BY <1>2, KindFrame
  <2>2. c'.async \notin CopyOutStates
    BY <1>2, <1>6 DEF Kind, Finished, Refused, Made, Described, RowAdded, AnswerEnds, CopyOutStates
  <2>3. c.pversion = 2 => c.async = "BUSY" /\ c'.copy_already_done = c.copy_already_done
    BY <1>2, <1>6 DEF Kind, Finished, Refused, Made, Described, RowAdded, AnswerEnds, KeepsPlace
  <2> QED BY <1>1, <2>1, <2>2, <2>3 DEF PieceInv
<1>7. CASE CopyBegun(c', m, act)
  <2>1. c'.pversion = c.pversion /\ c.pversion \in {2, 3}
    BY <1>1, <1>2, KindFrame, ProgramAnswered
  <2>2. c.async = "BUSY" /\ (c.pversion = 2 => c'.copy_already_done = c.copy_already_done)
        /\ (c.pversion = 3 /\ c'.async \in CopyOutStates => c'.copy_already_done = 0)
    BY <1>7 DEF CopyBegun, CopyOutStates
  <2>3. c.pversion = 2 => c.copy_already_done = 0
    <3>1. c.ok
      BY <1>1, <1>2, <2>2, BusyKinds
    <3> QED BY <1>1, <2>2, <3>1 DEF PieceInv
  <2> QED BY <2>1, <2>2, <2>3 DEF PieceInv
<1> QED BY <1>5, <1>6, <1>7

\* A place of the answer that a message of the answer can be at.
LEMMA PlacesOf ==
  ASSUME TypeOK
  PROVE  \A k \in 1..place : k \in DOMAIN Ms /\ k \in Nat
<1>1. Placed(Ms) /\ place <= Len(Ms) /\ Len(Ms) \in Nat /\ place \in Nat
  BY MsFacts DEF TypeOK
<1> HIDE DEF Ms
<1> QED BY <1>1 DEF Placed

\* What is left of a copy while its state, what was handed over and the
\* place in a piece are the same.
LEMMA CopyingKept ==
  ASSUME TypeOK, StreamInv, CopyingInv, UNCHANGED <<program, sent, got, copied, place>>,
         c'.copy_already_done = c.copy_already_done, c'.pversion = c.pversion,
         c'.ok => c.ok, c'.async \in CopyOutStates => c.async \in CopyOutStates,
         c.pversion = 2 /\ c'.async = "COPY_OUT" => c.async = "COPY_OUT",
         c'.async \in CopyOutStates => (in # <<>> /\ in' # <<>> /\ Head(in') = Head(in)) \/ c.copy_already_done = 0
  PROVE  CopyingInv'
<1>1. Ms' = Ms
  BY DEF Ms
<1>2. c'.ok /\ c'.async \in CopyOutStates => \A k \in Nat : HandedNow(k)' = HandedNow(k)
  BY <1>1 DEF HandedNow
<1>3. \A h \in 1..place : CopiedFrom(h) /\ c'.ok /\ c'.async \in CopyOutStates => CopiedFrom(h)'
  <2>1. DOMAIN Ms \subseteq Nat
    <3>1. Placed(Ms)
      BY MsFacts
    <3> HIDE DEF Ms
    <3> QED BY <3>1 DEF Placed
  <2> HIDE DEF Ms
  <2> QED BY <1>1, <1>2, <2>1 DEF CopiedFrom
<1> HIDE DEF Ms
<1> QED BY <1>1, <1>3 DEF CopyingInv

LEMMA CopyingBegun ==
  ASSUME IInv, NEW m, NEW act, NEW failed, Treating(m, act, failed), CopyBegun(c', m, act)
  PROVE  CopyingInv'
<1>1. TypeOK /\ StreamInv /\ ConnInv /\ PieceInv /\ PendingInv /\ ToldInv
  BY DEF IInv, CopyInv
<1>2. in # <<>> /\ m = Head(in) /\ UNCHANGED <<program, sent, got, copied>>
  BY DEF Treating
<1>3. /\ m.at # 0 /\ c.async = "BUSY" /\ act = "next"
      /\ c'.async \in CopyOutStates => m.id \in {"H", "W"}
      /\ c'.async = "COPY_OUT" => m.id = "H"
      /\ c.pversion = 3 /\ c'.async \in CopyOutStates => c'.copy_already_done = 0
      /\ c.pversion = 2 => c'.copy_already_done = c.copy_already_done
      /\ c'.pversion = c.pversion
  BY KindFrame DEF CopyBegun, CopyOutStates, Treating, Same
<1>4. Ms' = Ms /\ place' = m.at /\ c.pversion \in {2, 3}
  BY <1>1, <1>3, TreatingMoves, ProgramAnswered
<1>5. /\ sent > 0 /\ m.at \in DOMAIN Ms /\ m = Ms[m.at] /\ m.at > place /\ m.at \in Nat /\ m.stmt \in Nat
      /\ (m.at = Len(Ms) => m.id = "Z") /\ (m.at # Len(Ms) => m.stmt > 0) /\ place \in Nat
  BY <1>1, <1>2, <1>3, HeadKinds, MsFacts
<1>6. DOMAIN Ms \subseteq Nat /\ DOMAIN Ms = 1..Len(Ms) /\ Len(Ms) \in Nat
  <2>1. Placed(Ms)
    BY <1>1, MsFacts
  <2> HIDE DEF Ms
  <2> QED BY <2>1 DEF Placed
<1> SUFFICES ASSUME c'.ok, c'.async \in CopyOutStates
             PROVE  CopiedFrom(m.at)' /\ (c'.pversion = 2 /\ c'.async = "COPY_OUT" => InLines(m))
  <2> HIDE DEF Ms
  <2>1. m.at \in 1..m.at /\ m.at > 0
    BY <1>3, <1>5
  <2> QED BY <1>4, <1>5, <2>1 DEF CopyingInv, CopyOutStates
<1>7. StartsCopy(m) /\ (c'.async = "COPY_OUT" => InLines(m))
  BY <1>3 DEF StartsCopy, InLines
<1>8. m.stmt \notin copied
  <2>1. m.stmt # 0 /\ Ms[m.at].stmt # 0
    BY <1>3, <1>5
  <2>2. ~Before(m.stmt)
    BY <1>1, <1>5, <2>1, QueryIs
  <2>3. ~CopySeen(m.stmt)
    <3>1. DataFollows(Ms)
      BY <1>1, <1>5, MsFacts DEF Answers
    <3>2. \A h \in 1..place : h \in DOMAIN Ms /\ h # m.at
      BY <1>1, <1>5, PlacesOf
    <3> HIDE DEF Ms
    <3>3. \A h \in DOMAIN Ms : StartsCopy(Ms[h]) /\ Ms[h].stmt = Ms[m.at].stmt => h = m.at
      BY <1>5, <1>7, <3>1 DEF DataFollows
    <3> QED BY <1>5, <3>2, <3>3 DEF CopySeen
  <2> QED BY <1>1, <2>1, <2>2, <2>3 DEF ToldInv
<1>9. c'.copy_already_done = 0
  <2>1. c.ok
    BY <1>1, <1>2, <1>3, BusyKinds
  <2>2. c.pversion = 2 => c.copy_already_done = 0
    BY <1>1, <1>3, <2>1 DEF PieceInv
  <2> QED BY <1>3, <1>4, <2>2
<1>10. \A k \in DOMAIN Ms : IsData(Ms[k]) /\ Ms[k].stmt = m.stmt => k > m.at /\ got[sent][k] = 0
  <2> TAKE k \in DOMAIN Ms
  <2> HAVE IsData(Ms[k]) /\ Ms[k].stmt = m.stmt
  <2>1. k > m.at
    BY <1>1, <1>5, <1>7, CopyOfData
  <2>2. k \in place + 1..Len(Ms)
    <3> HIDE DEF Ms
    <3> QED BY <1>5, <1>6, <2>1
  <2>3. got[sent][k] # 0 => m.at = k
    BY <1>1, <1>2, <1>5, <2>2 DEF PendingInv
  <2> QED BY <1>5, <1>6, <2>1, <2>3
<1> HIDE DEF Ms
<1>11. \A k \in DOMAIN Ms : k > m.at => HandedNow(k)' = 0
  <2>1. \A k \in DOMAIN Ms : k > m.at => ~(k <= m.at)
    BY <1>5, <1>6
  <2> QED BY <1>4, <1>9, <2>1 DEF HandedNow
<1>12. m.at + 1..m.at = {}
  BY <1>5
<1>13. CopiedFrom(m.at)'
  BY <1>2, <1>4, <1>5, <1>7, <1>8, <1>10, <1>11, <1>12 DEF CopiedFrom
<1> QED BY <1>7, <1>13

LEMMA CopyingTreated ==
  ASSUME IInv, NEW m, NEW act, NEW failed, Treating(m, act, failed)
  PROVE  CopyingInv'
<1>1. TypeOK /\ StreamInv /\ CopyingInv /\ PieceInv
  BY DEF IInv, CopyInv
<1>2. in # <<>> /\ m = Head(in) /\ Kind(c', m, act, failed) /\ UNCHANGED <<program, sent, got, copied>>
  BY DEF Treating
<1>3. c'.pversion = c.pversion /\ c.copy_already_done \in Nat
  BY <1>1, <1>2, KindFrame DEF TypeOK, Connections
<1>4. CASE ~(c'.ok /\ c'.async \in CopyOutStates)
  BY <1>4 DEF CopyingInv, CopyOutStates
<1>5. CASE c'.ok /\ c'.async \in CopyOutStates /\ Ignored(c', m, act)
  <2>1. /\ c'.copy_already_done = c.copy_already_done /\ c'.async = c.async /\ c'.ok = c.ok
        /\ act = "stay" \/ (act = "next" /\ m.at = 0)
    BY <1>5 DEF Ignored, KeepsPlace, CopyOutStates
  <2>2. place' = place /\ (act = "stay" => in' = in)
    BY <2>1, TreatingMoves
  <2>3. m.at = 0 => ~IsData(m)
    BY <1>1, <1>2, HeadKinds DEF IsData, DataIds
  <2>4. m.at = 0 => c.copy_already_done = 0
    BY <1>1, <1>2, <1>3, <1>5, <2>1, <2>3 DEF PieceInv, DataThere
  <2>5. (in' # <<>> /\ Head(in') = Head(in)) \/ c.copy_already_done = 0
    BY <1>2, <2>1, <2>2, <2>4
  <2> QED BY <1>1, <1>2, <1>3, <2>1, <2>2, <2>5, CopyingKept
<1>6. CASE c'.ok /\ c'.async \in CopyOutStates /\ ~Ignored(c', m, act)
  <2>1. CopyBegun(c', m, act)
    BY <1>2, <1>6 DEF Kind, Finished, Refused, Made, Described, RowAdded, AnswerEnds, CopyOutStates
  <2> QED BY <2>1, CopyingBegun
<1> QED BY <1>4, <1>5, <1>6

\* All of the invariant.
LEMMA TreatingKeeps ==
  ASSUME IInv, NEW m, NEW act, NEW failed, Treating(m, act, failed)
  PROVE  IInv'
<1>1. TypeOK' /\ StreamInv' /\ ConnInv'
  BY TypesTreated, TreatingMoves, ConnTreated
<1>2. RowsInv'
  BY FillTreated, NextRowTreated, ErrorTreated, HistoryTreated, LinesTreated DEF RowsInv
<1>3. CopyInv'
  BY CopyingTreated, PieceTreated, PendingTreated, HistoryTreated DEF CopyInv
<1> QED BY <1>1, <1>2, <1>3 DEF IInv

\* One turn of the loop of parseInput.
LEMMA ParseMessageKeeps ==
  ASSUME IInv, ParseMessage
  PROVE  IInv'
<1>1. TypeOK /\ StreamInv /\ in # <<>> /\ pc \in {"parse", "poll"} /\ pc \notin FunctionPcs
  BY DEF IInv, ParseMessage, FunctionPcs
<1>2. PICK o \in parseInput(Head(in)) :
        /\ Treated(o, Head(in))
        /\ pc' = IF o.act = "next" THEN pc ELSE IF pc = "poll" THEN "user" ELSE "parsed"
  BY DEF ParseMessage
<1>3. o.act \in Acts /\ o.failed \in BOOLEAN /\ ParseKind(o, Head(in))
  BY <1>1, ParserKinds
<1>4. PICK m \in Messages : m = Head(in) /\ m.stmt \in Nat
  BY <1>1, HeadKinds
<1>5. /\ InputAfter(o.act) /\ c' = o.c
      /\ hurt' = IF o.failed THEN hurt \union {m.stmt} ELSE hurt
  BY <1>2, <1>4 DEF Treated
<1>6. UNCHANGED <<program, sent, script, alive, delivered, got, copied>>
  BY DEF ParseMessage, serverVars
<1>7. pc' \in Pcs /\ pc' \notin FunctionPcs
  BY <1>1, <1>2 DEF Pcs, FunctionPcs
<1>8. hurt \subseteq hurt' /\ hurt' \in SUBSET Nat /\ (o.failed => m.stmt \in hurt')
  BY <1>1, <1>3, <1>4, <1>5 DEF TypeOK
<1>9. Kind(c', m, o.act, o.failed)
  BY <1>3, <1>4, <1>5 DEF ParseKind
<1>10. Treating(m, o.act, o.failed)
  BY <1>1, <1>3, <1>4, <1>5, <1>6, <1>7, <1>8, <1>9 DEF Treating
<1> QED BY <1>10, TreatingKeeps

-----------------------------------------------------------------------------
(* Steps that leave the connection alone. *)

LEMMA Unmoved ==
  ASSUME IInv, c' = c, UNCHANGED <<program, sent, place, delivered, got, copied, hurt>>,
         in' = in \/ (c.ok /\ (in # <<>> => in' # <<>> /\ Head(in') = Head(in))),
         pc' \in FunctionPcs <=> pc \in FunctionPcs, TypeOK', StreamInv'
  PROVE  IInv'
<1>1. /\ TypeOK /\ StreamInv /\ ConnInv /\ FillInv /\ NextRowInv /\ ErrorInv /\ BareInv /\ LinesInv
      /\ SeenInv /\ RightAnswers /\ CopyingInv /\ PieceInv /\ PendingInv /\ ToldInv /\ CopyDataWhole
  BY DEF IInv, RowsInv, CopyInv
<1>2. Ms' = Ms /\ place \in Nat /\ c.copy_already_done \in Nat
  BY <1>1, MsFacts DEF Ms, TypeOK, Connections
<1>3. SeenInv' /\ RightAnswers' /\ ToldInv' /\ CopyDataWhole'
  BY <1>1, <1>2, HistoryKept
<1>4. FillInv'
  <2>1. NoRows(place, place')
    <3>1. place + 1..place = {}
      BY <1>2
    <3> QED BY <3>1 DEF NoRows
  <2>2. KeepsResult(c')
    BY DEF KeepsResult
  <2> QED BY <1>1, <1>2, <2>1, <2>2, FillKept
<1>5. CopyingInv'
  <2>1. in = <<>> /\ c.async \in CopyOutStates => c.copy_already_done = 0
    BY <1>1, <1>2 DEF PieceInv, DataThere
  <2> QED BY <1>1, <2>1, CopyingKept
<1>6. ErrorInv' /\ BareInv'
  <2>1. (\A s : Troubled(s) => Troubled(s)') /\ (OutOfStep => OutOfStep')
    BY SameProgram
  <2> QED BY <1>1, <2>1 DEF ErrorInv, BareInv
<1> HIDE DEF Ms
<1>7. ConnInv'
  BY <1>1, <1>2 DEF ConnInv, RowWaits
<1>8. NextRowInv' /\ LinesInv'
  BY <1>1, <1>2 DEF NextRowInv, LinesInv, OutOfStep, Filling, RowWaits
<1>9. PieceInv'
  BY <1>1, <1>2 DEF PieceInv, DataThere
<1>10. PendingInv'
  BY <1>1, <1>2 DEF PendingInv
<1> QED BY <1>1, <1>3, <1>4, <1>5, <1>6, <1>7, <1>8, <1>9, <1>10 DEF IInv, RowsInv, CopyInv

\* Only where the call is changes.
LEMMA CallMoves ==
  ASSUME IInv, UNCHANGED <<c, program, sent, place, in, script, half, alive, delivered, got, copied, hurt>>,
         pc' \in Pcs, pc' \in FunctionPcs <=> pc \in FunctionPcs
  PROVE  IInv'
<1>1. TypeOK /\ StreamInv
  BY DEF IInv
<1>2. TypeOK'
  BY <1>1 DEF TypeOK, Ms
<1>3. StreamInv'
  BY <1>1, StreamSame
<1> QED BY <1>2, <1>3, Unmoved

LEMMA Reads ==
  ASSUME IInv, pqReadData, c' = c, UNCHANGED <<program, sent, place, alive, delivered, got, copied, hurt>>,
         pc' \in Pcs, pc' \in FunctionPcs <=> pc \in FunctionPcs
  PROVE  IInv'
<1>1. TypeOK /\ StreamInv /\ c.ok
  BY DEF IInv, pqReadData
<1>2. /\ StreamInv' /\ in' \in Seq(Messages) /\ script' \in Seq(Messages) /\ half' \in BOOLEAN
      /\ \A i \in DOMAIN in : i \in DOMAIN in' /\ in'[i] = in[i]
  BY <1>1, StreamRead
<1>3. in # <<>> => in' # <<>> /\ Head(in') = Head(in)
  <2>1. in # <<>> => 1 \in DOMAIN in /\ Head(in) = in[1]
    BY <1>1 DEF TypeOK
  <2>2. 1 \in DOMAIN in' => in' # <<>> /\ Head(in') = in'[1]
    BY <1>2
  <2> QED BY <1>2, <2>1, <2>2
<1>4. TypeOK'
  BY <1>1, <1>2 DEF TypeOK, Ms
<1> QED BY <1>1, <1>2, <1>3, <1>4, Unmoved

\* Waiting, asking again, reading: the steps that leave the connection alone.
LEMMA QuietKeeps ==
  ASSUME IInv, \/ GetResultReads \/ Poll \/ CopyReads \/ FunctionReads \/ PQgetResult \/ GetResultWaits
               \/ GetResultIdle \/ ServerInterjects \/ ServerDies \/ UNCHANGED vars
  PROVE  IInv'
<1>1. TypeOK /\ StreamInv
  BY DEF IInv
<1>2. CASE GetResultReads \/ Poll \/ CopyReads \/ FunctionReads
  <2>1. /\ pqReadData /\ c' = c /\ UNCHANGED <<program, sent, place, alive, delivered, got, copied, hurt>>
    BY <1>2 DEF GetResultReads, Poll, CopyReads, FunctionReads, history
  <2>2. pc' \in Pcs /\ (pc' \in FunctionPcs <=> pc \in FunctionPcs)
    BY <1>2 DEF GetResultReads, Poll, CopyReads, FunctionReads, Pcs, FunctionPcs
  <2> QED BY <2>1, <2>2, Reads
<1>3. CASE PQgetResult \/ GetResultWaits \/ GetResultIdle \/ UNCHANGED vars
  <2>1. UNCHANGED <<c, program, sent, place, in, script, half, alive, delivered, got, copied, hurt>>
    BY <1>3 DEF PQgetResult, GetResultWaits, GetResultIdle, vars, history, connVars, serverVars
  <2>2. pc' \in Pcs /\ (pc' \in FunctionPcs <=> pc \in FunctionPcs)
    BY <1>1, <1>3 DEF PQgetResult, GetResultWaits, GetResultIdle, vars, Pcs, FunctionPcs, TypeOK
  <2> QED BY <2>1, <2>2, CallMoves
<1>4. CASE ServerInterjects
  <2>1. UNCHANGED <<c, program, sent, place, in, half, alive, delivered, got, copied, hurt, pc>>
    BY <1>4 DEF ServerInterjects, history, connVars
  <2>2. StreamInv' /\ script' \in Seq(Messages)
    BY <1>1, <1>4, StreamInterjected
  <2>3. TypeOK'
    BY <1>1, <2>1, <2>2 DEF TypeOK, Ms
  <2> QED BY <2>1, <2>2, <2>3, Unmoved
<1>5. CASE ServerDies
  <2>1. UNCHANGED <<c, program, sent, place, in, delivered, got, copied, hurt, pc>> /\ alive' = FALSE
    BY <1>5 DEF ServerDies, history
  <2>2. StreamInv' /\ script' \in Seq(Messages) /\ half' \in BOOLEAN
    BY <1>1, <1>5, StreamDies
  <2>3. TypeOK'
    BY <1>1, <2>1, <2>2 DEF TypeOK, Ms
  <2> QED BY <2>1, <2>2, <2>3, Unmoved
<1> QED BY <1>2, <1>3, <1>4, <1>5

-----------------------------------------------------------------------------
(* A result is handed out. *)

LEMMA PreparedFacts ==
  ASSUME NEW d \in Connections
  PROVE  /\ Prepared(d) \in Results
         /\ d.result # NULL => Prepared(d) = d.result
         /\ d.result = NULL => Prepared(d) = NewResult("FATAL_ERROR", 0) /\ Is(Prepared(d), "FATAL_ERROR")
                               /\ Prepared(d).stmt = 0
         /\ LET e == pqPrepareAsyncResult(d)
            IN  /\ e \in Connections /\ e.result = d.next_result /\ e.next_result = NULL
                /\ e.pversion = d.pversion /\ e.class = d.class /\ e.single = d.single /\ e.ok = d.ok
                /\ e.copy_already_done = d.copy_already_done /\ e.async = d.async
<1>1. "FATAL_ERROR" \in Statuses
  BY DEF Statuses
<1>2. NewResult("FATAL_ERROR", 0) \in Results /\ NewResult("FATAL_ERROR", 0) # NULL
  BY <1>1, ResultTypes
<1>3. NewResult("FATAL_ERROR", 0).status = "FATAL_ERROR" /\ NewResult("FATAL_ERROR", 0).stmt = 0
  BY DEF NewResult
<1> HIDE DEF NewResult
<1>4. /\ Prepared(d) \in Results
      /\ d.result # NULL => Prepared(d) = d.result
      /\ d.result = NULL => Prepared(d) = NewResult("FATAL_ERROR", 0)
  BY <1>2 DEF Prepared, Connections
<1>5. LET e == pqPrepareAsyncResult(d)
      IN  /\ e \in Connections /\ e.result = d.next_result /\ e.next_result = NULL
          /\ e.pversion = d.pversion /\ e.class = d.class /\ e.single = d.single /\ e.ok = d.ok
          /\ e.copy_already_done = d.copy_already_done /\ e.async = d.async
  BY DEF pqPrepareAsyncResult, Connections
<1> QED BY <1>2, <1>3, <1>4, <1>5 DEF Is

\* The rows of a statement that is filled are those that were treated.
LEMMA FilledRows ==
  ASSUME IInv, Is(Filling, "TUPLES_OK")
  PROVE  \E t \in 1..place : \E w \in 0..Len(Ms) :
           /\ Filled(Filling, t, w) /\ w \in Nat
           /\ Filling.stmt # 0 /\ QueryOf(Filling.stmt) = sent /\ Answer(Filling.stmt) = Ms
           /\ w > 0 => w \in RowsOf(Filling.stmt) /\ RowSeen(Filling.stmt)
           /\ RowPlaces(Ms, Filling.stmt) \subseteq 1..place => RowsOf(Filling.stmt) = 1..w
<1>1. TypeOK /\ FillInv
  BY DEF IInv, RowsInv
<1>2. PICK t \in 1..place, w \in 0..Len(Ms) : Filled(Filling, t, w)
  BY <1>1 DEF FillInv
<1> DEFINE s == Filling.stmt
<1>3. /\ Ms[t].id = "T" /\ Ms[t].stmt = s
      /\ RowPlaces(Ms, s) \intersect 1..place = t + 1..t + w
  BY <1>2 DEF Filled, Describes
<1>4. t \in DOMAIN Ms /\ t \in Nat /\ w \in Nat /\ place \in Nat
  <2>1. Len(Ms) \in Nat /\ place \in Nat
    BY <1>1, MsFacts
  <2> HIDE DEF Ms
  <2> QED BY <1>1, <1>2, <2>1, PlacesOf
<1>5. s # 0
  BY <1>1, <1>3, <1>4, AnswerShape
<1>6. QueryOf(s) = sent /\ Answer(s) = Ms
  BY <1>1, <1>3, <1>4, <1>5, QueryIs
<1>7. PICK last \in t..Len(Ms) : /\ RowPlaces(Ms, s) = t + 1..last
                                 /\ \A k \in t + 1..last : /\ IsRow(Ms[k]) /\ Ms[k].stmt = Ms[t].stmt
                                                           /\ Ms[k].n = k - t
  BY <1>1, <1>3, <1>4, RowRun
<1> HIDE DEF Ms, s
<1>8. RowsOf(s) = {Ms[k].n : k \in RowPlaces(Ms, s)}
  BY <1>6 DEF RowsOf
<1>9. \A k \in t + 1..t + w : k \in RowPlaces(Ms, s) /\ k \in 1..place
  BY <1>3
<1>10. \A k \in t + 1..t + w : Ms[k].n = k - t /\ IsRow(Ms[k]) /\ Ms[k].stmt = s
  BY <1>3, <1>7, <1>9
<1>11. ASSUME w > 0 PROVE w \in RowsOf(s) /\ RowSeen(s)
  <2>1. t + w \in t + 1..t + w /\ (t + w) - t = w
    BY <1>4, <1>11
  <2>2. Ms[t + w].n = w
    BY <1>10, <2>1
  <2> QED BY <1>8, <1>9, <1>10, <2>1, <2>2 DEF RowSeen
<1>12. ASSUME RowPlaces(Ms, s) \subseteq 1..place PROVE RowsOf(s) = 1..w
  <2>1. RowPlaces(Ms, s) = t + 1..t + w
    BY <1>3, <1>12
  <2>2. \A k \in t + 1..t + w : Ms[k].n \in 1..w
    <3>1. \A k \in t + 1..t + w : k - t \in 1..w
      BY <1>4
    <3> QED BY <1>10, <3>1
  <2>3. \A j \in 1..w : j + t \in t + 1..t + w /\ Ms[j + t].n = j
    <3>1. \A j \in 1..w : j + t \in t + 1..t + w /\ (j + t) - t = j
      BY <1>4
    <3> QED BY <1>10, <3>1
  <2> QED BY <1>8, <2>1, <2>2, <2>3
<1> QED BY <1>2, <1>4, <1>5, <1>6, <1>11, <1>12 DEF s

\* The result that is handed out is right.
LEMMA Handed ==
  ASSUME IInv, NEW r \in Results, delivered' = Append(delivered, r), UNCHANGED <<program, sent>>,
         hurt \subseteq hurt', c'.pversion = c.pversion, place' \in Nat, place <= place',
         \/ r.status = "FATAL_ERROR" /\ (Troubled(r.stmt) \/ OutOfStep)
         \/ r.status \notin {"FATAL_ERROR", "SINGLE_TUPLE", "TUPLES_OK"} /\ r.rows = <<>>
         \/ r = c.result /\ c.async = "READY"
  PROVE  SeenInv' /\ RightAnswers' /\ delivered' \in Seq(Results)
<1>1. /\ TypeOK /\ ConnInv /\ FillInv /\ ErrorInv /\ BareInv /\ SeenInv /\ RightAnswers
  BY DEF IInv, RowsInv
<1>2. PICK n \in Nat : n = Len(delivered) + 1
  <2>1. Len(delivered) + 1 \in Nat
    BY <1>1 DEF TypeOK
  <2> QED BY <2>1
<1>3. /\ RightAnswer(n)' => RightAnswers'
      /\ delivered' \in Seq(Results) /\ delivered'[n] = r
      /\ DOMAIN delivered' = 1..n
      /\ \A i \in 1..n - 1 : i \in DOMAIN delivered /\ delivered'[i] = delivered[i]
      /\ \A s : SingleRows(n, s)' = SingleRows(n, s)
  BY <1>1, <1>2, AnswersAppended
<1>4. /\ \A s : QueryOf(s)' = QueryOf(s) /\ RowsOf(s)' = RowsOf(s) /\ (Troubled(s) => Troubled(s)')
      /\ OutOfStep => OutOfStep'
  BY SameProgram
<1>5. r # NULL /\ r.status \in Statuses
  BY ResultTypes
<1>6. ASSUME r = c.result, c.async = "READY", r.status = "SINGLE_TUPLE"
      PROVE  RowSeen(r.stmt) /\ \E k \in RowsOf(r.stmt) : r.rows = <<k>> /\ SingleRows(n, r.stmt) = 1..k - 1
  <2>1. RowWaits
    BY <1>5, <1>6 DEF RowWaits, Is
  <2>2. Is(Filling, "TUPLES_OK") /\ Filling.stmt = r.stmt
    BY <1>1, <1>6, <2>1 DEF ConnInv, Filling
  <2>3. PICK t \in 1..place, w \in 0..Len(Ms) :
          /\ Filled(Filling, t, w) /\ w \in Nat
          /\ w > 0 => w \in RowsOf(r.stmt) /\ RowSeen(r.stmt)
    BY <2>2, FilledRows
  <2>4. r.rows = <<w>> /\ w > 0 /\ SingleRowsOf(r.stmt) = 1..w - 1
    BY <1>6, <2>1, <2>2, <2>3 DEF Filled
  <2> QED BY <1>2, <2>3, <2>4 DEF SingleRowsOf
<1>7. ASSUME r = c.result, c.async = "READY", r.status = "TUPLES_OK"
      PROVE  IF program[QueryOf(r.stmt)].single
               THEN r.rows = <<>> /\ SingleRows(n, r.stmt) = RowsOf(r.stmt)
               ELSE r.rows = [k \in RowsOf(r.stmt) |-> k]
  <2>1. ~RowWaits /\ Filling = r /\ Is(Filling, "TUPLES_OK")
    BY <1>5, <1>7 DEF RowWaits, Is, Filling
  <2>2. PICK t \in 1..place, w \in 0..Len(Ms) :
          /\ Filled(Filling, t, w) /\ QueryOf(r.stmt) = sent
          /\ RowPlaces(Ms, r.stmt) \subseteq 1..place => RowsOf(r.stmt) = 1..w
    BY <2>1, FilledRows
  <2>3. RowsOf(r.stmt) = 1..w
    BY <1>7, <2>1, <2>2 DEF Filled
  <2>4. /\ program[sent].single => r.rows = <<>> /\ SingleRowsOf(r.stmt) = 1..w
        /\ ~program[sent].single => r.rows = [k \in 1..w |-> k]
    BY <2>1, <2>2 DEF Filled
  <2> QED BY <1>2, <2>2, <2>3, <2>4 DEF SingleRowsOf
<1>8. r.status = "SINGLE_TUPLE" => r = c.result /\ c.async = "READY"
  OBVIOUS
<1>9. RightAnswer(n)'
  <2>1. CASE r.status = "FATAL_ERROR"
    <3>1. Troubled(r.stmt) \/ OutOfStep
      BY <1>1, <1>5, <2>1 DEF ErrorInv, Is
    <3>2. Troubled(r.stmt)' \/ OutOfStep'
      BY <1>4, <3>1
    <3> QED BY <1>3, <2>1, <3>2 DEF RightAnswer
  <2>2. CASE r.status = "SINGLE_TUPLE"
    <3>1. \E k \in RowsOf(r.stmt) : r.rows = <<k>> /\ SingleRows(n, r.stmt) = 1..k - 1
      BY <1>6, <1>8, <2>2
    <3>2. \E k \in RowsOf(r.stmt)' : r.rows = <<k>> /\ SingleRows(n, r.stmt)' = 1..k - 1
      BY <1>3, <1>4, <3>1
    <3> QED BY <1>3, <2>2, <3>2 DEF RightAnswer
  <2>3. CASE r.status = "TUPLES_OK"
    <3>1. IF program[QueryOf(r.stmt)].single
            THEN r.rows = <<>> /\ SingleRows(n, r.stmt) = RowsOf(r.stmt)
            ELSE r.rows = [k \in RowsOf(r.stmt) |-> k]
      BY <1>7, <2>3
    <3>2. IF program'[QueryOf(r.stmt)'].single
            THEN r.rows = <<>> /\ SingleRows(n, r.stmt)' = RowsOf(r.stmt)'
            ELSE r.rows = [k \in RowsOf(r.stmt)' |-> k]
      BY <1>3, <1>4, <3>1
    <3> QED BY <1>3, <2>3, <3>2 DEF RightAnswer
  <2>4. CASE r.status \notin {"FATAL_ERROR", "SINGLE_TUPLE", "TUPLES_OK"}
    <3>1. r.rows = <<>>
      BY <1>1, <1>5, <2>4 DEF BareInv
    <3> QED BY <1>3, <2>4, <3>1 DEF RightAnswer
  <2> QED BY <2>1, <2>2, <2>3, <2>4
<1>10. SeenInv'
  <2>1. \A s : Before(s)' = Before(s) /\ (RowSeen(s) => RowSeen(s)')
    <3>1. Ms' = Ms /\ place \in Nat
      BY <1>1, MsFacts DEF Ms
    <3> QED BY <3>1 DEF Before, RowSeen
  <2>2. \A i \in 1..n : i \in 1..n - 1 \/ i = n
    BY <1>2
  <2>3. r.status = "SINGLE_TUPLE" => RowSeen(r.stmt)
    BY <1>6, <1>8
  <2>4. ASSUME NEW i \in 1..n
        PROVE  (delivered[i].status = "SINGLE_TUPLE" => Before(delivered[i].stmt) \/ RowSeen(delivered[i].stmt))'
    <3>1. PICK x : x = delivered'[i]
      OBVIOUS
    <3>2. x.status = "SINGLE_TUPLE" => Before(x.stmt) \/ RowSeen(x.stmt)
      BY <1>1, <1>3, <2>2, <2>3, <3>1 DEF SeenInv
    <3>3. x.status = "SINGLE_TUPLE" => Before(x.stmt)' \/ RowSeen(x.stmt)'
      BY <2>1, <3>2
    <3> QED BY <3>1, <3>3
  <2> QED BY <1>3, <2>4 DEF SeenInv
<1> QED BY <1>3, <1>9, <1>10

\* What was told of copies stays right.
LEMMA CopiesKept ==
  ASSUME TypeOK, ToldInv, CopyDataWhole, UNCHANGED <<program, sent, got, copied>>,
         place' \in Nat, place <= place'
  PROVE  ToldInv' /\ CopyDataWhole'
BY ToldStays DEF CopyDataWhole

LEMMA PendingKept ==
  ASSUME PendingInv, UNCHANGED <<program, sent, got, place, in>>
  PROVE  PendingInv'
<1>1. Ms' = Ms
  BY DEF Ms
<1> HIDE DEF Ms
<1> QED BY <1>1 DEF PendingInv

\* The connection is lost and its result handed out.
LEMMA ClosedKeeps ==
  ASSUME IInv, TypeOK', StreamInv', SeenInv', RightAnswers', PendingInv',
         UNCHANGED <<program, sent, got, copied>>, place' \in Nat, place <= place',
         ~c'.ok, c'.result = NULL, c'.next_result = NULL, pc' \notin FunctionPcs,
         c'.async = "IDLE" \/ (c'.async = "READY" /\ in' = <<>>)
  PROVE  IInv'
<1>1. TypeOK /\ ToldInv /\ CopyDataWhole
  BY DEF IInv, CopyInv
<1>2. ToldInv' /\ CopyDataWhole'
  BY <1>1, CopiesKept
<1>3. ~RowWaits' /\ ~Is(Filling', "TUPLES_OK")
  BY DEF RowWaits, Filling, Is
<1>4. ConnInv'
  BY <1>3 DEF ConnInv, RowWaits, Is
<1>5. FillInv' /\ NextRowInv' /\ ErrorInv' /\ BareInv' /\ LinesInv'
  BY <1>3 DEF FillInv, NextRowInv, ErrorInv, BareInv, LinesInv, Is
<1>6. CopyingInv' /\ PieceInv'
  BY DEF CopyingInv, PieceInv, CopyOutStates
<1> QED BY <1>2, <1>4, <1>5, <1>6 DEF IInv, RowsInv, CopyInv

\* The error of a lost connection has its cause.
LEMMA LossReported ==
  ASSUME IInv, NEW d, NEW a \in AsyncStates, NEW ok \in BOOLEAN,
         d = [pqSaveErrorResult(c, 0) EXCEPT !.async = a, !.ok = ok]
  PROVE  /\ Prepared(d) \in Results /\ Prepared(d).status = "FATAL_ERROR"
         /\ Troubled(Prepared(d).stmt) \/ OutOfStep
         /\ LET e == pqPrepareAsyncResult(d)
            IN  /\ e \in Connections /\ e.result = NULL /\ e.next_result = NULL
                /\ e.pversion = c.pversion /\ e.ok = ok /\ e.async = a
<1>1. c \in Connections /\ ErrorInv /\ ConnInv
  BY DEF IInv, TypeOK, RowsInv
<1> DEFINE e == pqSaveErrorResult(c, 0)
<1>2. /\ e \in Connections /\ Is(e.result, "FATAL_ERROR")
      /\ IF IsError(c.result) THEN e = c
         ELSE e.result = NewResult("FATAL_ERROR", 0) /\ e.next_result = NULL /\ e.pversion = c.pversion
  BY <1>1, SaveError
<1> HIDE DEF e
<1>3. d = [e EXCEPT !.async = a, !.ok = ok]
  BY DEF e
<1>4. /\ d \in Connections /\ d.result = e.result /\ d.next_result = e.next_result /\ d.async = a /\ d.ok = ok
      /\ d.pversion = e.pversion
  BY <1>2, <1>3 DEF Connections
<1>5. e.next_result = NULL /\ e.pversion = c.pversion
  BY <1>1, <1>2 DEF ConnInv, RowWaits, Is
<1>6. Troubled(e.result.stmt) \/ OutOfStep
  <2>1. CASE IsError(c.result)
    BY <1>1, <1>2, <2>1 DEF ErrorInv
  <2>2. CASE ~IsError(c.result)
    BY <1>2, <2>2 DEF NewResult, Troubled
  <2> QED BY <2>1, <2>2
<1>7. Prepared(d) = e.result /\ Prepared(d) \in Results
  BY <1>2, <1>4, PreparedFacts DEF Is
<1> QED BY <1>2, <1>4, <1>5, <1>6, <1>7, PreparedFacts DEF Is

LEMMA GetResultLostKeeps ==
  ASSUME IInv, GetResultLost
  PROVE  IInv'
<1>1. TypeOK /\ StreamInv /\ PendingInv
  BY DEF IInv, CopyInv
<1> DEFINE d == [pqSaveErrorResult(c, 0) EXCEPT !.async = "IDLE", !.ok = FALSE]
<1>2. /\ Deliver(Prepared(d)) /\ c' = pqPrepareAsyncResult(d) /\ half' = FALSE /\ pc' = "user"
      /\ UNCHANGED <<program, sent, in, place, script, alive, got, copied, hurt>>
  BY DEF GetResultLost, serverVars
<1>3. "IDLE" \in AsyncStates
  BY DEF AsyncStates
<1>4. PICK r \in Results : r = Prepared(d) /\ r.status = "FATAL_ERROR" /\ (Troubled(r.stmt) \/ OutOfStep)
  BY <1>3, LossReported
<1>5. /\ c' \in Connections /\ c'.result = NULL /\ c'.next_result = NULL /\ c'.pversion = c.pversion
      /\ c'.ok = FALSE /\ c'.async = "IDLE"
  BY <1>2, <1>3, LossReported
<1> HIDE DEF d
<1>6. delivered' = Append(delivered, r) /\ place \in Nat
  BY <1>1, <1>2, <1>4, MsFacts DEF Deliver
<1>7. SeenInv' /\ RightAnswers' /\ delivered' \in Seq(Results)
  BY <1>2, <1>4, <1>5, <1>6, Handed
<1>8. TypeOK'
  BY <1>1, <1>2, <1>5, <1>7 DEF TypeOK, Ms, Pcs
<1>9. StreamInv' /\ PendingInv'
  BY <1>1, <1>2, <1>5, StreamSame, PendingKept
<1> QED BY <1>2, <1>5, <1>6, <1>7, <1>8, <1>9, ClosedKeeps DEF FunctionPcs

LEMMA FunctionLostKeeps ==
  ASSUME IInv, FunctionLost
  PROVE  IInv'
<1>1. TypeOK /\ StreamInv /\ PendingInv /\ ConnInv /\ c \in Connections
  BY DEF IInv, CopyInv, TypeOK
<1>2. pc \in FunctionPcs /\ c.async = "IDLE"
  BY <1>1 DEF FunctionLost, FunctionPcs, ConnInv
<1> DEFINE e == pqSaveErrorResult(c, 0)
           d == [e EXCEPT !.ok = FALSE]
<1>3. /\ delivered' = Append(delivered, Prepared(d)) /\ c' = pqPrepareAsyncResult(d) /\ half' = FALSE /\ pc' = "user"
      /\ UNCHANGED <<program, sent, in, place, script, alive, got, copied, hurt>>
  BY DEF FunctionLost, FunctionReturns, serverVars
<1>4. "IDLE" \in AsyncStates
  BY DEF AsyncStates
<1>5. d = [e EXCEPT !.async = "IDLE", !.ok = FALSE]
  <2>1. e \in Connections /\ e.async = "IDLE"
    BY <1>1, <1>2, SaveError
  <2> HIDE DEF e
  <2> QED BY <2>1 DEF Connections
<1>6. PICK r \in Results : r = Prepared(d) /\ r.status = "FATAL_ERROR" /\ (Troubled(r.stmt) \/ OutOfStep)
  BY <1>4, <1>5, LossReported
<1>p. LET f == pqPrepareAsyncResult(d)
      IN  /\ f \in Connections /\ f.result = NULL /\ f.next_result = NULL
          /\ f.pversion = c.pversion /\ f.ok = FALSE /\ f.async = "IDLE"
  BY <1>4, <1>5, LossReported
<1> HIDE DEF d
<1>7. /\ c' \in Connections /\ c'.result = NULL /\ c'.next_result = NULL /\ c'.pversion = c.pversion
      /\ c'.ok = FALSE /\ c'.async = "IDLE"
  BY <1>3, <1>p
<1>8. delivered' = Append(delivered, r) /\ place \in Nat
  BY <1>1, <1>3, <1>6, MsFacts
<1>9. SeenInv' /\ RightAnswers' /\ delivered' \in Seq(Results)
  BY <1>3, <1>6, <1>7, <1>8, Handed
<1>10. TypeOK'
  BY <1>1, <1>3, <1>7, <1>9 DEF TypeOK, Ms, Pcs
<1>11. StreamInv' /\ PendingInv'
  BY <1>1, <1>3, <1>7, StreamSame, PendingKept
<1> QED BY <1>3, <1>7, <1>8, <1>9, <1>10, <1>11, ClosedKeeps DEF FunctionPcs

\* What is being built stays, when only the state of a copy or a handed out
\* result that is no row changes.
LEMMA ConnectionMoves ==
  ASSUME IInv, UNCHANGED <<program, sent, place, got, copied, in>>, hurt' = hurt,
         TypeOK', StreamInv', SeenInv', RightAnswers', c'.pversion = c.pversion,
         FillInv', ErrorInv', BareInv', ConnInv', PieceInv', CopyingInv',
         c'.ok => c.ok,
         \/ NextRowInv'
         \/ c'.ok /\ (c.async = "BUSY" \/ RowWaits) /\ (Is(Filling, "TUPLES_OK") \/ Is(Filling, "FATAL_ERROR")) =>
              /\ c'.async = "BUSY" \/ RowWaits'
              /\ Is(Filling', "TUPLES_OK") \/ Is(Filling', "FATAL_ERROR"),
         c'.ok /\ c.async = "COPY_OUT" /\ c.pversion = 2 => c'.async = "COPY_OUT"
  PROVE  IInv'
<1>1. TypeOK /\ NextRowInv /\ LinesInv /\ PendingInv /\ ToldInv /\ CopyDataWhole
  BY DEF IInv, RowsInv, CopyInv
<1>2. Ms' = Ms /\ OutOfStep' = OutOfStep /\ place \in Nat
  BY <1>1, MsFacts DEF Ms, OutOfStep
<1>3. ToldInv' /\ CopyDataWhole' /\ PendingInv'
  BY <1>1, <1>2, CopiesKept, PendingKept
<1> HIDE DEF Ms
<1>4. NextRowInv'
  BY <1>1, <1>2 DEF NextRowInv, Is
<1>5. LinesInv'
  BY <1>1, <1>2 DEF LinesInv
<1> QED BY <1>3, <1>4, <1>5 DEF IInv, RowsInv, CopyInv

LEMMA GetResultReadyKeeps ==
  ASSUME IInv, GetResultReady
  PROVE  IInv'
<1>1. TypeOK /\ StreamInv /\ ConnInv /\ FillInv /\ PieceInv /\ c \in Connections
  BY DEF IInv, RowsInv, CopyInv, TypeOK
<1> DEFINE e == pqPrepareAsyncResult(c)
<1>2. /\ c.async = "READY" /\ pc = "parsed" /\ Deliver(Prepared(c)) /\ c' = [e EXCEPT !.async = "BUSY"] /\ pc' = "user"
      /\ UNCHANGED <<program, sent, in, half, place, script, alive, got, copied, hurt>>
  BY DEF GetResultReady, serverVars
<1>3. /\ e \in Connections /\ e.result = c.next_result /\ e.next_result = NULL
      /\ e.pversion = c.pversion /\ e.class = c.class /\ e.single = c.single /\ e.ok = c.ok
      /\ e.copy_already_done = c.copy_already_done
  BY <1>1, PreparedFacts
<1> HIDE DEF e
<1>4. /\ c' \in Connections /\ c'.result = c.next_result /\ c'.next_result = NULL
      /\ c'.pversion = c.pversion /\ c'.class = c.class /\ c'.single = c.single /\ c'.ok = c.ok
      /\ c'.copy_already_done = c.copy_already_done /\ c'.async = "BUSY"
  BY <1>2, <1>3 DEF Connections, AsyncStates
<1>5. PICK r \in Results : /\ r = Prepared(c) /\ (c.result # NULL => r = c.result)
                           /\ c.result = NULL => r.status = "FATAL_ERROR" /\ r.stmt = 0
  BY <1>1, PreparedFacts DEF Is
<1>6. delivered' = Append(delivered, r) /\ place \in Nat
  BY <1>1, <1>2, <1>5, MsFacts DEF Deliver
<1>7. \/ r.status = "FATAL_ERROR" /\ (Troubled(r.stmt) \/ OutOfStep)
      \/ r = c.result /\ c.async = "READY"
  BY <1>2, <1>5 DEF Troubled
<1>8. SeenInv' /\ RightAnswers' /\ delivered' \in Seq(Results)
  BY <1>2, <1>4, <1>6, <1>7, Handed
<1>9. TypeOK'
  BY <1>1, <1>2, <1>4, <1>8 DEF TypeOK, Ms, Pcs
<1>10. StreamInv'
  BY <1>1, <1>2, <1>4, StreamSame
<1>11. /\ ~RowWaits' /\ Filling' = c.next_result
       /\ RowWaits => Filling = c.next_result /\ Is(c.next_result, "TUPLES_OK")
                      /\ c.next_result.stmt = c.result.stmt /\ r = c.result /\ r.status = "SINGLE_TUPLE"
       /\ ~RowWaits => c.next_result = NULL
  <2>1. ~RowWaits'
    BY <1>1, <1>4 DEF RowWaits, Is, ConnInv
  <2>2. /\ RowWaits => Filling = c.next_result /\ Is(c.next_result, "TUPLES_OK")
                       /\ c.next_result.stmt = c.result.stmt /\ r = c.result /\ r.status = "SINGLE_TUPLE"
        /\ ~RowWaits => c.next_result = NULL
    BY <1>1, <1>5 DEF RowWaits, Filling, ConnInv, Is
  <2> QED BY <1>4, <2>1, <2>2 DEF Filling
<1>12. ConnInv'
  <2>1. c.ok => sent > 0 /\ c.class = program[sent].class /\ c.single = program[sent].single /\ c.class # "FUNCTION"
    BY <1>1, <1>2 DEF ConnInv
  <2>2. ~c.ok => in = <<>>
    BY <1>1, <1>2 DEF ConnInv
  <2>3. c'.result = NULL \/ Is(c'.result, "TUPLES_OK")
    BY <1>4, <1>11
  <2> QED BY <1>2, <1>4, <1>11, <2>1, <2>2, <2>3 DEF ConnInv, FunctionPcs
<1>13. FillInv'
  <2>1. CASE ~RowWaits
    BY <1>11, <2>1 DEF FillInv, Is
  <2>2. CASE RowWaits
    <3>1. PICK q \in Results : q = Filling /\ q.stmt = r.stmt
      BY <1>1, <1>11, <2>2 DEF Connections, Is
    <3>2. /\ sent > 0 /\ program[sent].class # "DESCRIBE"
          /\ \E t \in 1..place : \E w \in 0..Len(Ms) : Filled(Filling, t, w)
      BY <1>1, <1>11, <2>2 DEF FillInv
    <3>3. PICK t \in 1..place, w \in 0..Len(Ms) : Filled(q, t, w)
      BY <3>1, <3>2
    <3>4. program[sent].single /\ q.rows = <<>> /\ r.rows = <<w>> /\ w > 0 /\ SingleRowsOf(q.stmt) = 1..w - 1
      BY <1>11, <2>2, <3>3 DEF Filled
    <3>5. w \in Nat
      <4>1. Len(Ms) \in Nat
        BY <1>1, MsFacts
      <4> HIDE DEF Ms
      <4> QED BY <3>3, <4>1
    <3>6. SingleRowsOf(q.stmt)' = 1..w
      <4>1. PICK n \in Nat : n = Len(delivered) + 1
        <5>1. Len(delivered) + 1 \in Nat
          BY <1>1 DEF TypeOK
        <5> QED BY <5>1
      <4>2. /\ delivered'[n] = r /\ Len(delivered') = n
            /\ \A i \in 1..n - 1 : delivered'[i] = delivered[i]
        BY <1>1, <1>6, <4>1 DEF TypeOK
      <4>3. SingleRowsOf(q.stmt)' = {delivered'[j].rows[1] : j \in
              {h \in 1..n : delivered'[h].stmt = q.stmt /\ delivered'[h].status = "SINGLE_TUPLE"}}
        <5>1. (n + 1) - 1 = n
          BY <4>1
        <5> QED BY <4>2, <5>1 DEF SingleRowsOf, SingleRows
      <4>4. SingleRowsOf(q.stmt) = {delivered[j].rows[1] : j \in
              {h \in 1..n - 1 : delivered[h].stmt = q.stmt /\ delivered[h].status = "SINGLE_TUPLE"}}
        BY <4>1 DEF SingleRowsOf, SingleRows
      <4>5. r.rows[1] = w /\ r.stmt = q.stmt /\ r.status = "SINGLE_TUPLE"
        BY <1>11, <2>2, <3>1, <3>4
      <4> DEFINE H == {h \in 1..n - 1 : delivered[h].stmt = q.stmt /\ delivered[h].status = "SINGLE_TUPLE"}
      <4>6. {h \in 1..n : delivered'[h].stmt = q.stmt /\ delivered'[h].status = "SINGLE_TUPLE"} = H \union {n}
        BY <4>1, <4>2, <4>5
      <4>7. \A j \in H : delivered'[j] = delivered[j]
        BY <4>2
      <4> HIDE DEF H
      <4>8. SingleRowsOf(q.stmt)' = SingleRowsOf(q.stmt) \union {w}
        BY <4>2, <4>3, <4>4, <4>5, <4>6, <4>7 DEF H
      <4>9. (1..w - 1) \union {w} = 1..w
        BY <3>4, <3>5
      <4> QED BY <3>4, <4>8, <4>9
    <3>7. Filled(q, t, w)'
      <4>1. Ms' = Ms
        BY <1>2 DEF Ms
      <4>2. /\ Describes(Ms[t], q.stmt) /\ \A k \in t + 1..place : Ms[k].id # "T"
            /\ RowPlaces(Ms, q.stmt) \intersect 1..place = t + 1..t + w
        BY <3>3 DEF Filled
      <4> HIDE DEF Ms
      <4> QED BY <1>2, <1>4, <1>11, <3>4, <3>6, <4>1, <4>2 DEF Filled
    <3>8. Filling' = q
      BY <1>11, <2>2, <3>1
    <3>9. \E t1 \in 1..place' : \E w1 \in 0..Len(Ms') : Filled(Filling, t1, w1)'
      <4>1. Ms' = Ms /\ place' = place
        BY <1>2 DEF Ms
      <4>2. Filled(Filling, t, w)'
        BY <3>7, <3>8
      <4> HIDE DEF Ms
      <4> QED BY <4>1, <4>2
    <3> QED BY <1>2, <3>2, <3>9 DEF FillInv
  <2> QED BY <2>1, <2>2
<1>14. ErrorInv' /\ BareInv'
  BY <1>4, <1>11 DEF ErrorInv, BareInv, Is
<1>15. PieceInv' /\ CopyingInv'
  BY <1>1, <1>2, <1>4 DEF PieceInv, CopyingInv, CopyOutStates
<1>16. RowWaits => Is(Filling', "TUPLES_OK")
  BY <1>11
<1> QED BY <1>2, <1>4, <1>8, <1>9, <1>10, <1>12, <1>13, <1>14, <1>15, <1>16, ConnectionMoves

-----------------------------------------------------------------------------
(* The calls of a copy. *)

\* The state of a copy changes, or the result that told of it is handed out.
LEMMA CopyStateMoves ==
  ASSUME IInv, c.async \in CopyStates, UNCHANGED <<program, sent, place, got, copied, in>>, hurt' = hurt,
         TypeOK', StreamInv', SeenInv', RightAnswers', pc' \notin FunctionPcs,
         Same(c'), c'.ok => c.ok, ~c'.ok => in = <<>>, c'.copy_already_done = c.copy_already_done,
         c'.next_result = c.next_result, c'.async \in CopyStates \union {"BUSY"},
         c'.result = NULL \/ (c'.result = c.result /\ \A s : SingleRowsOf(s)' = SingleRowsOf(s)),
         c'.async \in CopyOutStates => c.async \in CopyOutStates,
         c.pversion = 2 => (c'.async = "COPY_OUT" <=> c.async = "COPY_OUT") /\ c'.async # "COPY_BOTH"
  PROVE  IInv'
<1>1. TypeOK /\ StreamInv /\ ConnInv /\ FillInv /\ ErrorInv /\ BareInv /\ PieceInv /\ CopyingInv
  BY DEF IInv, RowsInv, CopyInv
<1>2. c'.pversion = c.pversion /\ c'.class = c.class /\ c'.single = c.single
  BY DEF Same
<1>3. c.async \notin {"READY", "IDLE", "BUSY"} /\ c'.async \notin {"READY", "IDLE"}
  BY DEF CopyStates
<1>4. ~RowWaits /\ c.next_result = NULL /\ Filling = c.result
  BY <1>1, <1>3, BusyResult
<1>5. ~RowWaits' /\ Filling' = c'.result
  BY <1>4 DEF RowWaits, Filling, Is
<1>6. ConnInv'
  <2>1. c'.ok => sent > 0 /\ c.class = program[sent].class /\ c.single = program[sent].single /\ c.class # "FUNCTION"
    BY <1>1, <1>3 DEF ConnInv
  <2>2. c.pversion = 2 => c'.result = NULL \/ Is(c'.result, "TUPLES_OK")
    BY <1>1, <1>3 DEF ConnInv
  <2> QED BY <1>2, <1>3, <1>4, <1>5, <2>1, <2>2 DEF ConnInv
<1>7. FillInv'
  <2>1. CASE c'.result = NULL
    BY <1>5, <2>1 DEF FillInv, Is
  <2>2. CASE c'.result = c.result /\ \A s : SingleRowsOf(s)' = SingleRowsOf(s)
    <3>1. place' \in Nat /\ place <= place' /\ NoRows(place, place')
      <4>1. place \in Nat /\ place + 1..place = {}
        BY <1>1, MsFacts
      <4> QED BY <4>1 DEF NoRows
    <3>2. KeepsResult(c')
      BY <2>2 DEF KeepsResult
    <3> QED BY <1>1, <1>2, <1>3, <2>2, <3>1, <3>2, FillStays
  <2> QED BY <2>1, <2>2
<1>8. ErrorInv' /\ BareInv'
  <2>1. (\A s : Troubled(s) => Troubled(s)') /\ (OutOfStep => OutOfStep')
    BY <1>2, SameProgram
  <2> QED BY <1>1, <2>1 DEF ErrorInv, BareInv, Is
<1>9. PieceInv'
  BY <1>1, <1>2 DEF PieceInv, DataThere
<1>10. CopyingInv'
  <2>1. in = <<>> /\ c.async \in CopyOutStates => c.copy_already_done = 0
    <3>1. c.copy_already_done \in Nat
      BY <1>1 DEF TypeOK, Connections
    <3> QED BY <1>1, <3>1 DEF PieceInv, DataThere
  <2> QED BY <1>1, <1>2, <2>1, CopyingKept
<1> QED BY <1>1, <1>2, <1>3, <1>4, <1>6, <1>7, <1>8, <1>9, <1>10, ConnectionMoves

\* A result that is no row adds none.
LEMMA SinglesKept ==
  ASSUME TypeOK, NEW r \in Results, delivered' = Append(delivered, r), r.status # "SINGLE_TUPLE"
  PROVE  \A s : SingleRowsOf(s)' = SingleRowsOf(s)
<1>1. PICK n \in Nat : n = Len(delivered) + 1
  <2>1. Len(delivered) + 1 \in Nat
    BY DEF TypeOK
  <2> QED BY <2>1
<1>2. /\ delivered'[n] = r /\ Len(delivered') = n
      /\ \A i \in 1..n - 1 : delivered'[i] = delivered[i]
  BY <1>1 DEF TypeOK
<1>3. (n + 1) - 1 = n /\ \A h \in 1..n : h \in 1..n - 1 \/ h = n
  BY <1>1
<1> SUFFICES ASSUME NEW s PROVE SingleRowsOf(s)' = SingleRowsOf(s)
  OBVIOUS
<1> DEFINE H == {h \in 1..n - 1 : delivered[h].stmt = s /\ delivered[h].status = "SINGLE_TUPLE"}
<1>4. SingleRowsOf(s) = {delivered[j].rows[1] : j \in H}
  BY <1>1 DEF SingleRowsOf, SingleRows
<1>5. {h \in 1..n : delivered'[h].stmt = s /\ delivered'[h].status = "SINGLE_TUPLE"} = H
  BY <1>2, <1>3
<1>6. SingleRowsOf(s)' = {delivered'[j].rows[1] : j \in
        {h \in 1..n : delivered'[h].stmt = s /\ delivered'[h].status = "SINGLE_TUPLE"}}
  BY <1>2, <1>3 DEF SingleRowsOf, SingleRows
<1>7. \A j \in H : delivered'[j] = delivered[j]
  BY <1>2
<1> HIDE DEF H
<1>8. SingleRowsOf(s)' = {delivered'[j].rows[1] : j \in H}
  BY <1>5, <1>6
<1>9. {delivered'[j].rows[1] : j \in H} = {delivered[j].rows[1] : j \in H}
  BY <1>7
<1> QED BY <1>4, <1>8, <1>9, Zenon

LEMMA GetCopyResultKeeps ==
  ASSUME IInv, GetCopyResult
  PROVE  IInv'
<1>1. TypeOK /\ StreamInv /\ ConnInv /\ PendingInv /\ BareInv /\ c \in Connections
  BY DEF IInv, CopyInv, RowsInv, TypeOK
<1> DEFINE b == pqSaveErrorResult(c, 0)
           d == [b EXCEPT !.async = "IDLE"]
           e == IF c.ok THEN c ELSE d
           there == ~c.ok \/ (c.result # NULL /\ c.result.status = c.async)
<1>2. /\ Deliver(IF there THEN Prepared(e) ELSE NewResult(c.async, 0))
      /\ c' = IF there THEN pqPrepareAsyncResult(e) ELSE e
      /\ c.async \in CopyStates /\ pc = "parsed" /\ pc' = "user"
      /\ UNCHANGED <<program, sent, in, half, place, script, alive, got, copied, hurt>>
  BY DEF GetCopyResult, serverVars
<1> HIDE DEF b
<1>3. c.async \notin {"READY", "IDLE", "BUSY"} /\ pc' \notin FunctionPcs /\ place \in Nat
  BY <1>1, <1>2, MsFacts DEF CopyStates, FunctionPcs
<1>4. c.next_result = NULL
  BY <1>1, <1>3, BusyResult
<1>5. CASE c.ok
  <2>1. PICK r \in Results : /\ delivered' = Append(delivered, r)
                             /\ r.status \notin {"FATAL_ERROR", "SINGLE_TUPLE", "TUPLES_OK"} /\ r.rows = <<>>
    <3>1. CASE there
      <4>1. c.result # NULL /\ c.result.status = c.async /\ c.result \in Results
        BY <1>1, <1>5, <3>1 DEF Connections
      <4>2. delivered' = Append(delivered, c.result)
        BY <1>1, <1>2, <1>5, <3>1, <4>1, PreparedFacts DEF Deliver
      <4>3. c.result.status \notin {"FATAL_ERROR", "SINGLE_TUPLE", "TUPLES_OK"}
        BY <1>2, <4>1 DEF CopyStates
      <4> QED BY <1>1, <4>1, <4>2, <4>3 DEF BareInv
    <3>2. CASE ~there
      <4>1. PICK r : r = NewResult(c.async, 0)
        OBVIOUS
      <4>2. r \in Results
        BY <1>2, <4>1, ResultTypes DEF CopyStates, Statuses
      <4>3. r.status = c.async /\ r.rows = <<>>
        BY <4>1 DEF NewResult
      <4>4. delivered' = Append(delivered, r)
        BY <1>2, <3>2, <4>1 DEF Deliver
      <4> QED BY <1>2, <4>2, <4>3, <4>4 DEF CopyStates
    <3> QED BY <3>1, <3>2
  <2>2. /\ Same(c') /\ c'.ok = c.ok /\ c'.copy_already_done = c.copy_already_done /\ c'.async = c.async
        /\ c'.next_result = c.next_result /\ (c'.result = NULL \/ c'.result = c.result)
        /\ ~there => c' = c
        /\ there => c'.result = NULL
    <3>1. CASE there
      BY <1>1, <1>2, <1>4, <1>5, <3>1, PreparedFacts DEF Same
    <3>2. CASE ~there
      BY <1>1, <1>2, <1>5, <3>2 DEF Same
    <3> QED BY <3>1, <3>2
  <2> HIDE DEF there, e
  <2>3. SeenInv' /\ RightAnswers' /\ delivered' \in Seq(Results)
    BY <1>2, <1>3, <2>1, <2>2, Handed DEF Same
  <2>4. TypeOK'
    BY <1>1, <1>2, <2>2, <2>3 DEF TypeOK, Ms, Pcs, Same
  <2>5. StreamInv'
    BY <1>1, <1>2, <2>2, StreamSame DEF Same
  <2>6. \A s : SingleRowsOf(s)' = SingleRowsOf(s)
    BY <1>1, <2>1, SinglesKept
  <2> QED BY <1>1, <1>2, <1>3, <1>5, <2>2, <2>3, <2>4, <2>5, <2>6, CopyStateMoves DEF ConnInv
<1>6. CASE ~c.ok
  <2>1. c' = pqPrepareAsyncResult(d) /\ delivered' = Append(delivered, Prepared(d))
    BY <1>2, <1>6 DEF Deliver
  <2>2. "IDLE" \in AsyncStates
    BY DEF AsyncStates
  <2>3. d = [b EXCEPT !.async = "IDLE", !.ok = FALSE]
    <3>1. b \in Connections /\ b.ok = FALSE
      BY <1>1, <1>6, SaveError DEF b, Connections
    <3> QED BY <3>1 DEF Connections
  <2>4. PICK r \in Results : r = Prepared(d) /\ r.status = "FATAL_ERROR" /\ (Troubled(r.stmt) \/ OutOfStep)
    BY <2>2, <2>3, LossReported DEF b
  <2>5. /\ c' \in Connections /\ c'.result = NULL /\ c'.next_result = NULL /\ c'.pversion = c.pversion
        /\ c'.ok = FALSE /\ c'.async = "IDLE"
    <3>1. LET f == pqPrepareAsyncResult(d)
          IN  /\ f \in Connections /\ f.result = NULL /\ f.next_result = NULL
              /\ f.pversion = c.pversion /\ f.ok = FALSE /\ f.async = "IDLE"
      BY <2>2, <2>3, LossReported DEF b
    <3> HIDE DEF d
    <3> QED BY <2>1, <3>1
  <2> HIDE DEF d
  <2>6. delivered' = Append(delivered, r)
    BY <2>1, <2>4
  <2>7. SeenInv' /\ RightAnswers' /\ delivered' \in Seq(Results)
    BY <1>2, <1>3, <2>4, <2>5, <2>6, Handed
  <2>8. TypeOK'
    BY <1>1, <1>2, <2>5, <2>7 DEF TypeOK, Ms, Pcs
  <2>9. StreamInv' /\ PendingInv'
    BY <1>1, <1>2, <2>5, StreamSame, PendingKept
  <2> QED BY <1>2, <1>3, <2>5, <2>7, <2>8, <2>9, ClosedKeeps
<1> QED BY <1>5, <1>6

LEMMA CopyLostKeeps ==
  ASSUME IInv, CopyLost
  PROVE  IInv'
<1>1. /\ TypeOK /\ StreamInv /\ SeenInv /\ RightAnswers /\ ToldInv /\ CopyDataWhole
      /\ c \in Connections
  BY DEF IInv, CopyInv, RowsInv, TypeOK
<1>2. /\ pc = "user" /\ pc' = "user" /\ c.async \in CopyOutStates /\ in = <<>> /\ half' = FALSE
      /\ c' = [c EXCEPT !.ok = FALSE]
      /\ UNCHANGED <<program, sent, in, place, script, alive, delivered, got, copied, hurt>>
  BY DEF CopyLost, ReadsCopy, CopyOutStates, serverVars, history
<1>3. /\ Same(c') /\ c'.ok = FALSE /\ c'.copy_already_done = c.copy_already_done /\ c'.async = c.async
      /\ c'.next_result = c.next_result /\ c'.result = c.result
  BY <1>1, <1>2 DEF Connections, Same
<1>4. TypeOK'
  BY <1>1, <1>2, <1>3 DEF TypeOK, Ms, Same
<1>5. StreamInv'
  BY <1>1, <1>2, <1>3, StreamSame DEF Same
<1>6. place \in Nat /\ \A s : SingleRowsOf(s)' = SingleRowsOf(s)
  BY <1>1, <1>2, MsFacts DEF SingleRowsOf, SingleRows
<1>7. SeenInv' /\ RightAnswers'
  BY <1>1, <1>2, <1>3, <1>6, HistoryKept DEF Same
<1>8. c.pversion = 2 => c.async # "COPY_BOTH"
  BY DEF IInv, ConnInv
<1>9. pc' \notin FunctionPcs /\ c.async \in CopyStates
  BY <1>2 DEF FunctionPcs, CopyOutStates, CopyStates
<1> QED BY <1>2, <1>3, <1>4, <1>5, <1>6, <1>7, <1>8, <1>9, CopyStateMoves

\* The caller ends its side of a copy, or all of it.
LEMMA CopyEndKeeps ==
  ASSUME IInv, PQputCopyEnd \/ PQendcopy
  PROVE  IInv'
<1>1. /\ TypeOK /\ StreamInv /\ ConnInv /\ SeenInv /\ RightAnswers /\ ToldInv /\ CopyDataWhole
      /\ c \in Connections
  BY DEF IInv, CopyInv, RowsInv, TypeOK
<1>2. /\ pc = "user" /\ pc' \in {"user", "parse"} /\ c.async \in CopyStates
      /\ UNCHANGED <<program, sent, in, half, place, alive, delivered, got, copied, hurt>>
      /\ CopyDone \/ script' = script
  BY DEF PQputCopyEnd, PQendcopy, CopyStates, history
<1>3. PICK a \in {"COPY_OUT", "BUSY"} :
        /\ c' = [c EXCEPT !.async = a] /\ (a = "COPY_OUT" => c.async = "COPY_BOTH")
        /\ c.async = "COPY_OUT" => c.pversion = 3
  BY DEF PQputCopyEnd, PQendcopy
<1>4. /\ Same(c') /\ c'.ok = c.ok /\ c'.copy_already_done = c.copy_already_done /\ c'.async = a
      /\ c'.next_result = c.next_result /\ c'.result = c.result
  BY <1>1, <1>3 DEF Connections, Same, AsyncStates, CopyStates
<1>5. StreamInv' /\ script' \in Seq(Messages)
  <2>1. c'.pversion = c.pversion /\ script \in Seq(Messages)
    BY <1>1, <1>4 DEF Same, TypeOK
  <2> QED BY <1>1, <1>2, <2>1, StreamDone, StreamSame
<1>6. TypeOK'
  BY <1>1, <1>2, <1>4, <1>5 DEF TypeOK, Ms, Same, Pcs
<1>7. place \in Nat /\ \A s : SingleRowsOf(s)' = SingleRowsOf(s)
  BY <1>1, <1>2, MsFacts DEF SingleRowsOf, SingleRows
<1>8. SeenInv' /\ RightAnswers'
  BY <1>1, <1>2, <1>4, <1>7, HistoryKept DEF Same
<1>9. c.pversion = 2 => (a = "COPY_OUT" <=> c.async = "COPY_OUT") /\ a # "COPY_BOTH"
  BY <1>1, <1>3 DEF ConnInv
<1>10. ~c.ok => in = <<>>
  BY <1>1, <1>2 DEF ConnInv, CopyStates
<1>11. pc' \notin FunctionPcs /\ a \in CopyStates \union {"BUSY"} /\ (a \in CopyOutStates => c.async \in CopyOutStates)
  BY <1>2, <1>3 DEF FunctionPcs, CopyOutStates, CopyStates
<1> QED BY <1>2, <1>4, <1>5, <1>6, <1>7, <1>8, <1>9, <1>10, <1>11, CopyStateMoves

\* The type of a row description is enough to see that a result is complete.
LEMMA ParseEndsKeeps ==
  ASSUME IInv, ParseEnds
  PROVE  IInv'
<1>1. /\ TypeOK /\ StreamInv /\ ConnInv /\ FillInv /\ ErrorInv /\ BareInv /\ PieceInv /\ SeenInv /\ RightAnswers
      /\ ToldInv /\ CopyDataWhole /\ c \in Connections /\ script \in Seq(Messages)
  BY DEF IInv, CopyInv, RowsInv, TypeOK
<1>2. /\ pc \notin FunctionPcs /\ pc' \in Pcs /\ pc' \notin FunctionPcs /\ in = <<>>
      /\ UNCHANGED <<program, sent, in, half, place, script, alive, delivered, got, copied, hurt>>
  BY DEF ParseEnds, serverVars, history, FunctionPcs, Pcs
<1> DEFINE seesEnd == /\ c.pversion = 2 /\ half /\ Head(script).id = "T" /\ c.async = "BUSY" /\ c.result # NULL
<1>3. c' = IF seesEnd THEN Ready(c) ELSE c
  BY DEF ParseEnds
<1>4. CASE ~seesEnd
  BY <1>2, <1>3, <1>4, CallMoves
<1>5. CASE seesEnd
  <2>1. /\ Same(c') /\ c'.ok = c.ok /\ c'.copy_already_done = c.copy_already_done /\ c'.async = "READY"
        /\ c'.next_result = c.next_result /\ c'.result = c.result
    BY <1>1, <1>3, <1>5 DEF Connections, Same, AsyncStates, Ready
  <2>2. c'.pversion = c.pversion /\ c'.class = c.class /\ c'.single = c.single
    BY <2>1 DEF Same
  <2>3. ~RowWaits /\ c.next_result = NULL /\ Filling = c.result
    BY <1>1, <1>5, BusyResult
  <2>4. ~RowWaits' /\ Filling' = c.result
    BY <2>1, <2>3 DEF RowWaits, Filling, Is
  <2>5. place \in Nat /\ Len(Ms) \in Nat /\ Ms' = Ms
    BY <1>1, <1>2, MsFacts DEF Ms
  <2>6. place < Len(Ms) => ~IsRow(Ms[place + 1])
    <3>1. script # <<>>
      BY <1>1, <1>5 DEF StreamInv
    <3>2. Stream = script
      BY <1>1, <1>2 DEF Stream
    <3>3. 1 \in DOMAIN Stream /\ Stream[1].id = "T" /\ Continues(Stream, place, Ms, c.pversion) /\ Stream \in Seq(Messages)
      BY <1>1, <1>5, <3>1, <3>2 DEF StreamInv
    <3>4. PICK s : s = Stream[1]
      OBVIOUS
    <3> HIDE DEF Stream, Ms
    <3>5. Fits(s, place, Ms, c.pversion) /\ Gapless(Stream, place, Ms, 1)
      BY <3>3, <3>4 DEF Continues
    <3>6. s \notin UnaskedMessages(c.pversion)
      <4>1. c.pversion \in {2, 3}
        BY <1>1 DEF Connections
      <4> QED BY <3>3, <3>4, <4>1, UnaskedFacts
    <3>7. s.at \in place + 1..Len(Ms) /\ s = Ms[s.at]
      BY <3>5, <3>6 DEF Fits
    <3>8. \A k \in place + 1..s.at - 1 : Ms[k].id = "end"
      <4>1. 1..1 - 1 = {}
        OBVIOUS
      <4>2. s.at # 0
        BY <2>5, <3>7
      <4> QED BY <3>4, <3>5, <4>1, <4>2 DEF Gapless
    <3>9. Ms[place + 1].id \in {"T", "end"}
      <4>1. place + 1 = s.at \/ place + 1 \in place + 1..s.at - 1
        BY <2>5, <3>7
      <4> QED BY <3>3, <3>4, <3>7, <3>8, <4>1
    <3> QED BY <3>9 DEF IsRow
  <2>7. TypeOK'
    BY <1>1, <1>2, <2>1 DEF TypeOK, Ms, Same
  <2>8. StreamInv'
    BY <1>1, <1>2, <2>2, StreamSame
  <2>9. SeenInv' /\ RightAnswers'
    BY <1>1, <1>2, <2>2, <2>5, HistoryKept
  <2>10. FillInv'
    <3>1. NoRows(place, place')
      <4>1. place + 1..place = {}
        BY <2>5
      <4> QED BY <1>2, <4>1 DEF NoRows
    <3>2. Is(Filling, "TUPLES_OK") => RowPlaces(Ms, Filling.stmt) \subseteq 1..place
      <4> SUFFICES ASSUME Is(Filling, "TUPLES_OK") PROVE RowPlaces(Ms, Filling.stmt) \subseteq 1..place
        OBVIOUS
      <4>1. PICK t \in 1..place, w \in 0..Len(Ms) : Filled(Filling, t, w)
        BY <1>1 DEF FillInv
      <4>2. Ms[t].id = "T" /\ Ms[t].stmt = Filling.stmt
        BY <4>1 DEF Filled, Describes
      <4>3. t \in DOMAIN Ms
        BY <1>1, PlacesOf
      <4> HIDE DEF Ms
      <4>4. place \in Nat /\ t <= place
        BY <2>5, <4>1
      <4> QED BY <1>1, <2>6, <4>2, <4>3, <4>4, RowsPassed
    <3>3. KeepsResult(c')
      BY <2>1 DEF KeepsResult
    <3> HIDE DEF Ms
    <3> QED BY <1>1, <1>2, <2>2, <2>5, <3>1, <3>2, <3>3, FillKept
  <2>11. ErrorInv' /\ BareInv'
    <3>1. (\A s : Troubled(s) => Troubled(s)') /\ (OutOfStep => OutOfStep')
      BY <1>2, <2>2, SameProgram
    <3> QED BY <1>1, <2>1, <3>1 DEF ErrorInv, BareInv, Is
  <2>12. ConnInv'
    BY <1>1, <1>2, <1>5, <2>1, <2>2, <2>3, <2>4 DEF ConnInv
  <2>13. PieceInv' /\ CopyingInv'
    BY <1>1, <1>5, <2>1, <2>2 DEF PieceInv, CopyingInv, CopyOutStates
  <2>14. NextRowInv'
    <3> HIDE DEF Ms
    <3> QED BY <1>2, <2>5, <2>6 DEF NextRowInv
  <2> QED BY <1>2, <1>5, <2>1, <2>2, <2>7, <2>8, <2>9, <2>10, <2>11, <2>12, <2>13, <2>14, ConnectionMoves
<1> QED BY <1>4, <1>5

\* The data at the head of the input belongs to the copy that runs.
LEMMA DataAtHead ==
  ASSUME IInv, c.async \in CopyOutStates, DataThere, NEW m, m = Head(in)
  PROVE  /\ m.at \in DOMAIN Ms /\ m.at \in Nat /\ m = Ms[m.at] /\ m.at > place /\ m.n \in Nat /\ m.at # 0
         /\ c.ok /\ sent > 0 /\ sent \in DOMAIN program /\ Ms = program[sent].messages
         /\ \A k \in place + 1..m.at - 1 : Ms[k].id = "end"
         /\ c.pversion = 2 => InLines(m) /\ c.async = "COPY_OUT"
         /\ \E h \in 1..place :
              /\ CopiedFrom(h) /\ m.stmt = Ms[h].stmt /\ m.stmt # 0
              /\ \A j \in h + 1..m.at : (IsData(Ms[j]) \/ Ms[j].id = "end") /\ Ms[j].stmt = Ms[h].stmt
         /\ got[sent][m.at] = c.copy_already_done
<1>1. TypeOK /\ StreamInv /\ ConnInv /\ CopyingInv
  BY DEF IInv, CopyInv
<1>2. in # <<>> /\ IsData(m)
  BY DEF DataThere
<1>3. c.async \notin {"IDLE", "BUSY", "READY"}
  BY DEF CopyOutStates
<1>4. m.at # 0
  <2>1. m.id \notin {"A", "N", "S"}
    BY <1>2 DEF IsData, DataIds
  <2> QED BY <1>1, <1>2, <2>1, HeadKinds
<1>5. /\ c.ok /\ sent > 0 /\ sent \in DOMAIN program /\ c.pversion \in {2, 3}
      /\ m.id = "Z" \/ m.id \in KnownIds(c.pversion)
  BY <1>1, <1>2, <1>3, <1>4, BusyKinds
<1>6. /\ m.at \in DOMAIN Ms /\ m.at \in Nat /\ m = Ms[m.at] /\ m.at > place /\ m.n \in Nat
      /\ \A k \in place + 1..m.at - 1 : Ms[k].id = "end"
  BY <1>1, <1>2, <1>4, HeadKinds, HeadFacts
<1>7. Ms = program[sent].messages /\ place \in Nat /\ place <= Len(Ms) /\ Len(Ms) \in Nat
  BY <1>1, <1>5, MsFacts DEF TypeOK
<1>8. c.pversion = 2 => InLines(m) /\ c.async = "COPY_OUT"
  <2>1. c.pversion = 2 => m.id = "line"
    BY <1>2, <1>5 DEF KnownIds, IsData, DataIds
  <2>2. c.pversion = 2 => c.async = "COPY_OUT"
    BY <1>1 DEF ConnInv, CopyOutStates
  <2> QED BY <2>1, <2>2 DEF InLines
<1>9. PICK h \in 1..place : CopiedFrom(h)
  BY <1>1, <1>5 DEF CopyingInv
<1>10. /\ StartsCopy(Ms[h])
       /\ \A j \in h + 1..place : IsData(Ms[j]) \/ Ms[j].id = "end"
  BY <1>9 DEF CopiedFrom
<1>11. h \in 1..m.at - 1 /\ place \in h..m.at - 1 /\ h \in Nat /\ h \in h..m.at /\ m.at \in h..m.at
       /\ \A j \in h + 1..m.at : j \in h..m.at
  BY <1>6, <1>7, <1>9
<1>12. /\ \A j \in h..m.at : Ms[j].stmt = Ms[h].stmt
       /\ \A j \in h + 1..m.at : IsData(Ms[j]) \/ Ms[j].id = "end"
  BY <1>1, <1>2, <1>6, <1>10, <1>11, DataOfCopy
<1>13. m.stmt = Ms[h].stmt /\ \A j \in h + 1..m.at : (IsData(Ms[j]) \/ Ms[j].id = "end") /\ Ms[j].stmt = Ms[h].stmt
  BY <1>6, <1>11, <1>12
<1>14. m.stmt # 0
  <2>1. m.id # "Z"
    BY <1>2 DEF IsData, DataIds
  <2> QED BY <1>1, <1>6, <2>1, AnswerShape
<1> HIDE DEF Ms
<1>15. got[sent][m.at] = HandedNow(m.at)
  BY <1>2, <1>6, <1>9, <1>13 DEF CopiedFrom
<1>16. HandedNow(m.at) = c.copy_already_done
  <2>1. ~(m.at <= place)
    BY <1>6, <1>7
  <2> QED BY <1>2, <2>1 DEF HandedNow
<1> QED BY <1>4, <1>5, <1>6, <1>7, <1>8, <1>9, <1>13, <1>14, <1>15, <1>16

\* So much of a piece of data is handed over, or the rest of it.
Handing(m, n, act) ==
  /\ pc = "user" /\ c.async \in CopyOutStates /\ DataThere /\ m = Head(in) /\ n \in Nat
  /\ act \in {"next", "stay"} /\ InputAfter(act) /\ HandOver(n)
  /\ Same(c') /\ KeepsResult(c') /\ c'.ok = c.ok /\ c'.async = c.async
  /\ act = "next" => c'.copy_already_done = 0 /\ c.copy_already_done + n = m.n
  /\ act = "stay" => c'.copy_already_done = c.copy_already_done + n /\ c'.copy_already_done < m.n
  /\ UNCHANGED <<program, sent, script, alive, pc, delivered, copied, hurt>>

LEMMA HandingMoves ==
  ASSUME IInv, NEW m, NEW n, NEW act, Handing(m, n, act)
  PROVE  /\ StreamInv' /\ in' \in Seq(Messages) /\ half' \in BOOLEAN
         /\ Ms' = Ms /\ place' \in Nat /\ place <= place' /\ place' <= Len(Ms)
         /\ act = "next" => in' = Tail(in) /\ place' = m.at
         /\ act = "stay" => in' = in /\ place' = place
         /\ got'[sent][m.at] = c.copy_already_done + n
         /\ \A k \in DOMAIN Ms : k # m.at => got'[sent][k] = got[sent][k]
         /\ \A i \in DOMAIN program : i # sent => got'[i] = got[i]
         /\ DOMAIN got' = DOMAIN program
         /\ \A i \in DOMAIN program : got'[i] \in [DOMAIN program[i].messages -> Nat]
<1>1. TypeOK /\ StreamInv /\ c \in Connections
  BY DEF IInv, TypeOK
<1>2. /\ m.at \in DOMAIN Ms /\ m.at # 0 /\ sent \in DOMAIN program /\ Ms = program[sent].messages
      /\ got[sent][m.at] = c.copy_already_done
  BY DataAtHead DEF Handing
<1>3. in # <<>> /\ m = Head(in) /\ act \in Acts /\ InputAfter(act) /\ c'.pversion = c.pversion
  BY DEF Handing, DataThere, Acts, Same
<1>4. UNCHANGED <<program, sent, script, alive>> /\ act \in {"next", "stay"} /\ n \in Nat /\ HandOver(n)
  BY DEF Handing
<1>5. /\ StreamInv' /\ in' \in Seq(Messages) /\ half' \in BOOLEAN
      /\ Ms' = Ms /\ place' \in Nat /\ place <= place' /\ place' <= Len(Ms)
      /\ act = "next" => in' = Tail(in) /\ place' = m.at
      /\ act = "stay" => in' = in /\ place' = place
  BY <1>1, <1>2, <1>3, <1>4, InputMoves
<1>6. /\ DOMAIN got = DOMAIN program /\ got[sent] \in [DOMAIN Ms -> Nat]
      /\ \A i \in DOMAIN program : got[i] \in [DOMAIN program[i].messages -> Nat]
  BY <1>1, <1>2 DEF TypeOK
<1>7. got' = [got EXCEPT ![sent][m.at] = @ + n]
  BY <1>3, <1>4 DEF HandOver
<1> HIDE DEF Ms
<1>8. /\ got'[sent] = [got[sent] EXCEPT ![m.at] = @ + n] /\ DOMAIN got' = DOMAIN program
      /\ \A i \in DOMAIN program : i # sent => got'[i] = got[i]
  BY <1>2, <1>6, <1>7
<1>9. /\ got'[sent][m.at] = c.copy_already_done + n /\ got'[sent] \in [DOMAIN Ms -> Nat]
      /\ \A k \in DOMAIN Ms : k # m.at => got'[sent][k] = got[sent][k]
  BY <1>2, <1>4, <1>6, <1>8
<1>10. \A i \in DOMAIN program : got'[i] \in [DOMAIN program[i].messages -> Nat]
  BY <1>2, <1>6, <1>8, <1>9
<1> QED BY <1>5, <1>8, <1>9, <1>10

LEMMA HandingCopies ==
  ASSUME IInv, NEW m, NEW n, NEW act, Handing(m, n, act)
  PROVE  CopyInv'
<1>1. /\ TypeOK /\ StreamInv /\ CopyingInv /\ PieceInv /\ PendingInv /\ ToldInv /\ CopyDataWhole
      /\ c.copy_already_done \in Nat
  BY DEF IInv, CopyInv, TypeOK, Connections
<1>2. /\ in # <<>> /\ m = Head(in) /\ c'.async = c.async /\ c'.ok = c.ok /\ c'.pversion = c.pversion
      /\ IsData(m) /\ act \in {"next", "stay"} /\ UNCHANGED <<program, sent, copied>> /\ n \in Nat
      /\ c.async \in CopyOutStates /\ DataThere
      /\ act = "next" => c'.copy_already_done = 0 /\ c.copy_already_done + n = m.n
      /\ act = "stay" => c'.copy_already_done = c.copy_already_done + n /\ c.copy_already_done + n < m.n
  BY DEF Handing, DataThere, Same
<1>3. /\ Ms' = Ms /\ place' \in Nat /\ place <= place' /\ place' <= Len(Ms)
      /\ act = "next" => in' = Tail(in) /\ place' = m.at
      /\ act = "stay" => in' = in /\ place' = place
      /\ got'[sent][m.at] = c.copy_already_done + n
      /\ \A k \in DOMAIN Ms : k # m.at => got'[sent][k] = got[sent][k]
      /\ \A i \in DOMAIN program : i # sent => got'[i] = got[i]
  BY HandingMoves
<1>4. /\ m.at \in DOMAIN Ms /\ m.at \in Nat /\ m = Ms[m.at] /\ m.at > place /\ m.n \in Nat /\ m.at # 0
      /\ c.ok /\ sent > 0 /\ sent \in DOMAIN program /\ Ms = program[sent].messages
      /\ \A k \in place + 1..m.at - 1 : Ms[k].id = "end"
      /\ c.pversion = 2 => InLines(m) /\ c.async = "COPY_OUT"
      /\ \E h \in 1..place :
           /\ CopiedFrom(h) /\ m.stmt = Ms[h].stmt /\ m.stmt # 0
           /\ \A j \in h + 1..m.at : (IsData(Ms[j]) \/ Ms[j].id = "end") /\ Ms[j].stmt = Ms[h].stmt
      /\ got[sent][m.at] = c.copy_already_done
  BY <1>2, DataAtHead
<1>5. PICK h \in 1..place :
        /\ CopiedFrom(h) /\ m.stmt = Ms[h].stmt /\ m.stmt # 0
        /\ \A j \in h + 1..m.at : (IsData(Ms[j]) \/ Ms[j].id = "end") /\ Ms[j].stmt = Ms[h].stmt
  BY <1>4
<1>6. /\ StartsCopy(Ms[h]) /\ m.stmt \notin copied
      /\ \A k \in DOMAIN Ms : IsData(Ms[k]) /\ Ms[k].stmt = m.stmt => got[sent][k] = HandedNow(k)
  BY <1>5 DEF CopiedFrom
<1>7. DOMAIN Ms = 1..Len(Ms) /\ Len(Ms) \in Nat /\ place \in Nat
  BY <1>1, <1>4, AnswerShape, MsFacts
<1> HIDE DEF Ms
<1>8. \A k : Ms[k].id = "end" => ~IsData(Ms[k])
  BY DEF IsData, DataIds
<1>9. \A k \in DOMAIN Ms : k \in Nat /\ (k <= place \/ k \in place + 1..m.at - 1 \/ k = m.at \/ k > m.at)
  BY <1>4, <1>7
<1>10. \A k \in DOMAIN Ms : k <= place => HandedNow(k) = Ms[k].n
  BY DEF HandedNow
<1>11. PICK q \in Nat : q = place'
  BY <1>3
<1>12. /\ act = "next" => q = m.at
       /\ act = "stay" => q = place
       /\ place <= q
  BY <1>3, <1>11
<1>13. \A k \in DOMAIN Ms : IsData(Ms[k]) /\ Ms[k].stmt = m.stmt => got'[sent][k] = HandedNow(k)'
  <2> TAKE k \in DOMAIN Ms
  <2> HAVE IsData(Ms[k]) /\ Ms[k].stmt = m.stmt
  <2>0. HandedNow(k)' = IF k <= q THEN Ms[k].n
                        ELSE IF in' # <<>> /\ Head(in').at = k THEN c'.copy_already_done ELSE 0
    BY <1>3, <1>11 DEF HandedNow
  <2>1. CASE k <= place
    BY <1>3, <1>4, <1>6, <1>7, <1>9, <1>10, <1>12, <2>0, <2>1
  <2>2. CASE k = m.at
    <3>1. CASE act = "next"
      <4>1. k <= q
        BY <1>4, <1>12, <2>2, <3>1
      <4> QED BY <1>2, <1>3, <1>4, <2>0, <2>2, <3>1, <4>1
    <3>2. CASE act = "stay"
      <4>1. ~(k <= q)
        BY <1>4, <1>7, <1>12, <2>2, <3>2
      <4> QED BY <1>2, <1>3, <2>0, <2>2, <3>2, <4>1
    <3> QED BY <1>2, <3>1, <3>2
  <2>3. CASE k > m.at
    <3>1. ~(k <= q) /\ ~(k <= place) /\ k # m.at
      BY <1>2, <1>4, <1>7, <1>9, <1>12, <2>3
    <3>2. got'[sent][k] = 0
      <4>1. HandedNow(k) = 0
        BY <1>2, <3>1 DEF HandedNow
      <4> QED BY <1>3, <1>6, <3>1, <4>1
    <3>3. act = "stay" => Head(in').at # k
      BY <1>2, <1>3, <3>1
    <3> QED BY <1>2, <2>0, <3>1, <3>2, <3>3
  <2> QED BY <1>4, <1>8, <1>9, <2>1, <2>2, <2>3
<1>14. CopyingInv'
  <2>1. \A j \in h + 1..q : j \in h + 1..m.at
    BY <1>2, <1>4, <1>7, <1>12
  <2>2. h \in 1..q
    BY <1>7, <1>12
  <2>3. CopiedFrom(h)'
    BY <1>2, <1>3, <1>5, <1>6, <1>11, <1>13, <2>1 DEF CopiedFrom
  <2>4. c.pversion = 2 => q > 0 /\ InLines(Ms[q])
    <3>1. CASE act = "next"
      BY <1>4, <1>7, <1>12, <3>1
    <3>2. CASE act = "stay"
      BY <1>1, <1>4, <1>12, <3>2 DEF CopyingInv
    <3> QED BY <1>2, <3>1, <3>2
  <2> QED BY <1>2, <1>3, <1>11, <2>2, <2>3, <2>4 DEF CopyingInv
<1>15. PieceInv'
  <2>1. c.pversion = 2 => c'.async = "COPY_OUT"
    BY <1>2, <1>4
  <2> QED BY <1>2, <1>3, <2>1 DEF PieceInv, DataThere
<1>16. PendingInv'
  <2>1. ASSUME NEW k \in q + 1..Len(Ms), got'[sent][k] # 0 PROVE in' # <<>> /\ Head(in').at = k
    <3>1. k \in place + 1..Len(Ms) /\ k \in DOMAIN Ms /\ k > q
      BY <1>7, <1>12
    <3>2. k = m.at
      <4>1. k # m.at => got[sent][k] # 0
        BY <1>3, <2>1, <3>1
      <4>2. got[sent][k] # 0 => Head(in).at = k
        BY <1>1, <1>4, <3>1 DEF PendingInv
      <4> QED BY <1>2, <4>1, <4>2
    <3>3. act = "stay"
      BY <1>2, <1>12, <3>1, <3>2
    <3> QED BY <1>2, <1>3, <3>2, <3>3
  <2>2. \A i \in DOMAIN program : i > sent => i # sent
    BY <1>1, MsFacts
  <2> QED BY <1>1, <1>2, <1>3, <1>11, <2>1, <2>2 DEF PendingInv
<1>17. ToldInv'
  BY <1>1, <1>2, <1>3, ToldStays
<1>18. CopyDataWhole'
  <2> DEFINE Data(ms, s) == {k \in DOMAIN ms : IsData(ms[k]) /\ ms[k].stmt = s}
  <2>1. \A i \in DOMAIN program : \A k \in DOMAIN program[i].messages :
          /\ got[i][k] # 0 =>
               /\ k \in Data(program[i].messages, program[i].messages[k].stmt) /\ got[i][k] <= program[i].messages[k].n
               /\ \A j \in Data(program[i].messages, program[i].messages[k].stmt) :
                    j < k => got[i][j] = program[i].messages[j].n
          /\ program[i].messages[k].stmt \in copied \ {0} =>
               \A j \in Data(program[i].messages, program[i].messages[k].stmt) : got[i][j] = program[i].messages[j].n
    BY <1>1 DEF CopyDataWhole
  <2>2. \A k \in DOMAIN Ms :
          /\ got[sent][k] # 0 => /\ k \in Data(Ms, Ms[k].stmt) /\ got[sent][k] <= Ms[k].n
                                 /\ \A j \in Data(Ms, Ms[k].stmt) : j < k => got[sent][j] = Ms[j].n
          /\ Ms[k].stmt \in copied \ {0} => \A j \in Data(Ms, Ms[k].stmt) : got[sent][j] = Ms[j].n
    <3> HIDE DEF Data
    <3> QED BY <1>4, <2>1
  <2>3. ASSUME NEW k \in DOMAIN Ms, got'[sent][k] # 0
        PROVE  /\ k \in Data(Ms, Ms[k].stmt) /\ got'[sent][k] <= Ms[k].n
               /\ \A j \in Data(Ms, Ms[k].stmt) : j < k => got'[sent][j] = Ms[j].n
    <3>1. CASE k = m.at
      <4>1. k \in Data(Ms, Ms[k].stmt) /\ got'[sent][k] <= Ms[k].n
        <5>1. c.copy_already_done + n = m.n \/ c.copy_already_done + n < m.n
          BY <1>2
        <5>2. got'[sent][k] = c.copy_already_done + n /\ Ms[k] = m
          BY <1>3, <1>4, <3>1
        <5> QED BY <1>1, <1>2, <1>4, <5>1, <5>2
      <4>2. ASSUME NEW j \in Data(Ms, Ms[k].stmt), j < k PROVE got'[sent][j] = Ms[j].n
        <5>1. j \in DOMAIN Ms /\ IsData(Ms[j]) /\ Ms[j].stmt = m.stmt /\ j # m.at /\ ~(j > m.at)
          BY <1>4, <1>7, <3>1, <4>2
        <5>2. j <= place
          BY <1>4, <1>8, <1>9, <5>1
        <5> QED BY <1>3, <1>6, <1>10, <5>1, <5>2
      <4> QED BY <4>1, <4>2
    <3>2. CASE k # m.at
      <4>1. got[sent][k] # 0
        BY <1>3, <2>3, <3>2
      <4>2. k <= place
        <5>1. k \notin place + 1..Len(Ms)
          BY <1>1, <1>2, <1>4, <3>2, <4>1 DEF PendingInv
        <5> QED BY <1>7, <5>1
      <4>3. \A j \in Data(Ms, Ms[k].stmt) : j \in DOMAIN Ms /\ (j < k => j # m.at)
        BY <1>4, <1>7, <4>2
      <4> QED BY <1>3, <2>2, <3>2, <4>1, <4>3
    <3> QED BY <3>1, <3>2
  <2>4. ASSUME NEW k \in DOMAIN Ms, Ms[k].stmt \in copied \ {0}, NEW j \in Data(Ms, Ms[k].stmt)
        PROVE  got'[sent][j] = Ms[j].n
    <3>1. j \in DOMAIN Ms /\ j # m.at
      BY <1>4, <1>6, <2>4
    <3> QED BY <1>3, <2>2, <2>4, <3>1
  <2>5. \A i \in DOMAIN program : \A k \in DOMAIN program[i].messages :
          /\ got'[i][k] # 0 =>
               /\ k \in Data(program[i].messages, program[i].messages[k].stmt) /\ got'[i][k] <= program[i].messages[k].n
               /\ \A j \in Data(program[i].messages, program[i].messages[k].stmt) :
                    j < k => got'[i][j] = program[i].messages[j].n
          /\ program[i].messages[k].stmt \in copied \ {0} =>
               \A j \in Data(program[i].messages, program[i].messages[k].stmt) : got'[i][j] = program[i].messages[j].n
    <3> HIDE DEF Data
    <3> TAKE i \in DOMAIN program
    <3>1. CASE i = sent
      BY <1>4, <2>3, <2>4, <3>1
    <3>2. CASE i # sent
      BY <1>3, <2>1, <3>2
    <3> QED BY <3>1, <3>2
  <2> QED BY <1>2, <2>5 DEF CopyDataWhole
<1> QED BY <1>14, <1>15, <1>16, <1>17, <1>18 DEF CopyInv

LEMMA HandingKeeps ==
  ASSUME IInv, NEW m, NEW n, NEW act, Handing(m, n, act)
  PROVE  IInv'
<1>1. /\ TypeOK /\ StreamInv /\ ConnInv /\ FillInv /\ NextRowInv /\ ErrorInv /\ BareInv
      /\ SeenInv /\ RightAnswers
  BY DEF IInv, RowsInv
<1>2. /\ pc = "user" /\ pc' = pc /\ Same(c') /\ KeepsResult(c') /\ c'.ok = c.ok /\ c'.async = c.async
      /\ c.async \in CopyOutStates /\ DataThere /\ m = Head(in) /\ IsData(m) /\ act \in {"next", "stay"}
      /\ UNCHANGED <<program, sent, script, alive, delivered, copied, hurt>>
  BY DEF Handing, DataThere
<1>3. c'.pversion = c.pversion /\ c'.class = c.class /\ c'.single = c.single /\ c' \in Connections
      /\ c'.result = c.result /\ c'.next_result = c.next_result
  BY <1>2 DEF Same, KeepsResult
<1>4. /\ StreamInv' /\ in' \in Seq(Messages) /\ half' \in BOOLEAN
      /\ Ms' = Ms /\ place' \in Nat /\ place <= place' /\ place' <= Len(Ms)
      /\ act = "next" => in' = Tail(in) /\ place' = m.at
      /\ act = "stay" => in' = in /\ place' = place
      /\ DOMAIN got' = DOMAIN program
      /\ \A i \in DOMAIN program : got'[i] \in [DOMAIN program[i].messages -> Nat]
  BY HandingMoves
<1>5. /\ m.at \in DOMAIN Ms /\ m.at \in Nat /\ m = Ms[m.at]
      /\ c.ok /\ sent > 0
      /\ \A k \in place + 1..m.at - 1 : Ms[k].id = "end"
      /\ c.pversion = 2 => c.async = "COPY_OUT"
  BY <1>2, DataAtHead
<1>6. TypeOK'
  <2> HIDE DEF Ms
  <2> QED BY <1>1, <1>2, <1>3, <1>4 DEF TypeOK
<1>7. DOMAIN Ms = 1..Len(Ms) /\ Len(Ms) \in Nat /\ place \in Nat /\ m.at > place
  BY <1>1, <1>2, <1>5, AnswerShape, MsFacts, DataAtHead
<1>8. c.async \notin {"IDLE", "BUSY", "READY"}
  BY <1>2 DEF CopyOutStates
<1>9. ~RowWaits /\ ~RowWaits' /\ Filling = c.result /\ Filling' = c.result
  <2>1. ~RowWaits /\ Filling = c.result
    BY <1>1, <1>8, BusyResult
  <2> QED BY <1>3, <2>1 DEF RowWaits, Filling, Is
<1>10. ConnInv'
  BY <1>1, <1>2, <1>3, <1>5, <1>8, <1>9 DEF ConnInv, FunctionPcs
<1>11. SeenInv' /\ RightAnswers'
  BY <1>1, <1>2, <1>3, <1>4, AnswersStay
<1>12. PICK q \in Nat : q = place'
  BY <1>4
<1>13. (act = "next" /\ q = m.at) \/ (act = "stay" /\ q = place)
  <2>1. /\ act = "next" => place' = m.at
        /\ act = "stay" => place' = place
    BY <1>4
  <2> QED BY <1>2, <1>12, <2>1
<1>14. FillInv'
  <2>1. NoRows(place, q)
    <3>1. ASSUME NEW k \in place + 1..q PROVE Ms[k].id # "T" /\ ~IsRow(Ms[k])
      <4>1. k \in place + 1..m.at - 1 \/ k = m.at
        BY <1>5, <1>7, <1>13
      <4> HIDE DEF Ms
      <4>2. Ms[k].id = "end" \/ IsData(Ms[k])
        BY <1>2, <1>5, <4>1
      <4> QED BY <4>2 DEF IsRow, IsData, DataIds
    <3> QED BY <3>1 DEF NoRows
  <2>2. NoRows(place, place')
    BY <1>12, <2>1 DEF NoRows
  <2> QED BY <1>1, <1>2, <1>3, <1>4, <1>8, <2>2, FillKept
<1>15. ErrorInv' /\ BareInv'
  <2>1. (\A s : Troubled(s) => Troubled(s)') /\ (OutOfStep => OutOfStep')
    BY <1>2, <1>3, SameProgram
  <2> QED BY <1>1, <1>3, <2>1 DEF ErrorInv, BareInv, Is
<1>16. NextRowInv'
  <2>1. CASE act = "stay"
    <3>1. place' = place /\ OutOfStep' = OutOfStep
      BY <1>2, <1>3, <1>4, <2>1 DEF OutOfStep
    <3> HIDE DEF Ms
    <3> QED BY <1>1, <1>2, <1>4, <1>8, <1>9, <3>1 DEF NextRowInv
  <2>2. CASE act = "next"
    <3>1. q < Len(Ms) => ~IsRow(Ms[q + 1])
      <4>1. q = m.at /\ q \in Nat /\ Ms[q] = m
        BY <1>5, <1>13, <2>2
      <4>2. q < Len(Ms) => q + 1 \in DOMAIN Ms
        BY <1>7
      <4>3. m.id # "T" /\ ~IsRow(m)
        BY <1>2 DEF IsRow, IsData, DataIds
      <4> HIDE DEF Ms
      <4> QED BY <1>1, <4>1, <4>2, <4>3, RowFollows
    <3> HIDE DEF Ms
    <3> QED BY <1>4, <1>12, <3>1 DEF NextRowInv
  <2> QED BY <1>2, <2>1, <2>2
<1>17. LinesInv'
  BY <1>2, <1>3, <1>5 DEF LinesInv
<1>18. CopyInv'
  BY HandingCopies
<1> QED BY <1>4, <1>6, <1>10, <1>11, <1>14, <1>15, <1>16, <1>17, <1>18 DEF IInv, RowsInv

\* PQgetCopyData hands over a message, PQgetlineAsync a piece of LineBuf.
LEMMA CopyDataKeeps ==
  ASSUME IInv, PQgetCopyData \/ PQgetlineAsync
  PROVE  IInv'
<1>1. TypeOK /\ PieceInv /\ StreamInv /\ c \in Connections /\ c.copy_already_done \in Nat
  BY DEF IInv, CopyInv, TypeOK, Connections
<1>2. pc = "user" /\ c.async \in CopyOutStates /\ DataThere
  BY DEF PQgetCopyData, PQgetlineAsync, ReadsCopy, CopyOutStates
<1>3. PICK m \in Messages : m = Head(in) /\ m.n \in Nat
  BY <1>1, <1>2, HeadKinds DEF DataThere
<1>4. CASE PQgetCopyData
  <2>1. /\ InputAfter("next") /\ HandOver(m.n) /\ c' = c /\ c.copy_already_done = 0
        /\ UNCHANGED <<program, sent, script, alive, pc, delivered, copied, hurt>>
    BY <1>3, <1>4 DEF PQgetCopyData, InputAfter, serverVars
  <2>2. Same(c') /\ KeepsResult(c')
    BY <1>1, <2>1 DEF Same, KeepsResult
  <2>3. c.copy_already_done + m.n = m.n
    BY <1>3, <2>1
  <2>4. Handing(m, m.n, "next")
    BY <1>2, <1>3, <2>1, <2>2, <2>3 DEF Handing
  <2> QED BY <2>4, HandingKeeps
<1>5. CASE PQgetlineAsync
  <2> DEFINE avail == m.n - c.copy_already_done
             piece == IF avail <= LineBuf THEN avail ELSE LineBuf
  <2>1. /\ m.n > 0 /\ HandOver(piece) /\ UNCHANGED half
        /\ IF avail <= LineBuf THEN TakeMessage ELSE UNCHANGED <<in, place>>
        /\ c' = [c EXCEPT !.copy_already_done = IF avail <= LineBuf THEN 0 ELSE c.copy_already_done + piece]
        /\ UNCHANGED <<program, sent, script, alive, pc, delivered, copied, hurt>>
    BY <1>1, <1>3, <1>5 DEF PQgetlineAsync, serverVars, Connections
  <2>2. LineBuf \in Nat /\ LineBuf > 0 /\ avail \in Nat
    <3>1. c.copy_already_done <= m.n
      BY <1>1, <1>2, <1>3, <2>1 DEF PieceInv
    <3> QED BY <1>1, <1>3, <3>1, ProtocolAssumption
  <2>3. CASE avail <= LineBuf
    <3>1. InputAfter("next") /\ HandOver(avail) /\ c' = [c EXCEPT !.copy_already_done = 0]
      BY <2>1, <2>3 DEF InputAfter
    <3>2. c.copy_already_done + avail = m.n
      BY <1>1, <1>3, <2>2
    <3> HIDE DEF avail
    <3>3. Same(c') /\ KeepsResult(c') /\ c'.ok = c.ok /\ c'.async = c.async /\ c'.copy_already_done = 0
      BY <1>1, <3>1 DEF Same, KeepsResult, Connections
    <3>4. Handing(m, avail, "next")
      BY <1>2, <1>3, <2>1, <2>2, <3>1, <3>2, <3>3 DEF Handing
    <3> QED BY <3>4, HandingKeeps
  <2>4. CASE ~(avail <= LineBuf)
    <3>1. /\ InputAfter("stay") /\ HandOver(LineBuf)
          /\ c' = [c EXCEPT !.copy_already_done = c.copy_already_done + LineBuf]
      BY <2>1, <2>4 DEF InputAfter
    <3>2. c.copy_already_done + LineBuf < m.n /\ c.copy_already_done + LineBuf \in Nat
      BY <1>1, <1>3, <2>2, <2>4
    <3> HIDE DEF avail, piece
    <3>3. /\ Same(c') /\ KeepsResult(c') /\ c'.ok = c.ok /\ c'.async = c.async
          /\ c'.copy_already_done = c.copy_already_done + LineBuf
      BY <1>1, <3>1, <3>2 DEF Same, KeepsResult, Connections
    <3>4. Handing(m, LineBuf, "stay")
      BY <1>2, <1>3, <2>1, <2>2, <3>1, <3>2, <3>3 DEF Handing
    <3> QED BY <3>4, HandingKeeps
  <2> QED BY <2>3, <2>4
<1> QED BY <1>4, <1>5

\* The copy is at its end, and the caller told so.
CopyEnds(m, act) ==
  /\ pc = "user" /\ pc' = "user" /\ c.async \in CopyOutStates /\ in # <<>> /\ m = Head(in)
  /\ ~IsData(m) /\ m.at # 0 /\ InputAfter(act)
  /\ IF c.pversion = 2 THEN act = "next" /\ m.id = "." ELSE act = "stay"
  /\ \E a \in {"BUSY", "COPY_IN"} : c' = [c EXCEPT !.async = a]
  /\ copied' = copied \union {program[sent].messages[place].stmt}
  /\ UNCHANGED <<program, sent, script, alive, delivered, got, hurt>>

LEMMA CopyEndsTold ==
  ASSUME IInv, NEW m, NEW act, CopyEnds(m, act), place' \in Nat, place <= place'
  PROVE  copied' \in SUBSET Nat /\ ToldInv' /\ CopyDataWhole'
<1>1. TypeOK /\ StreamInv /\ ConnInv /\ CopyingInv /\ ToldInv /\ CopyDataWhole
  BY DEF IInv, CopyInv
<1>2. /\ in # <<>> /\ m = Head(in) /\ ~IsData(m) /\ m.at # 0 /\ c.async \in CopyOutStates
      /\ copied' = copied \union {program[sent].messages[place].stmt}
      /\ UNCHANGED <<program, sent, got>>
  BY DEF CopyEnds
<1>3. c.ok
  <2>1. c.async # "IDLE"
    BY <1>2 DEF CopyOutStates
  <2> QED BY <1>1, <1>2, <2>1 DEF ConnInv
<1>4. PICK h \in 1..place : CopiedFrom(h)
  BY <1>1, <1>2, <1>3 DEF CopyingInv
<1>5. /\ StartsCopy(Ms[h])
      /\ \A j \in h + 1..place : Ms[j].stmt = Ms[h].stmt
      /\ \A k \in DOMAIN Ms : IsData(Ms[k]) /\ Ms[k].stmt = Ms[h].stmt => got[sent][k] = HandedNow(k)
  BY <1>4 DEF CopiedFrom
<1>6. /\ m.at \in DOMAIN Ms /\ m.at \in Nat /\ m = Ms[m.at] /\ m.at > place /\ m.id # "end" /\ sent > 0
      /\ \A k \in place + 1..m.at - 1 : Ms[k].id = "end"
  BY <1>1, <1>2, HeadKinds, HeadFacts
<1>7. /\ DOMAIN Ms = 1..Len(Ms) /\ Len(Ms) \in Nat /\ place \in Nat /\ h \in DOMAIN Ms /\ h \in Nat
      /\ sent \in DOMAIN program /\ Ms = program[sent].messages
  BY <1>1, <1>4, <1>6, AnswerShape, MsFacts, PlacesOf
<1>8. Ms[h].stmt # 0 /\ Ms[h].stmt \in Nat
  <2>1. Ms[h].id # "Z"
    BY <1>5 DEF StartsCopy
  <2> QED BY <1>1, <1>7, <2>1, AnswerShape
<1>9. copied' = copied \union {Ms[h].stmt}
  <2>1. place = h \/ place \in h + 1..place
    BY <1>4, <1>7
  <2> QED BY <1>2, <1>5, <1>7, <2>1
<1>10. copied' \in SUBSET Nat
  BY <1>1, <1>8, <1>9 DEF TypeOK
<1>11. ToldInv'
  <2>1. Ms' = Ms /\ \A s : Before(s)' = Before(s)
    BY <1>2 DEF Ms, Before
  <2>2. \A s : CopySeen(s) => CopySeen(s)'
    BY <1>7, <2>1 DEF CopySeen
  <2>3. CopySeen(Ms[h].stmt)
    BY <1>4, <1>5 DEF CopySeen
  <2> HIDE DEF Ms
  <2>4. \A s \in copied' \ {0} : Before(s) \/ CopySeen(s)
    BY <1>1, <1>9, <2>3 DEF ToldInv
  <2> QED BY <2>1, <2>2, <2>4 DEF ToldInv
<1>12. ASSUME NEW j \in DOMAIN Ms, IsData(Ms[j]), Ms[j].stmt = Ms[h].stmt PROVE got[sent][j] = Ms[j].n
  <2>1. j > h /\ \A l \in h + 1..j : IsData(Ms[l]) \/ Ms[l].id = "end"
    BY <1>1, <1>5, <1>7, <1>12, CopyOfData
  <2> HIDE DEF Ms
  <2>2. j \in Nat /\ ~(j > m.at)
    <3>1. j > m.at => m.at \in h + 1..j
      BY <1>4, <1>6, <1>7
    <3> QED BY <1>2, <1>6, <1>7, <2>1, <3>1
  <2>3. j \notin place + 1..m.at - 1
    <3>1. Ms[j].id # "end"
      BY <1>12 DEF IsData, DataIds
    <3> QED BY <1>6, <3>1
  <2>4. j # m.at
    BY <1>2, <1>6, <1>12
  <2>5. j <= place
    BY <1>6, <1>7, <2>2, <2>3, <2>4
  <2> QED BY <1>5, <1>12, <2>5 DEF HandedNow
<1>13. CopyDataWhole'
  <2> DEFINE Data(ms, s) == {k \in DOMAIN ms : IsData(ms[k]) /\ ms[k].stmt = s}
             Whole(i, k) ==
               \A j \in Data(program[i].messages, program[i].messages[k].stmt) : got[i][j] = program[i].messages[j].n
  <2>1. \A i \in DOMAIN program : \A k \in DOMAIN program[i].messages :
          /\ got[i][k] # 0 =>
               /\ k \in Data(program[i].messages, program[i].messages[k].stmt) /\ got[i][k] <= program[i].messages[k].n
               /\ \A j \in Data(program[i].messages, program[i].messages[k].stmt) :
                    j < k => got[i][j] = program[i].messages[j].n
          /\ program[i].messages[k].stmt \in copied \ {0} => Whole(i, k)
    BY <1>1 DEF CopyDataWhole
  <2>2. ASSUME NEW i \in DOMAIN program, NEW k \in DOMAIN program[i].messages,
               program[i].messages[k].stmt = Ms[h].stmt
        PROVE  Whole(i, k)
    <3>1. i = sent
      <4> HIDE DEF Ms
      <4> QED BY <1>1, <1>7, <1>8, <2>2, ProgramAnswered DEF Answered
    <3> HIDE DEF Ms
    <3> QED BY <1>7, <1>12, <2>2, <3>1
  <2> HIDE DEF Data, Ms
  <2>3. \A i \in DOMAIN program : \A k \in DOMAIN program[i].messages :
          program[i].messages[k].stmt \in copied' \ {0} => Whole(i, k)
    <3> HIDE DEF Whole
    <3> QED BY <1>9, <2>1, <2>2
  <2> QED BY <1>2, <2>1, <2>3 DEF CopyDataWhole, Data
<1> QED BY <1>10, <1>11, <1>13

LEMMA CopyEndsKeeps ==
  ASSUME IInv, NEW m, NEW act, CopyEnds(m, act)
  PROVE  IInv'
<1>1. /\ TypeOK /\ StreamInv /\ ConnInv /\ FillInv /\ NextRowInv /\ ErrorInv /\ BareInv
      /\ SeenInv /\ RightAnswers /\ PieceInv /\ PendingInv /\ c \in Connections /\ c.copy_already_done \in Nat
  BY DEF IInv, RowsInv, CopyInv, TypeOK, Connections
<1>2. /\ pc = "user" /\ pc' = "user" /\ c.async \in CopyOutStates /\ in # <<>> /\ m = Head(in)
      /\ ~IsData(m) /\ m.at # 0 /\ InputAfter(act) /\ act \in Acts
      /\ c.pversion = 2 => act = "next" /\ m.id = "."
      /\ c.pversion # 2 => act = "stay"
      /\ UNCHANGED <<program, sent, script, alive, delivered, got, hurt>>
  BY DEF CopyEnds, Acts
<1>3. PICK a \in {"BUSY", "COPY_IN"} : c' = [c EXCEPT !.async = a]
  BY DEF CopyEnds
<1>4. /\ Same(c') /\ KeepsResult(c') /\ c'.ok = c.ok /\ c'.copy_already_done = c.copy_already_done
      /\ c'.async = a
  BY <1>1, <1>3 DEF Connections, Same, AsyncStates, CopyStates, KeepsResult
<1>5. c'.pversion = c.pversion /\ c'.class = c.class /\ c'.single = c.single /\ c' \in Connections
      /\ c'.result = c.result /\ c'.next_result = c.next_result
  BY <1>4 DEF Same, KeepsResult
<1>6. /\ StreamInv' /\ in' \in Seq(Messages) /\ half' \in BOOLEAN
      /\ Ms' = Ms /\ place' \in Nat /\ place <= place' /\ place' <= Len(Ms)
      /\ act = "next" => in' = Tail(in) /\ place' = m.at
      /\ act = "next" => \A k \in place + 1..place' : k = m.at \/ Ms[k].id = "end"
      /\ act = "stay" => in' = in /\ place' = place
      /\ act # "stay" => m.at <= place'
  BY <1>1, <1>2, <1>5, InputMoves
<1>7. copied' \in SUBSET Nat /\ ToldInv' /\ CopyDataWhole'
  BY <1>6, CopyEndsTold
<1>8. c.async \notin {"IDLE", "READY", "BUSY"} /\ c.ok
  <2>1. c.async \notin {"IDLE", "READY", "BUSY"}
    BY <1>2 DEF CopyOutStates
  <2> QED BY <1>1, <1>2, <2>1 DEF ConnInv
<1>9. /\ m.at \in DOMAIN Ms /\ m.at \in Nat /\ m = Ms[m.at]
      /\ DOMAIN Ms = 1..Len(Ms) /\ Len(Ms) \in Nat /\ place \in Nat
  BY <1>1, <1>2, HeadKinds, AnswerShape, MsFacts
<1>10. TypeOK'
  <2> HIDE DEF Ms
  <2> QED BY <1>1, <1>2, <1>5, <1>6, <1>7 DEF TypeOK
<1>11. ~RowWaits /\ ~RowWaits' /\ Filling = c.result /\ Filling' = c.result
  <2>1. ~RowWaits /\ Filling = c.result
    BY <1>1, <1>8, BusyResult
  <2> QED BY <1>5, <2>1 DEF RowWaits, Filling, Is
<1>12. ConnInv'
  BY <1>1, <1>2, <1>4, <1>5, <1>8, <1>11 DEF ConnInv, FunctionPcs
<1>13. SeenInv' /\ RightAnswers'
  BY <1>1, <1>2, <1>5, <1>6, AnswersStay
<1>14. FillInv'
  <2>1. ASSUME NEW k \in place + 1..place' PROVE Ms[k].id # "T" /\ ~IsRow(Ms[k])
    <3>1. CASE act = "stay"
      <4>1. place + 1..place = {}
        BY <1>9
      <4> QED BY <1>6, <3>1, <4>1
    <3>2. CASE act = "next"
      <4>1. Ms[k] = m \/ Ms[k].id = "end"
        BY <1>6, <1>9, <3>2
      <4>2. m.id = "."
        BY <1>2, <3>2
      <4> QED BY <4>1, <4>2 DEF IsRow
    <3> QED BY <1>2, <3>1, <3>2
  <2>2. NoRows(place, place')
    BY <2>1 DEF NoRows
  <2> QED BY <1>1, <1>2, <1>4, <1>5, <1>6, <1>8, <2>2, FillKept
<1>15. ErrorInv' /\ BareInv'
  <2>1. (\A s : Troubled(s) => Troubled(s)') /\ (OutOfStep => OutOfStep')
    BY <1>2, <1>5, SameProgram
  <2> QED BY <1>1, <1>5, <2>1 DEF ErrorInv, BareInv, Is
<1>16. PICK q \in Nat : q = place'
  BY <1>6
<1>17. NextRowInv'
  <2>1. CASE act = "stay"
    <3>1. place' = place /\ OutOfStep' = OutOfStep
      BY <1>2, <1>5, <1>6, <2>1 DEF OutOfStep
    <3> HIDE DEF Ms
    <3> QED BY <1>1, <1>2, <1>4, <1>6, <1>8, <1>11, <3>1 DEF NextRowInv
  <2>2. CASE act = "next"
    <3>1. q < Len(Ms) => ~IsRow(Ms[q + 1])
      <4>1. q = m.at /\ q \in Nat /\ Ms[q] = m
        BY <1>6, <1>9, <1>16, <2>2
      <4>2. q < Len(Ms) => q + 1 \in DOMAIN Ms
        BY <1>9
      <4>3. m.id # "T" /\ ~IsRow(m)
        BY <1>2, <2>2 DEF IsRow
      <4> HIDE DEF Ms
      <4> QED BY <1>1, <4>1, <4>2, <4>3, RowFollows
    <3> HIDE DEF Ms
    <3> QED BY <1>6, <1>16, <3>1 DEF NextRowInv
  <2> QED BY <1>2, <2>1, <2>2
<1>18. LinesInv'
  <2>1. c.pversion = 2 => place' = m.at /\ Ms[m.at] = m /\ m.id = "."
    BY <1>2, <1>6, <1>9
  <2>2. c.pversion = 2 => ~InLines(Ms[place'])
    BY <2>1 DEF InLines
  <2> HIDE DEF Ms
  <2> QED BY <1>5, <1>6, <2>2 DEF LinesInv
<1>19. CopyingInv' /\ PieceInv'
  <2>1. c.copy_already_done = 0
    BY <1>1, <1>2 DEF PieceInv, DataThere
  <2> QED BY <1>4, <2>1 DEF CopyingInv, PieceInv, CopyOutStates
<1>20. PendingInv'
  BY <1>1, <1>2, <1>6, <1>9, PendingMoves
<1> QED BY <1>6, <1>7, <1>10, <1>12, <1>13, <1>14, <1>15, <1>17, <1>18, <1>19, <1>20 DEF IInv, RowsInv, CopyInv

\* A message in the way of a copy call.
LEMMA CopyOtherKeeps ==
  ASSUME IInv, CopyOther
  PROVE  IInv'
<1>1. TypeOK /\ StreamInv /\ ConnInv /\ CopyingInv /\ c \in Connections
  BY DEF IInv, CopyInv, TypeOK
<1>2. /\ pc = "user" /\ pc' = "user" /\ c.async \in CopyOutStates /\ in # <<>> /\ ~DataThere
      /\ UNCHANGED <<program, sent, script, alive, delivered, got>>
  BY DEF CopyOther, ReadsCopy, CopyOutStates, serverVars
<1>3. PICK m \in Messages : m = Head(in) /\ m.stmt \in Nat /\ m.form \in {"ok", "bad", "short", "huge"}
  BY <1>1, <1>2, HeadKinds
<1>4. PICK o \in CopyMessage(m) :
        /\ Treated(o, m)
        /\ copied' = IF o.act # "lost" /\ o.c.async # c.async
                     THEN copied \union {program[sent].messages[place].stmt} ELSE copied
  BY <1>3 DEF CopyOther
<1>5. InputAfter(o.act) /\ c' = o.c /\ hurt' = IF o.failed THEN hurt \union {m.stmt} ELSE hurt
  BY <1>4 DEF Treated
<1>6. c.pversion \in {2, 3} /\ c.ok
  <2>1. c.async # "IDLE"
    BY <1>2 DEF CopyOutStates
  <2> QED BY <1>1, <1>2, <2>1, ProgramAnswered DEF ConnInv
<1>7. ASSUME o.act \in Acts, o.failed \in BOOLEAN, Kind(c', m, o.act, o.failed),
             o.act = "lost" \/ c'.async = c.async
      PROVE  IInv'
  <2>1. copied' = copied
    BY <1>4, <1>5, <1>7
  <2>2. hurt \subseteq hurt' /\ hurt' \in SUBSET Nat /\ (o.failed => m.stmt \in hurt')
    BY <1>1, <1>3, <1>5, <1>7 DEF TypeOK
  <2>3. pc' \in Pcs /\ pc \notin FunctionPcs /\ pc' \notin FunctionPcs
    BY <1>2 DEF Pcs, FunctionPcs
  <2>4. Treating(m, o.act, o.failed)
    BY <1>2, <1>3, <1>5, <1>7, <2>1, <2>2, <2>3 DEF Treating
  <2> QED BY <2>4, TreatingKeeps
<1>8. CASE c.pversion = 3 /\ m.form = "huge"
  <2>1. o = V3!handleSyncLoss(c, m)
    BY <1>4, <1>8 DEF CopyMessage, V3!CopyMessage3
  <2>2. o.act = "lost" /\ o.failed = FALSE /\ Refused(o.c, m, o.act, o.failed)
    BY <1>1, <1>8, <2>1, LossKind
  <2> QED BY <1>5, <1>7, <2>2 DEF Kind, Acts
<1>9. CASE c.pversion = 3 /\ m.form # "huge" /\ m.id \in {"A", "N", "S"}
  <2>1. o \in V3!getNotify(c) \/ o = V3!Took(c)
    BY <1>4, <1>9 DEF CopyMessage, V3!CopyMessage3
  <2>2. o.act \in {"next", "stay"} /\ o.failed \in BOOLEAN /\ Ignored(o.c, m, o.act)
    BY <1>1, <1>2, <1>3, <1>9, <2>1, UnaskedKinds3
  <2>3. o.c.async = c.async
    BY <2>2 DEF Ignored
  <2> QED BY <1>5, <1>7, <2>2, <2>3 DEF Kind, Acts
<1>10. CASE c.pversion = 3 /\ m.form # "huge" /\ m.id \notin {"A", "N", "S"}
  <2>1. PICK a \in {"BUSY", "COPY_IN"} : o = [c |-> [c EXCEPT !.async = a], act |-> "stay", failed |-> FALSE]
    BY <1>4, <1>10 DEF CopyMessage, V3!CopyMessage3, V3!Stays, V3!Outcome
  <2>2. o.c = [c EXCEPT !.async = a] /\ o.act = "stay" /\ o.failed = FALSE
    BY <2>1
  <2>3. o.c.async # c.async
    BY <1>1, <1>2, <2>2 DEF Connections, CopyOutStates
  <2>4. m.at # 0 /\ ~IsData(m)
    BY <1>1, <1>2, <1>3, <1>10, HeadKinds DEF DataThere
  <2>5. CopyEnds(m, "stay")
    BY <1>2, <1>3, <1>4, <1>5, <1>10, <2>2, <2>3, <2>4 DEF CopyEnds
  <2> QED BY <2>5, CopyEndsKeeps
<1>11. CASE c.pversion = 2
  <2>1. o = [c |-> [c EXCEPT !.async = "BUSY"], act |-> "next", failed |-> FALSE]
    BY <1>4, <1>11 DEF CopyMessage, V2!CopyEnds2, V2!Took, V2!Outcome
  <2>2. o.c = [c EXCEPT !.async = "BUSY"] /\ o.act = "next" /\ o.failed = FALSE
    BY <2>1
  <2>3. o.c.async # c.async
    BY <1>1, <1>2, <2>2 DEF Connections, CopyOutStates
  <2>4. ~IsData(m) /\ m.form = "ok"
    BY <1>1, <1>2, <1>3, <1>11, HeadKinds DEF DataThere
  <2>5. m.id \in LineIds
    <3>1. c.async = "COPY_OUT"
      BY <1>1, <1>2, <1>11 DEF ConnInv, CopyOutStates
    <3>2. place > 0 /\ InLines(Ms[place])
      BY <1>1, <1>6, <1>11, <3>1 DEF CopyingInv
    <3>3. Stream # <<>> /\ Stream[1] = m
      <4>1. 1 \in 1..Len(in) /\ Head(in) = in[1]
        BY <1>1, <1>2 DEF TypeOK
      <4>2. Stream[1] = in[1] /\ Len(Stream) > 0
        BY <1>1, <4>1, StreamTypes
      <4> HIDE DEF Stream
      <4> QED BY <1>3, <4>1, <4>2
    <3> HIDE DEF Stream, Ms
    <3> QED BY <1>1, <1>11, <3>2, <3>3 DEF StreamInv, Unbroken
  <2>6. m.id = "."
    BY <2>4, <2>5 DEF LineIds, IsData, DataIds
  <2>7. m.at # 0
    BY <1>1, <1>2, <1>3, <2>6, HeadKinds
  <2>8. CopyEnds(m, "next")
    BY <1>2, <1>3, <1>4, <1>5, <1>11, <2>2, <2>3, <2>4, <2>6, <2>7 DEF CopyEnds
  <2> QED BY <2>8, CopyEndsKeeps
<1> QED BY <1>6, <1>8, <1>9, <1>10, <1>11

-----------------------------------------------------------------------------
(* A query is sent. *)

LEMMA AskedKeeps ==
  ASSUME IInv, pc = "user", sent < Len(program), c.async = "IDLE", c.ok, sent' = sent + 1, place' = 0,
         ServerAsked(program[sent + 1]), UNCHANGED <<program, in, half, alive, delivered, got, copied, hurt>>,
         c' \in Connections, c'.pversion = c.pversion, c'.ok, c'.copy_already_done = c.copy_already_done,
         c'.result = NULL, c'.next_result = NULL,
         \/ /\ pc' = "parse" /\ c'.async = "BUSY" /\ c'.class # "FUNCTION"
            /\ c'.class = program[sent + 1].class /\ c'.single = program[sent + 1].single
         \/ pc' = "function" /\ c'.async = "IDLE" /\ program[sent + 1].class = "FUNCTION"
  PROVE  IInv'
<1>1. /\ TypeOK /\ StreamInv /\ ConnInv /\ SeenInv /\ RightAnswers /\ PieceInv /\ PendingInv
      /\ ToldInv /\ CopyDataWhole
  BY DEF IInv, RowsInv, CopyInv
<1>2. place = Len(Ms)
  BY <1>1 DEF ConnInv, FunctionPcs
<1>3. StreamInv' /\ script' \in Seq(Messages)
  BY <1>1, <1>2, StreamAsked
<1>4. sent \in Nat /\ Len(program) \in Nat /\ DOMAIN program = 1..Len(program) /\ place \in Nat
  BY <1>1, MsFacts, ProgramAnswered DEF Answered
<1>5. sent + 1 \in DOMAIN program /\ sent + 1 > 0 /\ sent + 1 # 0
  BY <1>4
<1>6. Ms' = program[sent + 1].messages
  BY <1>5 DEF Ms
<1>7. /\ Answers(c.pversion, program[sent + 1]) /\ Placed(program[sent + 1].messages)
      /\ Len(program[sent + 1].messages) \in Nat
  BY <1>1, <1>5, AnswerFacts
<1>8. TypeOK'
  <2>1. sent + 1 \in 0..Len(program) /\ 0 \in 0..Len(program[sent + 1].messages)
    BY <1>4, <1>7
  <2>2. pc' \in Pcs
    BY DEF Pcs, FunctionPcs
  <2> HIDE DEF Ms
  <2> QED BY <1>1, <1>3, <1>6, <2>1, <2>2 DEF TypeOK
<1>9. ~RowWaits' /\ Filling' = NULL /\ ~Is(Filling', "TUPLES_OK") /\ ~Is(c'.result, "FATAL_ERROR")
  BY DEF RowWaits, Filling, Is
<1>10. ConnInv'
  BY <1>5, <1>9 DEF ConnInv, FunctionPcs
<1>11. FillInv' /\ ErrorInv' /\ BareInv' /\ LinesInv'
  BY <1>9 DEF FillInv, ErrorInv, BareInv, LinesInv
<1>12. NextRowInv'
  <2>1. RowsFollow(program[sent + 1].messages)
    BY <1>7 DEF Answers
  <2>2. 0 < Len(program[sent + 1].messages) => ~IsRow(program[sent + 1].messages[1])
    <3>1. 1..1 - 1 = {}
      OBVIOUS
    <3>2. 0 < Len(program[sent + 1].messages) => 1 \in DOMAIN program[sent + 1].messages
      BY <1>7 DEF Placed
    <3> QED BY <2>1, <3>1, <3>2 DEF RowsFollow
  <2>3. 0 + 1 = 1
    OBVIOUS
  <2> HIDE DEF Ms
  <2> QED BY <1>6, <2>2, <2>3 DEF NextRowInv
<1>13. \A s : (Before(s) => Before(s)') /\ (RowSeen(s) => Before(s)') /\ (CopySeen(s) => Before(s)')
  <2>1. \A i \in 1..sent - 1 : i \in 1..(sent + 1) - 1
    BY <1>4
  <2>2. ASSUME NEW s, NEW k \in 1..place, Ms[k].stmt = s PROVE Before(s)'
    <3>1. sent > 0 /\ Ms = program[sent].messages
      BY <1>1, <1>4, MsFacts
    <3>2. k \in DOMAIN program[sent].messages
      BY <1>1, <3>1, PlacesOf
    <3>3. sent \in 1..(sent + 1) - 1
      BY <1>4, <3>1
    <3> HIDE DEF Ms
    <3> QED BY <2>2, <3>1, <3>2, <3>3 DEF Before
  <2> HIDE DEF Ms
  <2> QED BY <2>1, <2>2 DEF Before, RowSeen, CopySeen
<1>14. SeenInv' /\ ToldInv'
  BY <1>1, <1>13 DEF SeenInv, ToldInv
<1>15. RightAnswers' /\ CopyDataWhole'
  <2>1. RightAnswers'
    BY <1>1, RightAnswersStay
  <2> QED BY <1>1, <2>1 DEF CopyDataWhole
<1>16. CopyingInv' /\ PieceInv'
  BY <1>1 DEF CopyingInv, PieceInv, CopyOutStates
<1>17. PendingInv'
  <2>1. sent + 1 > sent /\ \A i \in DOMAIN program : i > sent + 1 => i > sent
    BY <1>4
  <2>2. \A k \in DOMAIN program[sent + 1].messages : got[sent + 1][k] = 0
    BY <1>1, <1>5, <2>1 DEF PendingInv
  <2>3. \A k \in 0 + 1..Len(program[sent + 1].messages) : k \in DOMAIN program[sent + 1].messages
    BY <1>7 DEF Placed
  <2> HIDE DEF Ms
  <2> QED BY <1>1, <1>6, <2>1, <2>2, <2>3 DEF PendingInv
<1> QED BY <1>3, <1>8, <1>10, <1>11, <1>12, <1>14, <1>15, <1>16, <1>17 DEF IInv, RowsInv, CopyInv

LEMMA QueryKeeps ==
  ASSUME IInv, PQsendQuery \/ PQfn
  PROVE  IInv'
<1>1. TypeOK /\ ConnInv /\ c \in Connections /\ c.async = "IDLE" /\ c.ok /\ c.pversion \in {2, 3}
  BY DEF IInv, TypeOK, PQsendQuery, PQfn, Connections
<1>2. /\ pc = "user" /\ sent < Len(program) /\ sent' = sent + 1 /\ place' = 0 /\ ServerAsked(program[sent + 1])
      /\ UNCHANGED <<program, in, half, alive, delivered, got, copied, hurt>>
  BY DEF PQsendQuery, PQfn, history
<1>3. c.next_result = NULL
  BY <1>1, BusyResult
<1>4. CASE PQsendQuery
  <2> DEFINE class == program[sent + 1].class
             single == program[sent + 1].single
  <2>1. /\ c' = [pqClearAsyncResult(c) EXCEPT !.async = "BUSY", !.class = class, !.single = single]
        /\ class # "FUNCTION" /\ pc' = "parse"
    BY <1>4 DEF PQsendQuery
  <2>2. sent + 1 \in DOMAIN program
    <3>1. sent \in Nat /\ DOMAIN program = 1..Len(program) /\ Len(program) \in Nat
      BY <1>1, MsFacts, ProgramAnswered DEF Answered
    <3> QED BY <1>2, <3>1
  <2>3. class \in Classes(3) /\ single \in BOOLEAN
    <3>1. class \in Classes(c.pversion) /\ single \in BOOLEAN
      BY <1>1, <2>2, AnswerFacts
    <3> HIDE DEF class, single
    <3> QED BY <1>1, <3>1 DEF Classes
  <2> HIDE DEF class, single
  <2>4. /\ c' \in Connections /\ c'.pversion = c.pversion /\ c'.ok /\ c'.copy_already_done = c.copy_already_done
        /\ c'.result = NULL /\ c'.next_result = NULL /\ c'.async = "BUSY" /\ c'.class = class /\ c'.single = single
    BY <1>1, <2>1, <2>3 DEF Connections, AsyncStates, pqClearAsyncResult
  <2> QED BY <1>1, <1>2, <2>1, <2>4, AskedKeeps DEF class, single
<1>5. CASE PQfn
  <2>1. c' = c /\ c.result = NULL /\ pc' = "function" /\ program[sent + 1].class = "FUNCTION"
    BY <1>5 DEF PQfn
  <2> QED BY <1>1, <1>2, <1>3, <2>1, AskedKeeps
<1> QED BY <1>4, <1>5

-----------------------------------------------------------------------------
(* PQfn. *)

LEMMA FunctionFacts ==
  ASSUME IInv, pc = "function", in # <<>>, NEW m, m = Head(in)
  PROVE  /\ c.async = "IDLE" /\ c.ok /\ ~RowWaits /\ c.next_result = NULL /\ Filling = c.result
         /\ c.result # NULL => c.result \in Results /\ c.result.status \in {"COMMAND_OK", "FATAL_ERROR"}
         /\ \A k \in DOMAIN Ms : Ms[k].id \in {"V", "E", "Z"} /\ k \in Nat
         /\ m \in Messages /\ m.stmt \in Nat /\ m.form \in {"ok", "bad", "short", "huge"} /\ m.at \in Nat
         /\ m.at = 0 <=> m.id \in {"A", "N", "S"}
         /\ m.at = 0 => m.form = "ok" /\ (c.pversion = 2 => m.id # "S")
         /\ m.at # 0 => /\ m.at \in DOMAIN Ms /\ m = Ms[m.at]
                        /\ m.id \in {"V", "E"} \/ (m.id = "Z" /\ m.at = Len(Ms))
         /\ c.pversion = 2 => m.form = "ok"
<1>1. TypeOK /\ StreamInv /\ ConnInv
  BY DEF IInv
<1>2. /\ c.async = "IDLE" /\ c.ok /\ sent > 0 /\ program[sent].class = "FUNCTION"
      /\ c.result # NULL => c.result.status \in {"COMMAND_OK", "FATAL_ERROR"}
  BY <1>1 DEF ConnInv, FunctionPcs
<1>3. ~RowWaits /\ c.next_result = NULL /\ Filling = c.result
  BY <1>1, <1>2, BusyResult
<1>4. c.result # NULL => c.result \in Results
  BY <1>1 DEF TypeOK, Connections
<1>5. AnswerIds(c.pversion, program[sent].class) = {"V", "E"}
  BY <1>2 DEF AnswerIds
<1>6. \A k \in DOMAIN Ms : Ms[k].id \in {"V", "E", "Z"} /\ k \in Nat
  BY <1>1, <1>5, AnswerShape
<1>7. /\ m \in Messages /\ m.stmt \in Nat /\ m.form \in {"ok", "bad", "short", "huge"} /\ m.at \in Nat
      /\ m.at = 0 <=> m.id \in {"A", "N", "S"}
      /\ m.at = 0 => m.form = "ok" /\ (c.pversion = 2 => m.id # "S")
      /\ m.at # 0 => m.at \in DOMAIN Ms /\ m = Ms[m.at]
      /\ m.at # 0 => IF m.at = Len(Ms) THEN m.id = "Z" ELSE m.id \in {"V", "E"}
      /\ c.pversion = 2 => m.form = "ok"
  BY <1>1, <1>5, HeadKinds
<1> QED BY <1>2, <1>3, <1>4, <1>6, <1>7

LEMMA FunctionMoves ==
  ASSUME IInv, pc = "function", in # <<>>, NEW m, m = Head(in), m.at # 0,
         NEW act \in {"next", "end"}, InputAfter(act),
         UNCHANGED <<program, sent, script, alive, got, copied, hurt>>,
         Same(c'), c'.ok, c'.async = "IDLE", c'.copy_already_done = c.copy_already_done,
         c'.next_result = NULL, c'.result = NULL \/ c'.result.status \in {"COMMAND_OK", "FATAL_ERROR"},
         SeenInv', RightAnswers', ErrorInv', BareInv', delivered' \in Seq(Results),
         pc' = "function" \/ (pc' = "user" /\ m.id = "Z")
  PROVE  IInv'
<1>1. TypeOK /\ StreamInv /\ ConnInv /\ PieceInv /\ PendingInv /\ ToldInv /\ CopyDataWhole
  BY DEF IInv, CopyInv
<1>2. c'.pversion = c.pversion /\ c' \in Connections /\ act \in Acts
  BY DEF Same, Acts
<1>3. /\ StreamInv' /\ in' \in Seq(Messages) /\ half' \in BOOLEAN
      /\ Ms' = Ms /\ place' \in Nat /\ place <= place' /\ place' <= Len(Ms)
      /\ place' = m.at /\ m.at <= place'
  BY <1>1, <1>2, InputMoves
<1>4. /\ c.async = "IDLE" /\ c.ok /\ m.at \in DOMAIN Ms /\ m = Ms[m.at] /\ m.at \in Nat
      /\ \A k \in DOMAIN Ms : Ms[k].id \in {"V", "E", "Z"}
      /\ m.id \in {"V", "E"} \/ (m.id = "Z" /\ m.at = Len(Ms))
  BY FunctionFacts
<1>5. sent > 0 /\ program[sent].class = "FUNCTION" /\ DOMAIN Ms = 1..Len(Ms) /\ Len(Ms) \in Nat
  BY <1>1, <1>4, AnswerShape DEF ConnInv, FunctionPcs
<1> HIDE DEF Ms
<1>6. TypeOK'
  <2>1. place' \in 0..Len(Ms)
    BY <1>3, <1>5
  <2>2. pc' \in Pcs
    BY DEF Pcs, FunctionPcs
  <2> QED BY <1>1, <1>2, <1>3, <2>1, <2>2 DEF TypeOK
<1>7. ~RowWaits' /\ ~Is(Filling', "TUPLES_OK")
  BY DEF RowWaits, Filling, Is
<1>8. ConnInv'
  <2>1. pc' \notin FunctionPcs => place' = Len(Ms)
    BY <1>3, <1>4 DEF FunctionPcs
  <2> QED BY <1>3, <1>5, <1>7, <2>1 DEF ConnInv
<1>9. FillInv'
  BY <1>7 DEF FillInv
<1>10. NextRowInv'
  <2>1. m.at < Len(Ms) => m.at + 1 \in DOMAIN Ms
    BY <1>4, <1>5
  <2>2. m.at < Len(Ms) => ~IsRow(Ms[m.at + 1])
    BY <1>4, <2>1 DEF IsRow
  <2> QED BY <1>3, <2>2 DEF NextRowInv
<1>11. LinesInv'
  <2>1. ~InLines(Ms[m.at])
    BY <1>4 DEF InLines
  <2> QED BY <1>3, <2>1 DEF LinesInv
<1>12. CopyingInv' /\ PieceInv'
  BY <1>1, <1>2, <1>4 DEF CopyingInv, PieceInv, CopyOutStates
<1>13. PendingInv'
  BY <1>1, <1>3, <1>4, PendingMoves
<1>14. ToldInv' /\ CopyDataWhole'
  BY <1>1, <1>3, CopiesKept
<1> QED BY <1>3, <1>6, <1>8, <1>9, <1>10, <1>11, <1>12, <1>13, <1>14 DEF IInv, RowsInv, CopyInv

\* The result of the call comes, or an error instead.
LEMMA FunctionResultKeeps ==
  ASSUME IInv, pc = "function", in # <<>>, NEW m, m = Head(in), m.id \in {"V", "E"},
         InputAfter("next"), c' \in {[c EXCEPT !.result = NewResult("COMMAND_OK", m.stmt)],
                                     [pqClearAsyncResult(c) EXCEPT !.result = NewResult("FATAL_ERROR", m.stmt)]},
         m.id # "E" => c' = [c EXCEPT !.result = NewResult("COMMAND_OK", m.stmt)],
         UNCHANGED <<program, sent, script, alive, got, copied, hurt, delivered, pc>>
  PROVE  IInv'
<1>1. /\ TypeOK /\ StreamInv /\ SeenInv /\ RightAnswers /\ c \in Connections
      /\ c.async = "IDLE" /\ c.ok /\ c.next_result = NULL
      /\ m.stmt \in Nat /\ m.at # 0 /\ m.at \in DOMAIN Ms /\ m = Ms[m.at]
  BY FunctionFacts DEF IInv, RowsInv, TypeOK
<1>2. PICK status \in {"COMMAND_OK", "FATAL_ERROR"} :
        /\ c' = [c EXCEPT !.result = NewResult(status, m.stmt)]
        /\ status = "FATAL_ERROR" => m.id = "E"
  <2>1. [pqClearAsyncResult(c) EXCEPT !.result = NewResult("FATAL_ERROR", m.stmt)]
        = [c EXCEPT !.result = NewResult("FATAL_ERROR", m.stmt)]
    <3> HIDE DEF NewResult
    <3> QED BY <1>1 DEF pqClearAsyncResult, Connections
  <2> HIDE DEF NewResult
  <2> QED BY <2>1
<1>3. status \in Statuses
  BY DEF Statuses
<1>4. PICK r \in Results : r = NewResult(status, m.stmt) /\ r # NULL
  BY <1>1, <1>3, ResultTypes
<1>5. r.status = status /\ r.rows = <<>> /\ r.stmt = m.stmt
  BY <1>4 DEF NewResult
<1>6. /\ Same(c') /\ c'.ok /\ c'.async = "IDLE" /\ c'.copy_already_done = c.copy_already_done
      /\ c'.next_result = NULL /\ c'.result = r /\ c'.pversion = c.pversion
  BY <1>1, <1>2, <1>4 DEF Same, Connections
<1>7. place' \in Nat /\ place <= place'
  BY <1>1, <1>6, InputMoves DEF Acts
<1>8. SeenInv' /\ RightAnswers'
  BY <1>1, <1>6, <1>7, AnswersStay
<1>9. ErrorInv'
  <2>1. status = "FATAL_ERROR" => Troubled(r.stmt)
    BY <1>1, <1>2, <1>5, TroubledHere
  <2>2. \A s : Troubled(s) => Troubled(s)'
    BY <1>6, SameProgram
  <2>3. status = "FATAL_ERROR" => Troubled(r.stmt)'
    BY <2>1, <2>2
  <2> QED BY <1>5, <1>6, <2>3 DEF ErrorInv, Is
<1>10. BareInv'
  BY <1>5, <1>6 DEF BareInv
<1>11. delivered' \in Seq(Results) /\ pc' = "function" /\ c'.result.status \in {"COMMAND_OK", "FATAL_ERROR"}
  BY <1>1, <1>5, <1>6 DEF TypeOK
<1> QED BY <1>1, <1>6, <1>8, <1>9, <1>10, <1>11, FunctionMoves

\* ReadyForQuery: the call returns.
LEMMA FunctionReturnsKeeps ==
  ASSUME IInv, pc = "function", in # <<>>, NEW m, m = Head(in), m.id = "Z",
         InputAfter("end"), FunctionReturns(c, Prepared(c)),
         UNCHANGED <<program, sent, script, alive, got, copied, hurt>>
  PROVE  IInv'
<1>1. /\ TypeOK /\ StreamInv /\ ErrorInv /\ BareInv /\ c \in Connections
      /\ c.async = "IDLE" /\ c.ok /\ c.next_result = NULL /\ m.at # 0
      /\ c.result # NULL => c.result \in Results /\ c.result.status \in {"COMMAND_OK", "FATAL_ERROR"}
  BY FunctionFacts DEF IInv, RowsInv, TypeOK
<1>2. PICK r \in Results : /\ r = Prepared(c) /\ (c.result # NULL => r = c.result)
                           /\ c.result = NULL => r.status = "FATAL_ERROR" /\ r.stmt = 0
  BY <1>1, PreparedFacts DEF Is
<1>3. delivered' = Append(delivered, r) /\ pc' = "user" /\ c' = pqPrepareAsyncResult(c)
  BY <1>2 DEF FunctionReturns
<1>4. /\ Same(c') /\ c'.ok /\ c'.async = "IDLE" /\ c'.copy_already_done = c.copy_already_done
      /\ c'.next_result = NULL /\ c'.result = NULL /\ c'.pversion = c.pversion
  BY <1>1, <1>3, PreparedFacts DEF Same
<1>5. \/ r.status = "FATAL_ERROR" /\ (Troubled(r.stmt) \/ OutOfStep)
      \/ r.status \notin {"FATAL_ERROR", "SINGLE_TUPLE", "TUPLES_OK"} /\ r.rows = <<>>
  <2>1. CASE c.result = NULL
    BY <1>2, <2>1 DEF Troubled
  <2>2. CASE c.result # NULL
    <3>1. r = c.result /\ r.status \in {"COMMAND_OK", "FATAL_ERROR"}
      BY <1>1, <1>2, <2>2
    <3> QED BY <1>1, <2>2, <3>1 DEF ErrorInv, BareInv, Is
  <2> QED BY <2>1, <2>2
<1>6. place' \in Nat /\ place <= place'
  BY <1>1, <1>4, InputMoves DEF Acts
<1>7. SeenInv' /\ RightAnswers' /\ delivered' \in Seq(Results)
  BY <1>3, <1>4, <1>5, <1>6, Handed
<1>8. ErrorInv' /\ BareInv'
  BY <1>4 DEF ErrorInv, BareInv, Is
<1> QED BY <1>1, <1>3, <1>4, <1>7, <1>8, FunctionMoves

\* A length nobody believes: the connection is given up.
LEMMA FunctionGivenUpKeeps ==
  ASSUME IInv, pc = "function", in # <<>>, c.pversion = 3, NEW m, m = Head(in), m.form = "huge",
         NEW o, o = V3!handleSyncLoss(c, m), InputAfter("lost"), FunctionReturns(o.c, Prepared(o.c)),
         UNCHANGED <<program, sent, script, alive, got, copied, hurt>>
  PROVE  IInv'
<1>1. /\ TypeOK /\ StreamInv /\ ConnInv /\ ErrorInv /\ PendingInv /\ c \in Connections
      /\ m \in Messages /\ m.at # 0 /\ m.at \in DOMAIN Ms /\ m.at \in Nat /\ m = Ms[m.at]
  BY FunctionFacts DEF IInv, RowsInv, CopyInv, TypeOK
<1>2. PICK d : d = o.c
  OBVIOUS
<1>3. Refused(d, m, "lost", FALSE) /\ d.async = "READY" /\ ~d.ok /\ d \in Connections /\ d.pversion = c.pversion
  BY <1>1, <1>2, LossKind DEF Same
<1>4. PICK r \in Results : r = d.result /\ r.status = "FATAL_ERROR" /\ r # NULL
  BY <1>3 DEF Refused, Is, Connections
<1>5. /\ delivered' = Append(delivered, r) /\ pc' = "user"
      /\ c' \in Connections /\ c'.result = NULL /\ c'.next_result = NULL /\ c'.pversion = c.pversion
      /\ ~c'.ok /\ c'.async = "READY"
  BY <1>2, <1>3, <1>4, PreparedFacts DEF FunctionReturns, Refused
<1>6. Troubled(r.stmt) \/ OutOfStep
  <2>1. CASE r = c.result
    BY <1>1, <1>4, <2>1 DEF ErrorInv, Is
  <2>2. CASE r # c.result
    BY <1>1, <1>3, <1>4, <2>2, TroubledHere DEF Refused
  <2> QED BY <2>1, <2>2
<1>7. /\ StreamInv' /\ in' \in Seq(Messages) /\ half' \in BOOLEAN
      /\ Ms' = Ms /\ place' \in Nat /\ place <= place' /\ place' <= Len(Ms)
      /\ in' = <<>> /\ m.at <= place'
  BY <1>1, <1>5, InputMoves DEF Acts
<1>8. SeenInv' /\ RightAnswers' /\ delivered' \in Seq(Results)
  BY <1>4, <1>5, <1>6, <1>7, Handed
<1>9. TypeOK'
  <2>1. Len(Ms) \in Nat
    BY <1>1, MsFacts
  <2> HIDE DEF Ms
  <2> QED BY <1>1, <1>5, <1>7, <1>8, <2>1 DEF TypeOK, Pcs
<1>10. PendingInv'
  BY <1>1, <1>7, PendingMoves
<1> QED BY <1>5, <1>7, <1>8, <1>9, <1>10, ClosedKeeps DEF FunctionPcs

LEMMA FunctionTreatsKeeps ==
  ASSUME IInv, FunctionTreats
  PROVE  IInv'
<1>1. pc = "function" /\ in # <<>> /\ UNCHANGED <<program, sent, script, alive, got, copied>>
  BY DEF FunctionTreats, serverVars
<1>2. PICK m : m = Head(in)
  OBVIOUS
<1>3. /\ TypeOK /\ StreamInv /\ c \in Connections /\ c.pversion \in {2, 3}
      /\ m \in Messages /\ m.stmt \in Nat /\ m.form \in {"ok", "bad", "short", "huge"}
      /\ m.at = 0 <=> m.id \in {"A", "N", "S"}
      /\ m.at = 0 => m.form = "ok" /\ (c.pversion = 2 => m.id # "S")
      /\ m.at # 0 => m.id \in {"V", "E", "Z"}
      /\ c.pversion = 2 => m.form = "ok"
  BY <1>1, <1>2, FunctionFacts, ProgramAnswered DEF IInv, TypeOK
<1>4. PICK o \in FunctionMessage(m) :
        IF o.act \in {"end", "lost"}
          THEN /\ FunctionReturns(o.c, Prepared(o.c)) /\ InputAfter(o.act)
               /\ UNCHANGED <<failures, hurt>>
          ELSE /\ Treated(o, m)
               /\ pc' = IF o.act = "stay" THEN "functionWait" ELSE pc
               /\ UNCHANGED <<delivered, seen>>
  BY <1>2 DEF FunctionTreats
<1>o. /\ c.pversion = 3 => o \in V3!FunctionMessage3(c, m)
      /\ c.pversion = 2 => o \in V2!FunctionMessage2(c, m)
  BY <1>4, HandlerFacts
<1>5. CASE m.form = "huge"
  <2>1. o = V3!handleSyncLoss(c, m) /\ c.pversion = 3
    <3>1. c.pversion = 3
      BY <1>3, <1>5
    <3> QED BY <1>5, <1>o, <3>1 DEF V3!FunctionMessage3
  <2>2. o.act = "lost"
    BY <2>1 DEF V3!handleSyncLoss, V3!Outcome
  <2> QED BY <1>1, <1>2, <1>4, <1>5, <2>1, <2>2, FunctionGivenUpKeeps
<1>6. CASE m.form # "huge" /\ m.id \in {"V", "E"} /\ ~(c.pversion = 3 /\ o \in V3!Starved(c, m))
  <2>1. \/ o = [c |-> [c EXCEPT !.result = NewResult("COMMAND_OK", m.stmt)], act |-> "next", failed |-> FALSE]
           /\ m.id = "V"
        \/ o = [c |-> [pqClearAsyncResult(c) EXCEPT !.result = NewResult("FATAL_ERROR", m.stmt)],
                act |-> "next", failed |-> FALSE]
           /\ m.id = "E"
    BY <1>3, <1>6, <1>o DEF V3!FunctionMessage3, V2!FunctionMessage2, V3!Took, V2!Took,
       V3!Outcome, V2!Outcome, V3!ErrorReceived, V2!ErrorReceived, V3!NewResult, V2!NewResult, NewResult,
       V3!pqClearAsyncResult, V2!pqClearAsyncResult, pqClearAsyncResult
  <2>2. o.act = "next" /\ o.failed = FALSE
    BY <2>1
  <2>3. \/ o.c = [c EXCEPT !.result = NewResult("COMMAND_OK", m.stmt)] /\ m.id = "V"
        \/ o.c = [pqClearAsyncResult(c) EXCEPT !.result = NewResult("FATAL_ERROR", m.stmt)] /\ m.id = "E"
    BY <2>1
  <2>4. c' = o.c /\ InputAfter("next") /\ hurt' = hurt /\ pc' = pc /\ delivered' = delivered
    BY <1>4, <2>2 DEF Treated
  <2> QED BY <1>1, <1>2, <1>6, <2>3, <2>4, FunctionResultKeeps
<1>7. CASE m.form # "huge" /\ m.id = "Z"
  <2>1. o = [c |-> c, act |-> "end", failed |-> FALSE]
    BY <1>3, <1>7, <1>o DEF V3!FunctionMessage3, V2!FunctionMessage2, V3!Outcome, V2!Outcome
  <2>2. o.act = "end" /\ o.c = c
    BY <2>1
  <2> QED BY <1>1, <1>2, <1>4, <1>7, <2>2, FunctionReturnsKeeps
<1>8. ASSUME o.act \in {"next", "stay"}, o.failed \in BOOLEAN, Ignored(o.c, m, o.act)
      PROVE  IInv'
  <2>2. /\ Treated(o, m) /\ pc' \in FunctionPcs /\ delivered' = delivered
    BY <1>1, <1>4, <1>8 DEF FunctionPcs
  <2>3. InputAfter(o.act) /\ c' = o.c /\ hurt' = IF o.failed THEN hurt \union {m.stmt} ELSE hurt
    BY <2>2 DEF Treated
  <2>4. hurt \subseteq hurt' /\ hurt' \in SUBSET Nat /\ (o.failed => m.stmt \in hurt')
    BY <1>3, <1>8, <2>3 DEF TypeOK
  <2>5. Treating(m, o.act, o.failed)
    BY <1>1, <1>2, <1>8, <2>2, <2>3, <2>4 DEF Treating, Kind, Acts, Pcs, FunctionPcs
  <2> QED BY <2>5, TreatingKeeps
<1>9. CASE m.id \in {"A", "N", "S"}
  <2>1. o.act \in {"next", "stay"} /\ o.failed \in BOOLEAN /\ Ignored(o.c, m, o.act)
    <3>1. CASE c.pversion = 3
      <4>1. o \in V3!getNotify(c) \/ o = V3!Took(c)
        BY <1>3, <1>9, <1>o, <3>1 DEF V3!FunctionMessage3
      <4> QED BY <1>1, <1>2, <1>3, <1>9, <4>1, UnaskedKinds3
    <3>2. CASE c.pversion = 2
      <4>1. \/ o = [c |-> [c EXCEPT !.notifies = c.notifies + 1], act |-> "next", failed |-> FALSE]
            \/ o = [c |-> c, act |-> "next", failed |-> FALSE]
            \/ o = [c |-> c, act |-> "next", failed |-> TRUE]
        BY <1>3, <1>9, <1>o, <3>2 DEF V2!FunctionMessage2, V2!getNotify, V2!Took, V2!Outcome,
           V2!Failed, Connections
      <4>2. c.notifies + 1 \in Nat
        BY <1>3 DEF Connections
      <4>3. /\ Same(c) /\ KeepsResult(c) /\ KeepsPlace(c)
            /\ \A k \in Nat : LET d == [c EXCEPT !.notifies = k]
                              IN  Same(d) /\ KeepsResult(d) /\ KeepsPlace(d) /\ d.async = c.async
        BY <1>3, KeepsConnection
      <4>4. Same(o.c) /\ KeepsResult(o.c) /\ KeepsPlace(o.c) /\ o.c.async = c.async
        <5>1. o.c = [c EXCEPT !.notifies = c.notifies + 1] \/ o.c = c
          BY <4>1
        <5> QED BY <4>2, <4>3, <5>1
      <4>5. o.act = "next" /\ o.failed \in BOOLEAN
        <5>1. \E f \in BOOLEAN : \/ o = [c |-> [c EXCEPT !.notifies = c.notifies + 1], act |-> "next", failed |-> f]
                                 \/ o = [c |-> c, act |-> "next", failed |-> f]
          BY <4>1
        <5>2. PICK f \in BOOLEAN : \/ o = [c |-> [c EXCEPT !.notifies = c.notifies + 1], act |-> "next", failed |-> f]
                                   \/ o = [c |-> c, act |-> "next", failed |-> f]
          BY <5>1
        <5>3. o.act = "next" /\ o.failed = f
          BY <5>2
        <5> QED BY <5>3
      <4> QED BY <1>3, <1>9, <4>4, <4>5 DEF Ignored
    <3> QED BY <1>3, <3>1, <3>2
  <2> QED BY <1>8, <2>1
<1>10. CASE c.pversion = 3 /\ o \in V3!Starved(c, m)
  <2>1. o.c = c /\ o.act = "stay" /\ o.failed = FALSE
    BY <1>10 DEF V3!Starved, V3!Stays, V3!Outcome
  <2>2. Ignored(o.c, m, o.act)
    BY <1>3, <2>1, KeepsConnection DEF Ignored
  <2> QED BY <1>8, <2>1, <2>2
<1> QED BY <1>3, <1>5, <1>6, <1>7, <1>9, <1>10

-----------------------------------------------------------------------------
(* The theorems. *)

\* A connection that was opened and asked nothing has nothing to come, no
\* result and no copy.
LEMMA InitKeeps ==
  ASSUME Init
  PROVE  IInv
<1>1. PICK v \in {2, 3} : c = NewConnection(v) /\ program \in Programs[v]
  BY DEF Init
<1>2. /\ c.pversion = v /\ c.async = "IDLE" /\ c.result = NULL /\ c.next_result = NULL
      /\ c.copy_already_done = 0 /\ c.class = "SIMPLE" /\ c.notifies = 0
  BY <1>1 DEF NewConnection
<1>3. c.ok /\ c.ok \in BOOLEAN /\ c.single \in BOOLEAN
  BY <1>1 DEF NewConnection
<1>4. /\ sent = 0 /\ place = 0 /\ in = <<>> /\ script = <<>> /\ pc = "user" /\ delivered = <<>> /\ seen = NULL
      /\ copied = {} /\ hurt = {} /\ half = FALSE /\ alive = TRUE
      /\ got = [i \in DOMAIN program |-> [k \in DOMAIN program[i].messages |-> 0]]
  BY DEF Init
<1>5. Ms = <<>> /\ Stream = <<>>
  BY <1>4 DEF Ms, Stream
<1>6. Answered(v, program)
  BY <1>1, AnswersAssumption
<1>7. c \in Connections
  <2>1. "SIMPLE" \in Classes(3)
    BY DEF Classes
  <2>2. c = [pversion |-> v, async |-> "IDLE", class |-> "SIMPLE", single |-> FALSE, result |-> NULL,
             next_result |-> NULL, ok |-> TRUE, copy_already_done |-> 0, notifies |-> 0]
    BY <1>1 DEF NewConnection
  <2> QED BY <2>1, <2>2 DEF Connections, AsyncStates
<1>8. program \in Seq([class : Classes(v), single : BOOLEAN, messages : Seq(Messages)]) /\ Len(program) \in Nat
  BY <1>6 DEF Answered
<1>9. \A i \in DOMAIN program : got[i] = [k \in DOMAIN program[i].messages |-> 0]
  BY <1>4
<1>10. TypeOK
  <2>1. sent \in 0..Len(program) /\ place \in 0..Len(Ms)
    BY <1>4, <1>5, <1>8
  <2>2. in \in Seq(Messages) /\ script \in Seq(Messages) /\ delivered \in Seq(Results)
    BY <1>4
  <2>3. DOMAIN got = DOMAIN program /\ \A i \in DOMAIN program : got[i] \in [DOMAIN program[i].messages -> Nat]
    BY <1>4, <1>9
  <2>4. c \in Connections /\ program \in Programs[c.pversion]
    BY <1>1, <1>2, <1>7
  <2>5. half \in BOOLEAN /\ alive \in BOOLEAN /\ pc \in Pcs /\ hurt \in SUBSET Nat /\ copied \in SUBSET Nat
    BY <1>4 DEF Pcs
  <2> QED BY <2>1, <2>2, <2>3, <2>4, <2>5 DEF TypeOK
<1>11. StreamInv
  BY <1>4, <1>5 DEF StreamInv, Continues, Complete, Unbroken
<1>12. ~RowWaits /\ Filling = NULL
  BY <1>2 DEF RowWaits, Is, Filling
<1>13. ConnInv
  <2>1. pc \notin FunctionPcs /\ place = Len(Ms)
    BY <1>4, <1>5 DEF FunctionPcs
  <2> QED BY <1>2, <1>3, <1>12, <2>1 DEF ConnInv
<1>14. RowsInv
  BY <1>2, <1>4, <1>5, <1>12 DEF RowsInv, FillInv, NextRowInv, ErrorInv, BareInv, SeenInv, LinesInv, RightAnswers, Is
<1>15. CopyInv
  <2>1. CopyDataWhole
    BY <1>4, <1>9 DEF CopyDataWhole
  <2>2. PendingInv /\ ToldInv
    BY <1>4, <1>9 DEF PendingInv, ToldInv
  <2>3. CopyingInv /\ PieceInv
    BY <1>2 DEF CopyingInv, PieceInv, CopyOutStates
  <2> QED BY <2>1, <2>2, <2>3 DEF CopyInv
<1> QED BY <1>10, <1>11, <1>13, <1>14, <1>15 DEF IInv

\* Each call of the caller, each step of a call and each step of the server
\* keeps the invariant.
LEMMA NextKeeps ==
  ASSUME IInv, [Next]_vars
  PROVE  IInv'
<1>1. CASE InCall
  <2>1. CASE ParseMessage
    BY <2>1, ParseMessageKeeps
  <2>2. CASE ParseEnds
    BY <2>2, ParseEndsKeeps
  <2>3. CASE GetResultWaits \/ GetResultReads \/ GetResultIdle \/ FunctionReads
    BY <2>3, QuietKeeps
  <2>4. CASE GetResultLost
    BY <2>4, GetResultLostKeeps
  <2>5. CASE GetResultReady
    BY <2>5, GetResultReadyKeeps
  <2>6. CASE GetCopyResult
    BY <2>6, GetCopyResultKeeps
  <2>7. CASE FunctionTreats
    BY <2>7, FunctionTreatsKeeps
  <2>8. CASE FunctionLost
    BY <2>8, FunctionLostKeeps
  <2> QED BY <1>1, <2>1, <2>2, <2>3, <2>4, <2>5, <2>6, <2>7, <2>8 DEF InCall
<1>2. CASE Calls
  <2>1. CASE PQsendQuery \/ PQfn
    BY <2>1, QueryKeeps
  <2>2. CASE PQgetResult
    BY <2>2, QuietKeeps
  <2>3. CASE PQputCopyEnd
    BY <2>3, CopyEndKeeps
  <2> QED BY <1>2, <2>1, <2>2, <2>3 DEF Calls
<1>3. CASE CopyCalls
  <2>1. CASE PQgetCopyData \/ PQgetlineAsync
    BY <2>1, CopyDataKeeps
  <2>2. CASE CopyOther
    BY <2>2, CopyOtherKeeps
  <2>3. CASE CopyReads
    BY <2>3, QuietKeeps
  <2>4. CASE CopyLost
    BY <2>4, CopyLostKeeps
  <2> QED BY <1>3, <2>1, <2>2, <2>3, <2>4 DEF CopyCalls
<1>4. CASE PQendcopy
  BY <1>4, CopyEndKeeps
<1>5. CASE Poll \/ ServerInterjects \/ ServerDies \/ UNCHANGED vars
  BY <1>5, QuietKeeps
<1> QED BY <1>1, <1>2, <1>3, <1>4, <1>5 DEF Next

\* The inductive invariant: what is to come continues the answer behind the
\* last message treated, the connection and its result fit that place, and
\* the data of a copy was handed over up to it.
THEOREM ProtocolInductive == Spec => []IInv
<1>1. Init => IInv
  BY InitKeeps
<1>2. IInv /\ [Next]_vars => IInv'
  BY NextKeeps
<1> QED BY <1>1, <1>2, PTL DEF Spec

\* A result that is no error answers its own statement, with all its rows in
\* the order in which they were sent and in single-row mode one by one; an
\* error has a cause in its statement, unless protocol 2.0 lost its place in
\* the input for want of memory (getRowDescriptions, getAnotherTuple and
\* pqRowProcessor under PQgetResult and PQfn).
THEOREM AnswersAreRight == Spec => []RightAnswers
<1>1. IInv => RightAnswers
  BY DEF IInv, RowsInv
<1> QED BY <1>1, ProtocolInductive, PTL

\* PQgetCopyData and PQgetlineAsync hand over what the server sent, in order,
\* with nothing twice or missing, and all of it before the caller is told of
\* the end, whatever the size of the caller's buffer.
THEOREM CopiesAreWhole == Spec => []CopyDataWhole
<1>1. IInv => CopyDataWhole
  BY DEF IInv, CopyInv
<1> QED BY <1>1, ProtocolInductive, PTL

\* The connection, the queries, the results and the record of the copy data
\* keep their shape, for any programs of queries.
THEOREM TypeCorrect == Spec => []TypeOK
<1>1. IInv => TypeOK
  BY DEF IInv
<1> QED BY <1>1, ProtocolInductive, PTL
=============================================================================

-------------------------- MODULE AnsweredOnceProofs --------------------------
(***************************************************************************)
(* Theorem about Protocol: while the connection lives and the parser keeps *)
(* its place, the statements are answered in order and each exactly once.  *)
(* The invariant counts: a statement whose last message was treated was    *)
(* told to the caller or its result waits to be; what is being filled is   *)
(* of the statement under way; and a copy that goes on was begun by it.    *)
(***************************************************************************)
EXTENDS ProtocolProofs

-----------------------------------------------------------------------------
(* The invariant. *)

Class == program[sent].class
Ending(m) == m.stmt # 0 /\ m.id \in CompletingIds(Class)
Done(s) == \E k \in 1..place : Ending(Ms[k]) /\ Ms[k].stmt = s
Told(s) == \E i \in DOMAIN delivered : Closes(delivered[i]) /\ delivered[i].stmt = s

\* The answer to a statement waits to be handed out.
Waiting ==
  (c.async = "READY" \/ pc \in FunctionPcs) /\ c.result # NULL /\ Closes(c.result)

\* Results handed out are of statements that are done, in their order, and the
\* one that waits is of a later statement.
OrderInv ==
  /\ \A i, j \in DOMAIN delivered :
       i < j /\ Closes(delivered[i]) /\ Closes(delivered[j]) => delivered[i].stmt < delivered[j].stmt
  /\ \A i \in DOMAIN delivered :
       Closes(delivered[i]) => Before(delivered[i].stmt) \/ Done(delivered[i].stmt)
  /\ Waiting => /\ Done(c.result.stmt)
                /\ \A i \in DOMAIN delivered : Closes(delivered[i]) => delivered[i].stmt < c.result.stmt

\* Statements that are done were answered, or their results wait.
DoneInv ==
  \A s \in Nat \ {0} :
    /\ Before(s) => Told(s) \/ Swallowed(s)
    /\ Done(s) => Told(s) \/ Swallowed(s) \/ (Waiting /\ c.result.stmt = s)

\* What is filled is of the statement under way.
Open(s) == ~Done(s) /\ \E j \in 1..place : Ms[j].stmt = s /\ Ms[j].id \notin PassiveIds(Class)
OpenInv ==
  Filling # NULL /\ (c.async \notin {"READY", "IDLE"} \/ RowWaits) =>
    /\ Filling.stmt # 0
    /\ IF Class = "DESCRIBE" THEN \E j \in 1..place : Ms[j].stmt = Filling.stmt ELSE Open(Filling.stmt)

\* A copy that goes on was begun by the statement under way, and its start is
\* told once.
CopyStarted == \E h \in 1..place : Ms[h].id \in CopyStarts /\ ~Done(Ms[h].stmt)
CopyResultInv ==
  /\ c.async \in CopyStates \/ (c.async = "BUSY" /\ seen \in CopyStates) => CopyStarted
  /\ c.result # NULL /\ c.result.status \in CopyStates => c.async = c.result.status /\ seen \notin CopyStates

\* The caller that got its NULL is at the end of an answer.
UserInv == seen = NULL /\ pc \in {"user", "poll"} => c.async = "IDLE"

Steady == c.ok /\ ~OutOfStep
OnceInv == Steady => OrderInv /\ DoneInv /\ OpenInv /\ CopyResultInv /\ UserInv

\* A message of a statement: what completes the statement is still to come, or is
\* this one; those before it are of statements up to this one.
LEMMA StatementFacts ==
  ASSUME TypeOK, NEW k \in DOMAIN Ms, Ms[k].stmt # 0
  PROVE  /\ \E l \in k..Len(Ms) : l \in DOMAIN Ms /\ Ms[l].stmt = Ms[k].stmt /\ Ending(Ms[l])
         /\ \A j \in 1..k - 1 :
              /\ j \in DOMAIN Ms /\ Ms[j].stmt <= Ms[k].stmt /\ Ms[j].stmt # 0
              /\ Ending(Ms[j]) => Ms[j].stmt # Ms[k].stmt
              /\ Ms[j].stmt = Ms[k].stmt =>
                   /\ Ms[k].id = "T" => Ms[j].id \in PassiveIds(Class)
                   /\ Ms[j].id \in CopyStarts => Ms[k].id \notin CopyStarts
              /\ Class # "SIMPLE" => Ms[j].stmt = Ms[k].stmt
         /\ Ms[k].form \in {"bad", "short"} => Ms[k].id \in {"T", "t", "D"} \/ Ending(Ms[k])
<1>1. /\ sent > 0 /\ k \in Nat /\ k >= 1 /\ k <= Len(Ms) /\ Len(Ms) \in Nat /\ DOMAIN Ms = 1..Len(Ms)
      /\ Ms[k].stmt \in Nat /\ k # Len(Ms)
  BY AnswerShape
<1>2. Answers(c.pversion, program[sent]) /\ Ms = program[sent].messages
  BY <1>1, MsFacts
<1>3. StatementsComplete(Class, Ms)
  BY <1>2 DEF Answers, Class
<1>4. \A j \in 1..k - 1 : j \in DOMAIN Ms /\ j < k /\ j # Len(Ms)
  <2> HIDE DEF Ms
  <2>1. PICK n \in Nat : n = Len(Ms)
    BY <1>1
  <2>2. DOMAIN Ms = 1..n /\ k <= n /\ k \in Nat
    BY <1>1, <2>1
  <2>3. ASSUME NEW j \in 1..k - 1 PROVE j \in 1..n /\ j < k /\ j # n
    BY <2>2
  <2> QED BY <2>1, <2>2, <2>3
<1>5. \A j \in 1..k - 1 : Ms[j].stmt # 0
  <2> TAKE j \in 1..k - 1
  <2>1. Ms[j].stmt > 0
    BY <1>4, AnswerShape
  <2> QED BY <2>1
<1> HIDE DEF Ms, Class
<1>6. \E l \in k..Len(Ms) : l \in DOMAIN Ms /\ Ms[l].stmt = Ms[k].stmt /\ Ending(Ms[l])
  <2>1. PICK l \in k..Len(Ms) : Ms[l].stmt = Ms[k].stmt /\ Ms[l].id \in CompletingIds(Class)
    BY <1>3 DEF StatementsComplete
  <2>2. l \in DOMAIN Ms
    BY <1>1, <2>1
  <2> QED BY <2>1, <2>2 DEF Ending
<1>7. \A j \in 1..k - 1 :
        /\ Ms[j].stmt <= Ms[k].stmt
        /\ Ending(Ms[j]) => Ms[j].stmt # Ms[k].stmt
        /\ Ms[j].stmt = Ms[k].stmt =>
             /\ Ms[k].id = "T" => Ms[j].id \in PassiveIds(Class)
             /\ Ms[j].id \in CopyStarts => Ms[k].id \notin CopyStarts
        /\ Class # "SIMPLE" => Ms[j].stmt = Ms[k].stmt
  BY <1>3, <1>4 DEF StatementsComplete, Ending
<1>8. Ms[k].form \in {"bad", "short"} => Ms[k].id \in {"T", "t", "D"} \/ Ending(Ms[k])
  BY <1>3 DEF StatementsComplete, Ending
<1> QED BY <1>4, <1>5, <1>6, <1>7, <1>8

\* What comes next belongs to the statement that is not done.
LEMMA OpenIsAt ==
  ASSUME TypeOK, NEW q \in DOMAIN Ms, q > place, \A k \in place + 1..q - 1 : Ms[k].id = "end",
         NEW s \in Nat, s # 0, NEW j \in 1..place, Ms[j].stmt = s, ~Done(s)
  PROVE  Ms[q].stmt = s
<1>1. /\ place \in Nat /\ Len(Ms) \in Nat /\ q \in Nat
      /\ IF q = Len(Ms) THEN Ms[q].stmt = 0 ELSE Ms[q].stmt > 0
      /\ Ms[q].stmt \in Nat
  BY AnswerShape, MsFacts
<1>2. j \in DOMAIN Ms /\ DOMAIN Ms = 1..Len(Ms)
  BY PlacesOf, AnswerShape
<1>3. PICK l \in j..Len(Ms) : l \in DOMAIN Ms /\ Ms[l].stmt = s /\ Ending(Ms[l])
  BY <1>2, StatementFacts
<1>4. ~(l <= place)
  BY <1>1, <1>3 DEF Done
<1>5. ~(l < q)
  <2>1. l < q => l \in place + 1..q - 1
    BY <1>1, <1>3, <1>4
  <2>2. Ending(Ms[l]) => Ms[l].id # "end"
    BY DEF Ending, CompletingIds
  <2> QED BY <1>3, <2>1, <2>2
<1> HIDE DEF Ms
<1>6. CASE l = q
  BY <1>3, <1>6
<1>7. CASE l # q
  <2>1. l \in Nat /\ q \in 1..l - 1 /\ j \in 1..q - 1 /\ l <= Len(Ms)
    BY <1>1, <1>2, <1>3, <1>5, <1>7
  <2>2. Ms[q].stmt <= Ms[l].stmt /\ Ms[q].stmt # 0
    BY <1>3, <2>1, StatementFacts
  <2>3. s <= Ms[q].stmt
    BY <2>1, <2>2, StatementFacts
  <2> QED BY <1>1, <1>3, <2>2, <2>3
<1> QED BY <1>6, <1>7

\* An open statement is that of the message at the head of the input.
LEMMA OpenIsNext ==
  ASSUME IInv, in # <<>>, NEW m, m = Head(in), m.at # 0, NEW s \in Nat, s # 0,
         NEW j \in 1..place, Ms[j].stmt = s, ~Done(s)
  PROVE  m.stmt = s
<1>1. TypeOK /\ StreamInv
  BY DEF IInv
<1>2. /\ m.at \in DOMAIN Ms /\ m = Ms[m.at] /\ m.at > place
      /\ \A k \in place + 1..m.at - 1 : Ms[k].id = "end"
  BY <1>1, HeadKinds, HeadFacts
<1>3. PICK q \in DOMAIN Ms : q = m.at
  BY <1>2
<1> HIDE DEF Ms
<1> QED BY <1>1, <1>2, <1>3, OpenIsAt

\* A statement more is done when its last message was treated.
LEMMA DoneMoves ==
  ASSUME TypeOK, NEW q \in DOMAIN Ms, q > place, \A k \in place + 1..q - 1 : Ms[k].id = "end",
         UNCHANGED <<program, sent>>, place' = q
  PROVE  /\ \A s : Done(s)' <=> Done(s) \/ (Ending(Ms[q]) /\ Ms[q].stmt = s)
         /\ Ending(Ms[q]) => ~Done(Ms[q].stmt) /\ ~Before(Ms[q].stmt)
         /\ Ms[q].stmt # 0 => ~Done(Ms[q].stmt)
<1>1. /\ sent > 0 /\ q \in Nat /\ q >= 1 /\ q <= Len(Ms) /\ Len(Ms) \in Nat /\ DOMAIN Ms = 1..Len(Ms) /\ place \in Nat
  BY AnswerShape, MsFacts
<1>2. Ms' = Ms /\ Class' = Class
  BY DEF Ms, Class
<1>3. \A m : Ending(m)' <=> Ending(m)
  BY <1>2 DEF Ending
<1>4. \A k \in 1..q : k \in 1..place \/ k \in place + 1..q - 1 \/ k = q
  BY <1>1
<1>5. \A k \in 1..place : k \in 1..q /\ k \in 1..q - 1
  BY <1>1
<1>6. \A k : Ms[k].id = "end" => ~Ending(Ms[k])
  BY DEF Ending, CompletingIds
<1>7. Ms[q].stmt # 0 => ~Done(Ms[q].stmt)
  <2>1. Ms[q].stmt # 0 => \A k \in 1..q - 1 : Ending(Ms[k]) => Ms[k].stmt # Ms[q].stmt
    BY StatementFacts
  <2> QED BY <1>5, <2>1 DEF Done
<1>8. Ending(Ms[q]) => ~Before(Ms[q].stmt)
  BY QueryIs DEF Ending
<1> HIDE DEF Ms, Class
<1>9. \A s : Done(s)' <=> \E k \in 1..q : Ending(Ms[k]) /\ Ms[k].stmt = s
  BY <1>2, <1>3 DEF Done
<1>10. \A s : Done(s)' <=> Done(s) \/ (Ending(Ms[q]) /\ Ms[q].stmt = s)
  <2> TAKE s
  <2>1. q \in 1..q
    BY <1>1
  <2> QED BY <1>4, <1>5, <1>6, <1>9, <2>1 DEF Done
<1> QED BY <1>7, <1>8, <1>10 DEF Ending

\* Statements of earlier queries have smaller numbers.
LEMMA BeforeIsLess ==
  ASSUME TypeOK, NEW q \in DOMAIN Ms, Ms[q].stmt # 0, NEW t, Before(t)
  PROVE  t < Ms[q].stmt
<1>1. sent > 0 /\ sent \in DOMAIN program /\ Ms = program[sent].messages /\ sent \in Nat
  BY AnswerShape, MsFacts
<1>2. PICK i \in 1..sent - 1 : \E k \in DOMAIN program[i].messages : program[i].messages[k].stmt = t
  BY DEF Before
<1>3. PICK k \in DOMAIN program[i].messages : program[i].messages[k].stmt = t
  BY <1>2
<1>4. i \in DOMAIN program /\ i < sent
  <2>1. DOMAIN program = 1..Len(program) /\ Len(program) \in Nat
    BY ProgramAnswered DEF Answered
  <2> QED BY <1>1, <2>1
<1>5. q \in DOMAIN program[sent].messages /\ program[sent].messages[q].stmt # 0
  BY <1>1
<1>6. program[i].messages[k].stmt < program[sent].messages[q].stmt
  BY <1>1, <1>3, <1>4, <1>5, ProgramAnswered DEF Answered
<1> QED BY <1>1, <1>3, <1>6

\* What does not depend on where the answer is.
LEMMA OnceFrame ==
  ASSUME UNCHANGED <<program, sent>>, hurt \subseteq hurt', c'.pversion = c.pversion
  PROVE  /\ Ms' = Ms /\ Class' = Class
         /\ \A s : Before(s)' <=> Before(s)
         /\ \A s : Swallowed(s) => Swallowed(s)'
         /\ \A m : Ending(m)' <=> Ending(m)
<1>1. Ms' = Ms /\ Class' = Class /\ \A s : Before(s)' <=> Before(s)
  BY DEF Ms, Class, Before
<1>2. \A s : QueryOf(s)' = QueryOf(s) /\ Answer(s)' = Answer(s)
  BY SameProgram
<1>3. \A s : Swallowed(s) => Swallowed(s)'
  BY <1>2 DEF Swallowed
<1>4. \A m : Ending(m)' <=> Ending(m)
  BY <1>1 DEF Ending
<1> QED BY <1>1, <1>3, <1>4

\* Nothing is done, handed out or made.
LEMMA OnceSame ==
  ASSUME OrderInv, DoneInv, UNCHANGED <<program, sent, delivered>>, hurt \subseteq hurt',
         c'.pversion = c.pversion, \A s : Done(s)' <=> Done(s),
         Waiting' <=> Waiting, Waiting => c'.result.stmt = c.result.stmt
  PROVE  OrderInv' /\ DoneInv'
<1>1. (\A s : Before(s)' <=> Before(s)) /\ (\A s : Swallowed(s) => Swallowed(s)')
  BY OnceFrame
<1>2. \A r : Closes(r)' <=> Closes(r)
  BY DEF Closes
<1>3. \A s : Told(s)' <=> Told(s)
  BY <1>2 DEF Told
<1>4. OrderInv'
  BY <1>1, <1>2 DEF OrderInv
<1>5. DoneInv'
  BY <1>1, <1>3 DEF DoneInv
<1> QED BY <1>4, <1>5

\* A statement is done: its result waits, or it is one that is swallowed.
LEMMA OnceDone ==
  ASSUME TypeOK, OrderInv, DoneInv, UNCHANGED <<program, sent, delivered>>, hurt \subseteq hurt',
         c'.pversion = c.pversion, ~Waiting, NEW q \in DOMAIN Ms, q > place,
         \A k \in place + 1..q - 1 : Ms[k].id = "end", place' = q, Ending(Ms[q]),
         NEW s, s = Ms[q].stmt,
         \/ Waiting' /\ c'.result.stmt = s
         \/ ~Waiting' /\ Swallowed(s)'
  PROVE  OrderInv' /\ DoneInv'
<1>0. s \in Nat /\ s # 0
  BY AnswerShape DEF Ending
<1>1. /\ (\A t : Before(t)' <=> Before(t)) /\ (\A t : Swallowed(t) => Swallowed(t)')
  BY OnceFrame
<1>2. \A r : Closes(r)' <=> Closes(r)
  BY DEF Closes
<1>3. \A t : Told(t)' <=> Told(t)
  BY <1>2 DEF Told
<1>4. /\ \A t : Done(t)' <=> Done(t) \/ t = s
      /\ ~Done(s) /\ ~Before(s)
  BY <1>0, DoneMoves
<1>6. ASSUME NEW i \in DOMAIN delivered, Closes(delivered[i]) PROVE delivered[i].stmt < s
  <2> DEFINE t == delivered[i].stmt
  <2>0. delivered[i] \in Results
    BY DEF TypeOK
  <2>1. t \in Nat /\ t # 0
    BY <1>6, <2>0 DEF Results, Closes
  <2>2. CASE Before(t)
    BY <1>0, <2>1, <2>2, BeforeIsLess
  <2>3. CASE Done(t)
    <3>1. PICK k \in 1..place : Ending(Ms[k]) /\ Ms[k].stmt = t
      BY <2>3 DEF Done
    <3>2. k \in 1..q - 1
      BY AnswerShape, MsFacts
    <3> HIDE DEF Ms
    <3>3. t <= s /\ t # s
      BY <1>0, <3>1, <3>2, StatementFacts
    <3> QED BY <1>0, <2>1, <3>3
  <2> QED BY <1>6, <2>2, <2>3 DEF OrderInv
<1>5. OrderInv'
  <2>1. \A i, j \in DOMAIN delivered :
          i < j /\ Closes(delivered[i]) /\ Closes(delivered[j]) => delivered[i].stmt < delivered[j].stmt
    BY DEF OrderInv
  <2>2. \A i \in DOMAIN delivered :
          Closes(delivered[i]) => Before(delivered[i].stmt) \/ Done(delivered[i].stmt)
    BY DEF OrderInv
  <2> QED BY <1>0, <1>1, <1>2, <1>4, <1>6, <2>1, <2>2 DEF OrderInv
<1>7. DoneInv'
  BY <1>0, <1>1, <1>3, <1>4 DEF DoneInv
<1> QED BY <1>5, <1>7

\* The result that waits is handed out, or one that closes nothing.
LEMMA OnceHanded ==
  ASSUME TypeOK, OrderInv, DoneInv, UNCHANGED <<program, sent>>, hurt \subseteq hurt',
         c'.pversion = c.pversion, \A s : Done(s)' <=> Done(s), NEW r \in Results,
         delivered' = Append(delivered, r), Waiting => r = c.result, Closes(r) => Waiting, ~Waiting'
  PROVE  OrderInv' /\ DoneInv'
<1>1. (\A s : Before(s)' <=> Before(s)) /\ (\A s : Swallowed(s) => Swallowed(s)')
  BY OnceFrame
<1>2. \A x : Closes(x)' <=> Closes(x)
  BY DEF Closes
<1> DEFINE n == Len(delivered)
<1>3. delivered \in Seq(Results) /\ DOMAIN delivered = 1..n /\ n \in Nat
  BY DEF TypeOK
<1>4. /\ DOMAIN delivered' = 1..n + 1 /\ delivered'[n + 1] = r
      /\ \A i \in 1..n : delivered'[i] = delivered[i]
  BY <1>3
<1> HIDE DEF n
<1>5. Closes(r) =>
        Done(r.stmt) /\ \A i \in 1..n : Closes(delivered[i]) => delivered[i].stmt < r.stmt
  BY <1>3 DEF OrderInv
<1>6. OrderInv'
  <2>1. ASSUME NEW i \in 1..n + 1, NEW j \in 1..n + 1, i < j, Closes(delivered'[i]), Closes(delivered'[j])
        PROVE  delivered'[i].stmt < delivered'[j].stmt
    <3>1. i \in 1..n /\ delivered'[i] = delivered[i]
      BY <1>3, <1>4, <2>1
    <3>2. CASE j \in 1..n
      <4>1. delivered'[j] = delivered[j] /\ i \in DOMAIN delivered /\ j \in DOMAIN delivered
        BY <1>3, <1>4, <3>1, <3>2
      <4> QED BY <2>1, <3>1, <4>1 DEF OrderInv
    <3>3. CASE j = n + 1
      BY <1>4, <1>5, <2>1, <3>1, <3>3
    <3> QED BY <1>3, <3>2, <3>3
  <2>2. ASSUME NEW i \in 1..n + 1, Closes(delivered'[i])
        PROVE  (Before(delivered[i].stmt) \/ Done(delivered[i].stmt))'
    <3>1. PICK x : x = delivered'[i]
      OBVIOUS
    <3>2. CASE i \in 1..n
      <4>1. x = delivered[i] /\ i \in DOMAIN delivered
        BY <1>3, <1>4, <3>1, <3>2
      <4>2. Before(x.stmt) \/ Done(x.stmt)
        BY <2>2, <3>1, <4>1 DEF OrderInv
      <4>3. Before(x.stmt)' \/ Done(x.stmt)'
        BY <1>1, <4>2
      <4> QED BY <3>1, <4>3
    <3>3. CASE i = n + 1
      <4>1. x = r
        BY <1>4, <3>1, <3>3
      <4>2. Done(x.stmt)'
        BY <1>5, <2>2, <3>1, <4>1
      <4> QED BY <3>1, <4>2
    <3> QED BY <1>3, <3>2, <3>3
  <2> QED BY <1>2, <1>4, <2>1, <2>2 DEF OrderInv
<1>7. \A s : Told(s) => Told(s)'
  BY <1>2, <1>3, <1>4 DEF Told
<1>8. \A s : Waiting /\ c.result.stmt = s => Told(s)'
  <2>1. n + 1 \in 1..n + 1
    BY <1>3
  <2>2. Waiting => Closes(r)
    BY DEF Waiting
  <2> QED BY <1>2, <1>4, <2>1, <2>2 DEF Told
<1>9. DoneInv'
  BY <1>1, <1>7, <1>8 DEF DoneInv
<1> QED BY <1>6, <1>9

\* What the handlers of an answer's messages do to the result, by the
\* type of the message: what completes its statement makes it ready.
Renews(d, m) ==
  d.result # NULL /\ (d.result.stmt = m.stmt \/ (c.result # NULL /\ d.result.stmt = c.result.stmt))
Proper(d, m, act, failed) ==
  /\ act = "next" /\ d.async = "BUSY" /\ m.id \in CompletingIds(c.class) =>
       c.class = "DESCRIBE" /\ m.id = "T" /\ (IsError(c.result) \/ failed \/ m.form # "ok")
  /\ act = "next" /\ d.async = "READY" => d.result # NULL /\ (m.id \in CompletingIds(c.class) \/ IsRow(m))
  /\ act = "stay" =>
       \/ KeepsResult(d) /\ d.async = c.async /\ (m.id \in CopyStarts \/ m.form = "short")
       \/ m.id = "T" /\ c.result # NULL /\ c.class # "DESCRIBE"
  /\ act = "next" /\ d.result # c.result =>
       /\ Renews(d, m) /\ m.id # "Z"
       /\ m.id \in CompletingIds(c.class) \/ m.id \notin PassiveIds(c.class) \/ c.class = "DESCRIBE"

\* Three shapes of a proper outcome: the message completes its statement,
LEMMA ProperMade ==
  ASSUME NEW d, NEW m, NEW act, NEW failed, act = "next", m.id \in CompletingIds(c.class),
         d.async = "READY", d.result = c.result \/ Renews(d, m), d.result # NULL
  PROVE  Proper(d, m, act, failed)
BY DEF Proper, CompletingIds

\* it goes into the result under way,
LEMMA ProperFilled ==
  ASSUME NEW d, NEW m, NEW act, NEW failed, act = "next", m.id \notin CompletingIds(c.class), m.id # "Z",
         m.id \notin PassiveIds(c.class) \/ c.class = "DESCRIBE",
         d.async # "READY" \/ (d.result # NULL /\ IsRow(m)), d.result = c.result \/ Renews(d, m)
  PROVE  Proper(d, m, act, failed)
BY DEF Proper

\* Which types of messages complete a statement and which make no result.
LEMMA IdFacts ==
  ASSUME NEW class \in {"SIMPLE", "EXTENDED", "PREPARE", "DESCRIBE"}
  PROVE  /\ {"C", "E", "I", "?"} \subseteq CompletingIds(class)
         /\ {"D", "B", "t", "G", "H", "W", "d", "c", "2", "3", "K", "P", "line", ".", "Z", "A", "N", "S"}
              \intersect CompletingIds(class) = {}
         /\ "1" \in CompletingIds(class) <=> class = "PREPARE"
         /\ "T" \in CompletingIds(class) <=> class = "DESCRIBE"
         /\ "n" \in CompletingIds(class) <=> class = "DESCRIBE"
         /\ {"C", "E", "I", "?", "T", "D", "B", "G", "H", "W"} \intersect PassiveIds(class) = {}
         /\ "t" \in PassiveIds(class) <=> class = "DESCRIBE"
BY DEF CompletingIds, PassiveIds

\* or it is CommandComplete and its like, with memory for the result or without.
LEMMA ProperCompletes ==
  ASSUME c \in Connections, NEW m \in Messages, NEW status \in {"COMMAND_OK", "EMPTY_QUERY"},
         m.id \in CompletingIds(c.class),
         NEW o, o \in V3!Completes(c, m, status) \/ o \in V2!Completes(c, m, status)
  PROVE  Proper(o.c, m, o.act, o.failed)
<1>1. o \in IF c.result # NULL THEN {Took([c EXCEPT !.async = "READY"])}
            ELSE {Took([[c EXCEPT !.result = NewResult(status, m.stmt)] EXCEPT !.async = "READY"]),
                  Failed([pqSaveErrorResult(c, m.stmt) EXCEPT !.async = "READY"], "next")}
  BY DEF V2!Completes, V3!Completes, V2!Took, V3!Took, Took, V2!Failed, V3!Failed, Failed,
         V2!Ready, V3!Ready, Outcome, V2!Outcome, V3!Outcome, V2!NewResult, V3!NewResult, NewResult,
         V3!pqSaveErrorResult, V2!pqSaveErrorResult, pqSaveErrorResult,
         V3!pqClearAsyncResult, V2!pqClearAsyncResult, pqClearAsyncResult,
         V3!IsError, V2!IsError, IsError
<1>2. m.stmt \in Nat /\ status \in Statuses /\ "FATAL_ERROR" \in Statuses
  BY DEF Messages, Statuses
<1>3. CASE c.result # NULL
  <2> DEFINE d == [c EXCEPT !.async = "READY"]
  <2>1. o.c = d /\ o.act = "next"
    BY <1>1, <1>3 DEF Took, Outcome
  <2>2. d.async = "READY" /\ d.result = c.result
    BY DEF Connections
  <2> HIDE DEF d
  <2> QED BY <1>3, <2>1, <2>2, ProperMade
<1>4. CASE o = Took([[c EXCEPT !.result = NewResult(status, m.stmt)] EXCEPT !.async = "READY"])
  <2> DEFINE r == NewResult(status, m.stmt)
             d == [[c EXCEPT !.result = r] EXCEPT !.async = "READY"]
  <2>1. o.c = d /\ o.act = "next"
    BY <1>4 DEF Took, Outcome
  <2>2. r # NULL /\ r.stmt = m.stmt
    BY <1>2, ResultTypes DEF NewResult
  <2> HIDE DEF r
  <2>3. d.async = "READY" /\ d.result = r
    BY DEF Connections
  <2> HIDE DEF d
  <2> QED BY <2>1, <2>2, <2>3, ProperMade DEF Renews
<1>5. CASE o = Failed([pqSaveErrorResult(c, m.stmt) EXCEPT !.async = "READY"], "next") /\ c.result = NULL
  <2> DEFINE e == pqSaveErrorResult(c, m.stmt)
             d == [e EXCEPT !.async = "READY"]
  <2>1. o.c = d /\ o.act = "next"
    BY <1>5 DEF Failed
  <2>2. e \in Connections /\ e.result # NULL /\ e.result.stmt = m.stmt
    <3>1. ~IsError(c.result)
      BY <1>5 DEF IsError
    <3>2. e = pqSaveErrorResult(c, m.stmt)
      OBVIOUS
    <3> HIDE DEF e, d
    <3>3. e \in Connections /\ e.result = NewResult("FATAL_ERROR", m.stmt) /\ Is(e.result, "FATAL_ERROR")
      BY <1>2, <3>1, <3>2, SaveError
    <3> QED BY <3>3 DEF NewResult, Is
  <2> HIDE DEF e
  <2>3. d.async = "READY" /\ d.result = e.result
    BY <2>2 DEF Connections
  <2> HIDE DEF d
  <2> QED BY <2>1, <2>2, <2>3, ProperMade DEF Renews
<1> QED BY <1>1, <1>3, <1>4, <1>5

\* An error takes the place of the result, the rest of the answer is to come.
LEMMA ProperRefused ==
  ASSUME TypeOK, c.async = "BUSY", NEW m \in Messages, m.id \in {"T", "t", "D"}, m.id = "t" => c.class = "DESCRIBE",
         NEW o, NEW f, f \/ m.form # "ok", o = [c |-> V3!RowsRefused(c, m), act |-> "next", failed |-> f]
  PROVE  Proper(o.c, m, o.act, o.failed)
<1>1. c \in Connections /\ m.stmt \in Nat
  BY DEF TypeOK, Messages
<1> DEFINE b == [c EXCEPT !.result = NULL, !.next_result = NULL]
           d == V3!pqSaveErrorResult(b, m.stmt)
<1>2. o.c = d /\ o.act = "next" /\ o.failed = f
  BY DEF V3!RowsRefused, V3!pqClearAsyncResult
<1>3. b \in Connections /\ ~IsError(b.result) /\ b.async = "BUSY"
  BY <1>1 DEF Connections, IsError
<1> HIDE DEF b
<1>4. Is(d.result, "FATAL_ERROR") /\ d.result = NewResult("FATAL_ERROR", m.stmt) /\ d.async = "BUSY"
  BY <1>1, <1>3, SaveError
<1> HIDE DEF d
<1>5. Renews(d, m)
  BY <1>4 DEF Is, NewResult, Renews
<1>6. c.class \in {"SIMPLE", "EXTENDED", "PREPARE", "DESCRIBE", "FUNCTION"}
  BY <1>1 DEF Connections, Classes
<1>7. m.id \notin PassiveIds(c.class) \/ c.class = "DESCRIBE"
  BY DEF PassiveIds
<1>8. m.id \in CompletingIds(c.class) => c.class = "DESCRIBE" /\ m.id = "T"
  BY <1>6 DEF CompletingIds
<1> QED BY <1>2, <1>4, <1>5, <1>7, <1>8 DEF Proper

\* A message whose contents are too short is left.
LEMMA ProperStarved ==
  ASSUME NEW m, NEW o \in V3!Starved(c, m)
  PROVE  Proper(o.c, m, o.act, o.failed)
<1>1. o.c = c /\ o.act = "stay" /\ m.form = "short"
  BY DEF V3!Starved, V3!Stays, V3!Outcome
<1> QED BY <1>1 DEF Proper, KeepsResult

\* A row description begins a result, or is refused.
LEMMA ProperDescription ==
  ASSUME TypeOK, c.async = "BUSY", NEW m \in Messages, m.id = "T",
         c.result = NULL \/ (c.class = "DESCRIBE" /\ ~IsError(c.result)),
         NEW o \in V3!getRowDescriptions(c, m)
  PROVE  Proper(o.c, m, o.act, o.failed)
<1>1. c \in Connections /\ m.stmt \in Nat /\ {"COMMAND_OK", "TUPLES_OK"} \subseteq Statuses
  BY DEF TypeOK, Messages, Statuses
<1>2. CASE \/ o = [c |-> V3!RowsRefused(c, m), act |-> "next", failed |-> TRUE]
           \/ m.form # "ok" /\ o = [c |-> V3!RowsRefused(c, m), act |-> "next", failed |-> FALSE]
  BY <1>2, ProperRefused
<1>3. CASE c.class = "DESCRIBE" /\ c.result # NULL /\ o = V3!Took(V3!Ready([c EXCEPT !.result = c.result]))
  <2> DEFINE d == [c EXCEPT !.async = "READY"]
  <2>1. [c EXCEPT !.result = c.result] = c
    BY <1>1 DEF Connections
  <2>2. o.c = d /\ o.act = "next"
    BY <1>3, <2>1 DEF V3!Took, V3!Outcome, V3!Ready
  <2>3. d.async = "READY" /\ d.result = c.result
    BY <1>1 DEF Connections
  <2> HIDE DEF d
  <2>4. m.id \in CompletingIds(c.class)
    BY <1>3 DEF CompletingIds
  <2> QED BY <1>3, <2>2, <2>3, <2>4, ProperMade
<1>4. CASE c.class = "DESCRIBE" /\ c.result = NULL
           /\ o = V3!Took(V3!Ready([c EXCEPT !.result = V3!NewResult("COMMAND_OK", m.stmt)]))
  <2> DEFINE r == NewResult("COMMAND_OK", m.stmt)
             d == [[c EXCEPT !.result = r] EXCEPT !.async = "READY"]
  <2>1. r # NULL /\ r.stmt = m.stmt
    BY <1>1, ResultTypes DEF NewResult
  <2>2. o.c = d /\ o.act = "next"
    BY <1>4 DEF V3!Took, V3!Outcome, V3!Ready, V3!NewResult, NewResult
  <2> HIDE DEF r
  <2>3. d.async = "READY" /\ d.result = r
    BY <1>1 DEF Connections
  <2> HIDE DEF d
  <2>4. m.id \in CompletingIds(c.class)
    BY <1>4 DEF CompletingIds
  <2> QED BY <2>1, <2>2, <2>3, <2>4, ProperMade DEF Renews
<1>5. CASE c.class # "DESCRIBE" /\ o = V3!Took([c EXCEPT !.result = V3!NewResult("TUPLES_OK", m.stmt)])
  <2> DEFINE r == NewResult("TUPLES_OK", m.stmt)
             d == [c EXCEPT !.result = r]
  <2>1. r # NULL /\ r.stmt = m.stmt
    BY <1>1, ResultTypes DEF NewResult
  <2>2. o.c = d /\ o.act = "next"
    BY <1>5 DEF V3!Took, V3!Outcome, V3!NewResult, NewResult
  <2> HIDE DEF r
  <2>3. d.async = "BUSY" /\ d.result = r
    BY <1>1 DEF Connections
  <2> HIDE DEF d
  <2>4. m.id \notin CompletingIds(c.class) /\ m.id \notin PassiveIds(c.class)
    <3>1. c.class \in {"SIMPLE", "EXTENDED", "PREPARE", "FUNCTION"}
      BY <1>1, <1>5 DEF Connections, Classes
    <3> QED BY <3>1 DEF CompletingIds, PassiveIds
  <2> QED BY <2>1, <2>2, <2>3, <2>4, ProperFilled DEF Renews
<1> QED BY <1>2, <1>3, <1>4, <1>5 DEF V3!getRowDescriptions, V3!Failed, V3!Took, V3!Outcome

\* A row of a result.
LEMMA ProperRow ==
  ASSUME TypeOK, c.async = "BUSY", NEW m \in Messages, IsRow(m), Is(c.result, "TUPLES_OK"), c.class # "FUNCTION",
         NEW o, o = V2!Took(V2!pqRowProcessor(c, m.n)) \/ o = V3!Took(V3!pqRowProcessor(c, m.n))
  PROVE  Proper(o.c, m, o.act, o.failed)
<1>1. c \in Connections /\ c.single \in BOOLEAN
  BY DEF TypeOK, Connections
<1>2. c.result \in Results /\ c.result # NULL
  BY <1>1 DEF Connections, Is
<1> DEFINE d == IF c.single
                  THEN [c EXCEPT !.result = [@ EXCEPT !.status = "SINGLE_TUPLE", !.rows = <<m.n>>],
                                 !.next_result = c.result, !.async = "READY"]
                  ELSE [c EXCEPT !.result.rows = Append(@, m.n)]
<1>3. o.c = d /\ o.act = "next"
  BY DEF V2!Took, V3!Took, V2!Outcome, V3!Outcome, V2!pqRowProcessor, V3!pqRowProcessor
<1>4. d.result # NULL /\ d.result.stmt = c.result.stmt
  <2>1. CASE c.single
    <3>1. PICK r : r = [c.result EXCEPT !.status = "SINGLE_TUPLE", !.rows = <<m.n>>]
      OBVIOUS
    <3>2. r.stmt = c.result.stmt /\ r.status = "SINGLE_TUPLE" /\ r \in Results
      <4>1. <<m.n>> \in Seq(Nat) /\ "SINGLE_TUPLE" \in Statuses
        BY DEF Statuses, Messages
      <4> QED BY <1>2, <3>1, <4>1 DEF Results
    <3>3. d.result = r
      BY <1>1, <2>1, <3>1 DEF Connections
    <3> HIDE DEF d
    <3> QED BY <3>2, <3>3, ResultTypes
  <2>2. CASE ~c.single
    <3>1. PICK r : r = [c.result EXCEPT !.rows = Append(@, m.n)]
      OBVIOUS
    <3>2. r.stmt = c.result.stmt /\ r \in Results
      <4>1. c.result.rows \in Seq(Nat) /\ m.n \in Nat
        BY <1>2, ResultTypes DEF Messages
      <4>2. Append(c.result.rows, m.n) \in Seq(Nat)
        BY <4>1
      <4> QED BY <1>2, <3>1, <4>2 DEF Results
    <3>3. d.result = r
      BY <1>1, <2>2, <3>1 DEF Connections
    <3> HIDE DEF d
    <3> QED BY <3>2, <3>3, ResultTypes
  <2> QED BY <2>1, <2>2
<1> HIDE DEF d
<1>5. m.id \notin CompletingIds(c.class) /\ m.id \notin PassiveIds(c.class) /\ m.id # "Z"
  <2>1. c.class \in {"SIMPLE", "EXTENDED", "PREPARE", "DESCRIBE"}
    BY <1>1 DEF Connections, Classes
  <2> QED BY <2>1 DEF CompletingIds, PassiveIds, IsRow
<1> QED BY <1>2, <1>3, <1>4, <1>5, ProperFilled DEF Renews

\* Each message of an answer in protocol 3.0 has a proper outcome,
LEMMA ProperBusy3 ==
  ASSUME IInv, c.pversion = 3, in # <<>>, NEW m, m = Head(in), m.at # 0, c.async = "BUSY",
         NEW o \in V3!Busy3(c, m)
  PROVE  Proper(o.c, m, o.act, o.failed)
<1>0. TypeOK /\ StreamInv /\ ConnInv /\ NextRowInv
  BY DEF IInv, RowsInv
<1>1. c \in Connections /\ m.stmt \in Nat /\ m \in Messages /\ m.id \notin {"end", "S", "A", "N"}
  BY <1>0, HeadKinds DEF TypeOK
<1>2. /\ c.ok /\ (m.id = "Z" \/ m.id \in KnownIds(3))
      /\ c.class # "FUNCTION" /\ c.class \in Classes(3)
      /\ Filling = c.result
  BY <1>0, BusyKinds, BusyResult
<1>3. c.class \in {"SIMPLE", "EXTENDED", "PREPARE", "DESCRIBE"}
  BY <1>2 DEF Classes
<1>i. /\ {"C", "E", "I", "?"} \subseteq CompletingIds(c.class)
      /\ {"D", "B", "t", "G", "H", "W", "d", "c", "2", "3", "K", "P", "line", ".", "Z", "A", "N", "S"}
           \intersect CompletingIds(c.class) = {}
      /\ "1" \in CompletingIds(c.class) <=> c.class = "PREPARE"
      /\ "T" \in CompletingIds(c.class) <=> c.class = "DESCRIBE"
      /\ "n" \in CompletingIds(c.class) <=> c.class = "DESCRIBE"
      /\ {"C", "E", "I", "?", "T", "D", "B", "G", "H", "W"} \intersect PassiveIds(c.class) = {}
      /\ "t" \in PassiveIds(c.class) <=> c.class = "DESCRIBE"
  BY <1>3, IdFacts
<1>5. ASSUME o = V3!Took(c), m.id \notin CompletingIds(c.class) PROVE Proper(o.c, m, o.act, o.failed)
  <2>1. o.c = c /\ o.act = "next"
    BY <1>5 DEF V3!Took, V3!Outcome
  <2> QED BY <1>5, <2>1 DEF Proper
<1>7. CASE m.id = "C" \/ m.id = "I" \/ (m.id = "1" /\ c.class = "PREPARE") \/ (m.id = "n" /\ c.class = "DESCRIBE")
  <2>1. PICK status \in {"COMMAND_OK", "EMPTY_QUERY"} : o \in V3!Completes(c, m, status)
    BY <1>7 DEF V3!Busy3
  <2>2. m.id \in CompletingIds(c.class)
    BY <1>7, <1>i
  <2> QED BY <1>1, <2>1, <2>2, ProperCompletes
<1>8. CASE m.id \in {"2", "3", "K", "d", "c"} \/ (m.id = "1" /\ c.class # "PREPARE")
           \/ (m.id = "n" /\ c.class # "DESCRIBE")
  <2>1. o = V3!Took(c)
    BY <1>8 DEF V3!Busy3
  <2>2. m.id \notin CompletingIds(c.class)
    BY <1>8, <1>i
  <2> QED BY <1>5, <2>1, <2>2
<1>9. CASE m.id = "E"
  <2> DEFINE r == NewResult("FATAL_ERROR", m.stmt)
             d == [[[c EXCEPT !.result = NULL, !.next_result = NULL] EXCEPT !.result = r] EXCEPT !.async = "READY"]
  <2>1. o = V3!Took(V3!Ready(V3!ErrorReceived(c, m)))
    BY <1>9 DEF V3!Busy3
  <2>2. o.c = d /\ o.act = "next"
    BY <2>1 DEF V3!Took, V3!Outcome, V3!Ready, V3!ErrorReceived, V3!pqClearAsyncResult, V3!NewResult, NewResult
  <2>3. r # NULL /\ r.stmt = m.stmt
    <3>1. "FATAL_ERROR" \in Statuses
      BY DEF Statuses
    <3> QED BY <1>1, <3>1, ResultTypes DEF NewResult
  <2> HIDE DEF r
  <2>4. d.async = "READY" /\ d.result = r
    BY <1>1 DEF Connections
  <2> HIDE DEF d
  <2> QED BY <1>9, <1>i, <2>2, <2>3, <2>4, ProperMade DEF Renews
<1>10. CASE m.id = "Z"
  <2> DEFINE d == [c EXCEPT !.async = "IDLE"]
  <2>1. o = [c |-> d, act |-> "next", failed |-> FALSE]
    BY <1>10 DEF V3!Busy3, V3!Took, V3!Outcome
  <2>2. d.result = c.result /\ d.async = "IDLE"
    BY <1>1 DEF Connections
  <2> HIDE DEF d
  <2> QED BY <2>1, <2>2 DEF Proper
<1>11. CASE m.id \in {"T", "D"} /\ IsError(c.result)
  <2>1. V3!IsError(c.result) <=> IsError(c.result)
    BY DEF V3!IsError, IsError
  <2>2. o = V3!Took(c)
    <3>1. c.result # NULL /\ c.result.status = "FATAL_ERROR"
      BY <1>11 DEF IsError
    <3> QED BY <1>11, <2>1, <3>1 DEF V3!Busy3
  <2>3. o = [c |-> c, act |-> "next", failed |-> FALSE]
    BY <2>2 DEF V3!Took, V3!Outcome
  <2> QED BY <1>11, <1>i, <2>3 DEF Proper
<1>12. CASE m.id = "T" /\ ~IsError(c.result) /\ (c.result = NULL \/ c.class = "DESCRIBE")
  <2>1. o \in V3!getRowDescriptions(c, m)
    BY <1>12 DEF V3!Busy3, V3!IsError, IsError
  <2> QED BY <1>0, <1>1, <1>12, <2>1, ProperDescription
<1>13. CASE m.id = "T" /\ ~IsError(c.result) /\ c.result # NULL /\ c.class # "DESCRIBE"
  <2>1. o.act = "stay"
    BY <1>13 DEF V3!Busy3, V3!IsError, IsError, V3!Stays, V3!Outcome, V3!Ready
  <2> QED BY <1>13, <2>1 DEF Proper
<1>14. CASE m.id = "t"
  <2>1. o \in V3!getParamDescriptions(c, m)
    BY <1>14 DEF V3!Busy3
  <2>2. CASE \E f : (f \/ m.form # "ok") /\ o = [c |-> V3!RowsRefused(c, m), act |-> "next", failed |-> f]
    <3>1. PICK f : (f \/ m.form # "ok") /\ o = [c |-> V3!RowsRefused(c, m), act |-> "next", failed |-> f]
      BY <2>2
    <3> DEFINE b == [c EXCEPT !.result = NULL, !.next_result = NULL]
               d == V3!pqSaveErrorResult(b, m.stmt)
    <3>2. o.c = d /\ o.act = "next"
      BY <3>1 DEF V3!RowsRefused, V3!pqClearAsyncResult
    <3>3. b \in Connections /\ ~IsError(b.result) /\ b.async = "BUSY"
      BY <1>1 DEF Connections, IsError
    <3> HIDE DEF b
    <3>4. Is(d.result, "FATAL_ERROR") /\ d.result = NewResult("FATAL_ERROR", m.stmt) /\ d.async = "BUSY"
      BY <1>1, <3>3, SaveError
    <3> HIDE DEF d
    <3>5. d.result # NULL /\ d.result.stmt = m.stmt
      BY <3>4 DEF Is, NewResult
    <3> QED BY <1>14, <1>i, <3>2, <3>4, <3>5, ProperFilled DEF Renews
  <2>3. CASE o = V3!Took([c EXCEPT !.result = V3!NewResult("COMMAND_OK", m.stmt)])
    <3> DEFINE r == NewResult("COMMAND_OK", m.stmt)
               d == [c EXCEPT !.result = r]
    <3>1. r # NULL /\ r.stmt = m.stmt
      <4>1. "COMMAND_OK" \in Statuses
        BY DEF Statuses
      <4> QED BY <1>1, <4>1, ResultTypes DEF NewResult
    <3>2. o.c = d /\ o.act = "next"
      BY <2>3 DEF V3!Took, V3!Outcome, V3!NewResult, NewResult
    <3> HIDE DEF r
    <3>3. d.async = "BUSY" /\ d.result = r
      BY <1>1 DEF Connections
    <3> HIDE DEF d
    <3> QED BY <1>14, <1>i, <3>1, <3>2, <3>3, ProperFilled DEF Renews
  <2>4. CASE o \in V3!Starved(c, m)
    BY <2>4, ProperStarved
  <2> QED BY <2>1, <2>2, <2>3, <2>4 DEF V3!getParamDescriptions, V3!Failed, V3!Took, V3!Outcome
<1>15. CASE m.id = "D" /\ ~IsError(c.result)
  <2>1. IsRow(m)
    BY <1>15 DEF IsRow
  <2>2. place < Len(Ms) /\ IsRow(Ms[place + 1])
    BY <1>0, <2>1, HeadRow
  <2>3. Is(c.result, "TUPLES_OK")
    BY <1>0, <1>2, <1>15, <2>2 DEF NextRowInv, OutOfStep, IsError, Is
  <2>4. c.result # NULL /\ c.result.status = "TUPLES_OK" /\ ~V3!IsError(c.result)
    BY <2>3 DEF Is, V3!IsError
  <2>5. o \in V3!getAnotherTuple(c, m)
    BY <1>15, <2>4 DEF V3!Busy3
  <2>6. CASE o = V3!Took(V3!pqRowProcessor(c, m.n))
    BY <1>0, <1>1, <1>2, <2>1, <2>3, <2>6, ProperRow
  <2>7. CASE \/ o = [c |-> V3!RowsRefused(c, m), act |-> "next", failed |-> TRUE]
             \/ m.form # "ok" /\ o = [c |-> V3!RowsRefused(c, m), act |-> "next", failed |-> FALSE]
    BY <1>0, <1>1, <1>15, <2>7, ProperRefused
  <2> QED BY <2>5, <2>6, <2>7 DEF V3!getAnotherTuple, V3!Failed, V3!Took, V3!Outcome
<1>16. CASE m.id \in {"G", "H", "W"}
  <2>1. PICK status \in CopyStates : o \in V3!getCopyStart(c, m, status)
    BY <1>16 DEF V3!Busy3, CopyStates
  <2> DEFINE r == NewResult(status, m.stmt)
             d == [c EXCEPT !.result = r, !.async = status,
                            !.copy_already_done = IF status = "COPY_IN" THEN @ ELSE 0]
  <2>2. o = [c |-> d, act |-> "next", failed |-> FALSE] \/ o = [c |-> c, act |-> "stay", failed |-> TRUE]
    BY <2>1 DEF V3!getCopyStart, V3!Took, V3!Outcome, V3!Failed, V3!NewResult, NewResult
  <2>3. CASE o = [c |-> d, act |-> "next", failed |-> FALSE]
    <3>1. r # NULL /\ r.stmt = m.stmt
      <4>1. status \in Statuses
        BY DEF Statuses, CopyStates
      <4> QED BY <1>1, <4>1, ResultTypes DEF NewResult
    <3>2. o.c = d /\ o.act = "next"
      BY <2>3
    <3> HIDE DEF r
    <3>3. d.async = status /\ d.result = r
      BY <1>1 DEF Connections
    <3> HIDE DEF d
    <3>4. status # "READY"
      BY DEF CopyStates
    <3> QED BY <1>16, <1>i, <3>1, <3>2, <3>3, <3>4, ProperFilled DEF Renews
  <2>4. CASE o = [c |-> c, act |-> "stay", failed |-> TRUE]
    <3>1. o.c = c /\ o.act = "stay"
      BY <2>4
    <3> QED BY <1>16, <3>1 DEF Proper, KeepsResult, CopyStarts
  <2> QED BY <2>2, <2>3, <2>4
<1>17. CASE m.id = "?"
  <2> DEFINE e == V3!pqSaveErrorResult(c, m.stmt)
             d == [e EXCEPT !.async = "READY"]
  <2>1. o.c = d /\ o.act = "next"
    BY <1>17 DEF V3!Busy3, V3!Took, V3!Outcome, V3!Ready
  <2>2. e \in Connections /\ e.result # NULL /\ (e.result = c.result \/ e.result.stmt = m.stmt)
    <3>1. e = V3!pqSaveErrorResult(c, m.stmt)
      OBVIOUS
    <3> HIDE DEF d, e
    <3>2. /\ e \in Connections /\ Is(e.result, "FATAL_ERROR")
          /\ IF IsError(c.result) THEN e = c ELSE e.result = NewResult("FATAL_ERROR", m.stmt)
      BY <1>1, <3>1, SaveError
    <3> QED BY <3>2 DEF NewResult, Is
  <2> HIDE DEF e
  <2>3. d.async = "READY" /\ d.result = e.result
    BY <2>2 DEF Connections
  <2> HIDE DEF d
  <2> QED BY <1>17, <1>i, <2>1, <2>2, <2>3, ProperMade DEF Renews
<1>18. m.id \in {"Z", "C", "E", "I", "K", "1", "2", "3", "n", "t", "T", "D", "G", "H", "W", "d", "c", "?"}
  BY <1>1, <1>2 DEF KnownIds
<1> QED BY <1>7, <1>8, <1>9, <1>10, <1>11, <1>12, <1>13, <1>14, <1>15, <1>16, <1>17, <1>18

\* Every kind of outcome leaves a connection.
LEMMA KindConnection ==
  ASSUME NEW d, NEW m, NEW act, NEW failed, Kind(d, m, act, failed)
  PROVE  d \in Connections
BY DEF Kind, Ignored, Finished, Refused, Made, Described, RowAdded, CopyBegun, AnswerEnds, Same

\* Outcomes are records.
LEMMA OutcomesAre ==
  ASSUME NEW m, NEW o \in V3!Busy3(c, m)
  PROVE  \E d, act, f : o = [c |-> d, act |-> act, failed |-> f]
<1> DEFINE R(x) == \E d, act, f : x = [c |-> d, act |-> act, failed |-> f]
<1>1. \A d : R(V3!Took(d)) /\ R(V3!Stays(d)) /\ \A act : R(V3!Failed(d, act))
  BY DEF V3!Took, V3!Stays, V3!Failed, V3!Outcome
<1>2. \A status : \A x \in V3!Completes(c, m, status) : R(x)
  <2> HIDE DEF R
  <2> QED BY <1>1 DEF V3!Completes
<1>3. \A x \in V3!getRowDescriptions(c, m) : R(x)
  <2> HIDE DEF R
  <2> QED BY <1>1 DEF V3!getRowDescriptions
<1>4. \A x \in V3!getParamDescriptions(c, m) : R(x)
  <2> HIDE DEF R
  <2> QED BY <1>1 DEF V3!getParamDescriptions, V3!Starved
<1>5. \A x \in V3!getAnotherTuple(c, m) : R(x)
  <2> HIDE DEF R
  <2> QED BY <1>1 DEF V3!getAnotherTuple
<1>6. \A status : \A x \in V3!getCopyStart(c, m, status) : R(x)
  <2> HIDE DEF R
  <2> QED BY <1>1 DEF V3!getCopyStart
<1>7. \A x \in V3!Busy3(c, m) : R(x)
  <2> HIDE DEF R
  <2> QED BY <1>1, <1>2, <1>3, <1>4, <1>5, <1>6 DEF V3!Busy3
<1> QED BY <1>7

\* Few messages are left behind by their handlers.
LEMMA BusyLeaves ==
  ASSUME NEW m, NEW o \in V3!Busy3(c, m), o.act = "stay"
  PROVE  m.id \in {"T", "t", "G", "H", "W"}
<1>1. \A d : V3!Took(d).act = "next" /\ V3!Failed(d, "next").act = "next"
  BY DEF V3!Took, V3!Failed, V3!Outcome
<1>2. \A status : \A x \in V3!Completes(c, m, status) : x.act = "next"
  BY <1>1 DEF V3!Completes
<1>3. \A x \in V3!getAnotherTuple(c, m) : x.act = "next"
  BY <1>1 DEF V3!getAnotherTuple
<1> QED BY <1>1, <1>2, <1>3 DEF V3!Busy3

\* with the check of its length,
LEMMA ProperParse3 ==
  ASSUME IInv, c.pversion = 3, in # <<>>, NEW m, m = Head(in), m.at # 0, m.form # "huge", c.async = "BUSY",
         NEW o \in V3!pqParseInput3(c, m)
  PROVE  Proper(o.c, m, o.act, o.failed)
<1>0. TypeOK /\ StreamInv /\ ConnInv
  BY DEF IInv
<1>1. m.id \notin {"A", "N"} /\ m.stmt \in Nat /\ m.at \in DOMAIN Ms /\ m = Ms[m.at] /\ c.ok /\ c \in Connections
  BY <1>0, HeadKinds, BusyKinds DEF TypeOK
<1>2. o \in V3!Checked(c, m, V3!Busy3(c, m))
  BY <1>1 DEF V3!pqParseInput3
<1>3. CASE m.form # "ok" /\ m.id \notin {"T", "t", "D"} /\ o \notin V3!Starved(c, m)
  <2>1. PICK p \in V3!Busy3(c, m) : o = [p EXCEPT !.c = V3!Disagrees(p.c, m)]
    BY <1>2, <1>3 DEF V3!Checked
  <2>2. p.act \in {"next", "stay"} /\ p.failed \in BOOLEAN /\ ParseKind(p, m)
    BY <1>1, BusyKinds3
  <2>3. Proper(p.c, m, p.act, p.failed)
    BY ProperBusy3
  <2>4. \E d, act, f : p = [c |-> d, act |-> act, failed |-> f]
    <3>1. \A x \in V3!Busy3(c, m) : \E d, act, f : x = [c |-> d, act |-> act, failed |-> f]
      BY OutcomesAre
    <3> QED BY <3>1
  <2>5. o.c = V3!Disagrees(p.c, m) /\ o.act = p.act /\ o.failed = p.failed
    BY <2>1, <2>4
  <2>6. m.id \in CompletingIds(c.class)
    <3>1. m.stmt # 0
      BY <1>0, <1>3, HeadKinds
    <3>2. Ending(m)
      <4>1. m.form \in {"bad", "short"}
        BY <1>0, <1>3, HeadKinds
      <4> QED BY <1>0, <1>1, <1>3, <3>1, <4>1, StatementFacts
    <3>3. Class = c.class
      BY <1>0, BusyKinds DEF Class
    <3> QED BY <3>2, <3>3 DEF Ending
  <2>7. p.act = "next"
    <3>1. c.class \in Classes(3) /\ c.class # "FUNCTION"
      BY <1>0, BusyKinds
    <3>2. {"G", "H", "W"} \intersect CompletingIds(c.class) = {}
      BY <3>1, IdFacts DEF Classes
    <3>3. p.act = "stay" => m.id \in {"T", "t", "G", "H", "W"}
      BY BusyLeaves
    <3> QED BY <1>3, <2>2, <2>6, <3>2, <3>3
  <2>8. p.c.result # c.result => Renews(p.c, m)
    BY <2>3, <2>7 DEF Proper
  <2> DEFINE b == p.c
             e == V3!pqSaveErrorResult(b, m.stmt)
             d == [e EXCEPT !.async = "READY"]
  <2>9. o.c = d
    BY <2>5 DEF V3!Disagrees, V3!Ready
  <2>10. b \in Connections
    BY <2>2, KindConnection DEF ParseKind
  <2>11. b.result # c.result => Renews(b, m)
    BY <2>8
  <2> HIDE DEF b
  <2>12. e \in Connections /\ e.result # NULL /\ (e.result = c.result \/ Renews(e, m))
    <3>0. e = V3!pqSaveErrorResult(b, m.stmt)
      OBVIOUS
    <3> HIDE DEF d, e
    <3>1. /\ e \in Connections /\ Is(e.result, "FATAL_ERROR")
          /\ IF IsError(b.result) THEN e = b ELSE e.result = NewResult("FATAL_ERROR", m.stmt)
      BY <1>1, <2>10, <3>0, SaveError
    <3> QED BY <2>11, <3>1 DEF NewResult, Is, Renews
  <2> HIDE DEF e
  <2>13. d.async = "READY" /\ d.result = e.result
    BY <2>12 DEF Connections
  <2> HIDE DEF d
  <2> QED BY <2>5, <2>6, <2>7, <2>9, <2>12, <2>13, ProperMade DEF Renews
<1>4. CASE ~(m.form # "ok" /\ m.id \notin {"T", "t", "D"})
  <2>1. o \in V3!Busy3(c, m)
    BY <1>2, <1>4 DEF V3!Checked
  <2> QED BY <2>1, ProperBusy3
<1>5. CASE o \in V3!Starved(c, m)
  BY <1>5, ProperStarved
<1> QED BY <1>3, <1>4, <1>5

\* and each in protocol 2.0.
LEMMA ProperBusy2 ==
  ASSUME IInv, c.pversion = 2, in # <<>>, NEW m, m = Head(in), m.at # 0, c.async = "BUSY",
         NEW o \in V2!Busy2(c, m)
  PROVE  Proper(o.c, m, o.act, o.failed)
<1>0. TypeOK /\ StreamInv /\ ConnInv
  BY DEF IInv
<1>1. c \in Connections /\ m.stmt \in Nat /\ m \in Messages /\ m.id \notin {"end", "S", "A", "N"}
  BY <1>0, HeadKinds DEF TypeOK
<1>2. /\ (m.id = "Z" \/ m.id \in KnownIds(2)) /\ c.class \in Classes(2) /\ c.class # "FUNCTION"
      /\ (c.result = NULL \/ Is(c.result, "TUPLES_OK"))
  <2>1. c.result = NULL \/ Is(c.result, "TUPLES_OK")
    BY <1>0 DEF ConnInv
  <2> QED BY <1>0, <2>1, BusyKinds
<1>3. c.class = "SIMPLE"
  BY <1>2 DEF Classes
<1>i. /\ {"C", "E", "I", "?"} \subseteq CompletingIds(c.class)
      /\ {"K", "P", "G", "H", "line", ".", "Z", "T", "D", "B"} \intersect CompletingIds(c.class) = {}
      /\ {"G", "H", "T", "D", "B"} \intersect PassiveIds(c.class) = {}
  BY <1>3 DEF CompletingIds, PassiveIds
<1>4. CASE m.id \in {"C", "I"}
  <2>1. PICK status \in {"COMMAND_OK", "EMPTY_QUERY"} : o \in V2!Completes(c, m, status)
    BY <1>4 DEF V2!Busy2
  <2>2. m.id \in CompletingIds(c.class)
    BY <1>4, <1>i
  <2> QED BY <1>1, <2>1, <2>2, ProperCompletes
<1>5. CASE m.id = "E"
  <2> DEFINE r == NewResult("FATAL_ERROR", m.stmt)
             d == [[[c EXCEPT !.result = NULL, !.next_result = NULL] EXCEPT !.result = r] EXCEPT !.async = "READY"]
  <2>1. o = V2!Took(V2!Ready(V2!ErrorReceived(c, m)))
    BY <1>5 DEF V2!Busy2
  <2>2. o.c = d /\ o.act = "next"
    BY <2>1 DEF V2!Took, V2!Outcome, V2!Ready, V2!ErrorReceived, V2!pqClearAsyncResult, V2!NewResult, NewResult
  <2>3. r # NULL /\ r.stmt = m.stmt
    <3>1. "FATAL_ERROR" \in Statuses
      BY DEF Statuses
    <3> QED BY <1>1, <3>1, ResultTypes DEF NewResult
  <2> HIDE DEF r
  <2>4. d.async = "READY" /\ d.result = r
    BY <1>1 DEF Connections
  <2> HIDE DEF d
  <2> QED BY <1>5, <1>i, <2>2, <2>3, <2>4, ProperMade DEF Renews
<1>6. CASE m.id \in {"Z", "K", "P"}
  <2>1. o.act = "next" /\ o.c.result = c.result /\ o.c.async # "READY"
    <3>1. o = V2!Took(c) \/ o = V2!Took([c EXCEPT !.async = "IDLE"])
      BY <1>6 DEF V2!Busy2
    <3> QED BY <1>1, <3>1 DEF V2!Took, V2!Outcome, Connections
  <2> QED BY <1>6, <1>i, <2>1 DEF Proper
<1>7. CASE m.id = "T" /\ c.result = NULL
  <2>1. o = V2!Took([c EXCEPT !.result = V2!NewResult("TUPLES_OK", m.stmt)]) \/ o = V2!RowsLost(c, m)
    BY <1>7 DEF V2!Busy2, V2!getRowDescriptions
  <2>2. CASE o = V2!RowsLost(c, m)
    <3>1. o.act = "drop"
      BY <2>2 DEF V2!RowsLost, V2!Failed
    <3> QED BY <3>1 DEF Proper
  <2>3. CASE o = V2!Took([c EXCEPT !.result = V2!NewResult("TUPLES_OK", m.stmt)])
    <3> DEFINE r == NewResult("TUPLES_OK", m.stmt)
               d == [c EXCEPT !.result = r]
    <3>1. r # NULL /\ r.stmt = m.stmt
      <4>1. "TUPLES_OK" \in Statuses
        BY DEF Statuses
      <4> QED BY <1>1, <4>1, ResultTypes DEF NewResult
    <3>2. o.c = d /\ o.act = "next"
      BY <2>3 DEF V2!Took, V2!Outcome, V2!NewResult, NewResult
    <3> HIDE DEF r
    <3>3. d.async = "BUSY" /\ d.result = r
      BY <1>1 DEF Connections
    <3> HIDE DEF d
    <3> QED BY <1>7, <1>i, <3>1, <3>2, <3>3, ProperFilled DEF Renews
  <2> QED BY <2>1, <2>2, <2>3
<1>8. CASE m.id = "T" /\ c.result # NULL
  <2>1. o.act = "stay"
    BY <1>8 DEF V2!Busy2, V2!Stays, V2!Outcome
  <2>2. c.class # "DESCRIBE"
    BY <1>3
  <2> QED BY <1>8, <2>1, <2>2 DEF Proper
<1>9. CASE m.id \in {"D", "B"} /\ c.result # NULL
  <2>1. o = V2!Took(V2!pqRowProcessor(c, m.n)) \/ o = V2!RowsLost(c, m)
    BY <1>9 DEF V2!Busy2, V2!getAnotherTuple
  <2>2. CASE o = V2!RowsLost(c, m)
    <3>1. o.act = "drop"
      BY <2>2 DEF V2!RowsLost, V2!Failed
    <3> QED BY <3>1 DEF Proper
  <2>3. IsRow(m) /\ Is(c.result, "TUPLES_OK")
    BY <1>2, <1>9 DEF IsRow
  <2> QED BY <1>0, <1>1, <1>2, <2>1, <2>2, <2>3, ProperRow
<1>10. CASE (m.id \in {"D", "B"} /\ c.result = NULL) \/ m.id \in {"line", "."}
  <2>1. o.act = "drop"
    BY <1>10 DEF V2!Busy2, V2!Outcome
  <2> QED BY <2>1 DEF Proper
<1>11. CASE m.id \in {"G", "H"}
  <2>1. o.act = "next" /\ o.c.result = c.result /\ o.c.async \in CopyStates
    <3>1. o = V2!Took([c EXCEPT !.async = "COPY_IN"]) \/ o = V2!Took([c EXCEPT !.async = "COPY_OUT"])
      BY <1>11 DEF V2!Busy2
    <3> QED BY <1>1, <3>1 DEF V2!Took, V2!Outcome, Connections, CopyStates
  <2> QED BY <1>11, <1>i, <2>1 DEF Proper, CopyStates
<1>12. m.id \in {"C", "I", "E", "Z", "K", "P", "T", "D", "B", "G", "H", "line", "."}
  BY <1>1, <1>2 DEF KnownIds
<1> QED BY <1>4, <1>5, <1>6, <1>7, <1>8, <1>9, <1>10, <1>11, <1>12

\* What the handlers do with a message of an answer.
LEMMA ParserProper ==
  ASSUME IInv, in # <<>>, NEW m, m = Head(in), m.at # 0, m.form # "huge", c.async = "BUSY",
         NEW o \in parseInput(m)
  PROVE  Proper(o.c, m, o.act, o.failed)
<1>1. c.pversion \in {2, 3}
  BY ProgramAnswered DEF IInv
<1>2. m.id \notin {"A", "N"}
  BY HeadKinds DEF IInv
<1>3. CASE c.pversion = 2
  <2>1. o \in V2!Busy2(c, m)
    BY <1>2, <1>3, HandlerFacts DEF V2!pqParseInput2
  <2> QED BY <1>3, <2>1, ProperBusy2
<1>4. CASE c.pversion = 3
  BY <1>4, ProperParse3, HandlerFacts
<1> QED BY <1>1, <1>3, <1>4

\* The statuses of the results that messages make.
LEMMA KindStatus ==
  ASSUME NEW d, NEW m, NEW act, NEW failed, Kind(d, m, act, failed), d.result # NULL, d.result # c.result
  PROVE  /\ d.result.status \in CopyStates => CopyBegun(d, m, act) /\ d.async = d.result.status
         /\ d.result.status = "SINGLE_TUPLE" => IsRow(m)
<1>1. CASE Ignored(d, m, act) \/ Finished(d, m, act) \/ AnswerEnds(d, m, act)
  BY <1>1 DEF Ignored, Finished, AnswerEnds, KeepsResult
<1>2. CASE Refused(d, m, act, failed)
  BY <1>2 DEF Refused, Is, CopyStates
<1>3. CASE Made(d, m, act)
  BY <1>3 DEF Made, CopyStates
<1>4. CASE Described(d, m, act)
  BY <1>4 DEF Described, NewResult, CopyStates
<1>5. CASE RowAdded(d, m, act)
  <2>1. IsRow(m) /\ Is(c.result, "TUPLES_OK")
    BY <1>5 DEF RowAdded
  <2>2. d.result.status \in {"SINGLE_TUPLE", c.result.status}
    <3>1. CASE d.result = [c.result EXCEPT !.status = "SINGLE_TUPLE", !.rows = <<m.n>>]
      <4>1. PICK r : r = c.result
        OBVIOUS
      <4>2. [r EXCEPT !.status = "SINGLE_TUPLE", !.rows = <<m.n>>].status \in {"SINGLE_TUPLE", r.status}
        OBVIOUS
      <4> QED BY <3>1, <4>1, <4>2
    <3>2. CASE d.result = [c.result EXCEPT !.rows = Append(@, m.n)]
      <4>1. PICK r : r = c.result
        OBVIOUS
      <4>2. [r EXCEPT !.rows = Append(@, m.n)].status = r.status
        OBVIOUS
      <4> QED BY <3>2, <4>1, <4>2
    <3> QED BY <1>5, <3>1, <3>2 DEF RowAdded
  <2> QED BY <2>1, <2>2 DEF Is, CopyStates
<1>6. CASE CopyBegun(d, m, act)
  BY <1>6 DEF CopyBegun, NewResult
<1> QED BY <1>1, <1>2, <1>3, <1>4, <1>5, <1>6 DEF Kind

\* The state of the connection after a message, when it is still good.
LEMMA KindAsync ==
  ASSUME NEW d, NEW m, NEW act, NEW failed, Kind(d, m, act, failed), act \in {"next", "stay"}, c.async = "BUSY"
  PROVE  /\ d.async \in {"BUSY", "READY", "IDLE"} \/ CopyBegun(d, m, act)
         /\ d.async = "IDLE" => m.id = "Z" /\ d.result = c.result
         /\ CopyBegun(d, m, act) => m.id \in CopyStarts /\ d.async \in CopyStates
BY DEF Kind, Ignored, Finished, Refused, Made, Described, RowAdded, CopyBegun, AnswerEnds, KeepsResult, CopyStarts, CopyStates

\* Before the connection is lost or the parser out of step, it is not.
LEMMA SteadyBefore ==
  ASSUME IInv, NEW m, NEW act, NEW failed, Treating(m, act, failed), Steady'
  PROVE  Steady /\ c'.pversion = c.pversion
<1>1. c'.pversion = c.pversion /\ (c'.ok => c.ok) /\ hurt \subseteq hurt'
  BY KindFrame DEF Treating
<1> QED BY <1>1 DEF Steady, OutOfStep

\* While the connection lives, a message of an answer is consumed or waits.
LEMMA TurnActs ==
  ASSUME IInv, NEW m, NEW act, NEW failed, Treating(m, act, failed), Steady', m.at # 0, c.async = "BUSY"
  PROVE  act \in {"next", "stay"}
<1>1. Kind(c', m, act, failed) /\ c'.pversion = c.pversion /\ hurt \subseteq hurt' /\ (failed => m.stmt \in hurt')
  BY SteadyBefore DEF Treating
<1>2. Steady /\ c'.ok /\ (failed => c.pversion # 2)
  BY <1>1, SteadyBefore DEF Steady, OutOfStep
<1>3. CASE Ignored(c', m, act)
  BY <1>2, <1>3 DEF Ignored, Steady
<1>4. CASE Refused(c', m, act, failed)
  BY <1>2, <1>4 DEF Refused, Steady
<1>5. CASE ~Ignored(c', m, act) /\ ~Refused(c', m, act, failed)
  BY <1>1, <1>5 DEF Kind, Finished, Made, Described, RowAdded, CopyBegun, AnswerEnds
<1> QED BY <1>3, <1>4, <1>5

\* No result waits while one is being made.
LEMMA BusyWaits ==
  ASSUME c.async # "READY", pc \notin FunctionPcs
  PROVE  ~Waiting
BY DEF Waiting

\* Where the message at the head of the input belongs.
LEMMA HeadAsked ==
  ASSUME IInv, in # <<>>, NEW m, m = Head(in), m.at # 0, c.async # "IDLE"
  PROVE  /\ m.at \in DOMAIN Ms /\ m = Ms[m.at] /\ m.at > place /\ place \in Nat /\ m.at \in Nat
         /\ \A k \in place + 1..m.at - 1 : Ms[k].id = "end"
         /\ \A k \in 1..place : k \in 1..m.at - 1 /\ k \in 1..m.at
         /\ m.at \in 1..m.at
         /\ Class = c.class /\ Class \in {"SIMPLE", "EXTENDED", "PREPARE", "DESCRIBE"}
         /\ m.stmt = 0 <=> m.id = "Z"
         /\ m.stmt \in Nat /\ m \in Messages
<1>1. TypeOK /\ StreamInv /\ ConnInv
  BY DEF IInv
<1>2. /\ m.at \in DOMAIN Ms /\ m = Ms[m.at] /\ m.at > place /\ m.at \in Nat /\ place \in Nat
      /\ \A k \in place + 1..m.at - 1 : Ms[k].id = "end"
      /\ m.stmt \in Nat /\ m \in Messages
  BY <1>1, HeadFacts, HeadKinds, MsFacts
<1>3. Class = c.class /\ c.class \in Classes(c.pversion) /\ c.class # "FUNCTION" /\ c.pversion \in {2, 3}
  BY <1>1, BusyKinds DEF Class
<1>4. Class \in {"SIMPLE", "EXTENDED", "PREPARE", "DESCRIBE"}
  BY <1>3 DEF Classes
<1>5. m.stmt = 0 <=> m.id = "Z"
  <2>1. IF m.at = Len(Ms) THEN m.id = "Z" /\ m.stmt = 0 /\ m.form = "ok"
        ELSE m.id \in AnswerIds(c.pversion, program[sent].class) /\ m.stmt > 0
    BY <1>1, HeadKinds
  <2>2. "Z" \notin AnswerIds(c.pversion, program[sent].class)
    BY <1>3 DEF AnswerIds, KnownIds
  <2> QED BY <1>2, <2>1, <2>2
<1>6. (\A k \in 1..place : k \in 1..m.at - 1 /\ k \in 1..m.at) /\ m.at \in 1..m.at
  BY <1>2
<1> QED BY <1>2, <1>3, <1>4, <1>5, <1>6

\* What is filled is of the statement of the message at the head of the input.
LEMMA FillingIsNext ==
  ASSUME IInv, OpenInv, in # <<>>, NEW m, m = Head(in), m.at # 0, m.stmt # 0, c.async = "BUSY", c.result # NULL
  PROVE  /\ c.result.stmt = m.stmt
         /\ c.class # "DESCRIBE" => m.id # "T"
<1>1. TypeOK /\ ConnInv
  BY DEF IInv
<1>2. Filling = c.result
  BY <1>1, BusyResult
<1> DEFINE s == c.result.stmt
<1>3. /\ s # 0
      /\ IF Class = "DESCRIBE" THEN \E j \in 1..place : Ms[j].stmt = s ELSE Open(s)
  BY <1>2 DEF OpenInv
<1>4. /\ m.at \in DOMAIN Ms /\ m = Ms[m.at] /\ Class = c.class
      /\ \A k \in 1..place : k \in 1..m.at - 1
  BY HeadAsked
<1>5. s \in Nat
  BY <1>1, ResultTypes DEF TypeOK, Connections
<1> HIDE DEF s, Ms
<1>6. CASE c.class = "DESCRIBE"
  <2>1. PICK j \in 1..place : Ms[j].stmt = s
    BY <1>3, <1>4, <1>6
  <2>2. Ms[j].stmt = Ms[m.at].stmt
    BY <1>1, <1>4, <1>6, <2>1, StatementFacts
  <2> QED BY <1>4, <1>6, <2>1, <2>2 DEF s
<1>7. CASE c.class # "DESCRIBE"
  <2>1. PICK j \in 1..place : ~Done(s) /\ Ms[j].stmt = s /\ Ms[j].id \notin PassiveIds(Class)
    BY <1>3, <1>4, <1>7 DEF Open
  <2>2. m.stmt = s
    BY <1>3, <1>5, <2>1, OpenIsNext
  <2>3. m.id # "T"
    BY <1>1, <1>4, <2>1, <2>2, StatementFacts
  <2> QED BY <2>2, <2>3 DEF s
<1> QED BY <1>6, <1>7

-----------------------------------------------------------------------------
(* A message of an answer is treated. *)

Asking(m, act, failed) ==
  /\ Treating(m, act, failed) /\ Proper(c', m, act, failed) /\ m.at # 0 /\ c.async = "BUSY"
  /\ pc \notin FunctionPcs /\ seen' = seen

\* What the treatment of a message of an answer leaves alone.
LEMMA AskedFrame ==
  ASSUME IInv, NEW m, NEW act, NEW failed, Asking(m, act, failed), Steady'
  PROVE  /\ TypeOK /\ ConnInv /\ Steady /\ in # <<>> /\ m = Head(in) /\ act \in {"next", "stay"}
         /\ Kind(c', m, act, failed) /\ UNCHANGED <<program, sent, delivered>> /\ hurt \subseteq hurt'
         /\ c'.pversion = c.pversion /\ Ms' = Ms /\ Class' = Class /\ pc' \notin FunctionPcs
         /\ act = "next" => place' = m.at
         /\ act = "stay" => place' = place
         /\ ~Waiting /\ ~RowWaits /\ Filling = c.result
<1>1. Treating(m, act, failed) /\ m.at # 0 /\ c.async = "BUSY" /\ pc \notin FunctionPcs
  BY DEF Asking
<1>2. TypeOK /\ ConnInv
  BY DEF IInv
<1>3. Steady /\ c'.pversion = c.pversion /\ act \in {"next", "stay"}
  BY <1>1, SteadyBefore, TurnActs
<1>4. Ms' = Ms /\ (act = "next" => place' = m.at) /\ (act = "stay" => place' = place)
  BY <1>1, TreatingMoves
<1>5. Class' = Class
  BY <1>1 DEF Class, Treating
<1>6. ~Waiting /\ ~RowWaits /\ Filling = c.result
  BY <1>1, <1>2, BusyWaits, BusyResult
<1> QED BY <1>1, <1>2, <1>3, <1>4, <1>5, <1>6 DEF Treating

\* A message that stays changes nothing.
LEMMA AskedStays ==
  ASSUME IInv, OpenInv, NEW m, NEW failed, Asking(m, "stay", failed), Steady'
  PROVE  KeepsResult(c') /\ c'.async = c.async
<1>1. in # <<>> /\ m = Head(in) /\ m.at # 0 /\ c.async = "BUSY"
  BY AskedFrame DEF Asking
<1>2. CASE m.id = "T" /\ c.result # NULL /\ c.class # "DESCRIBE"
  <2>1. m.stmt # 0
    BY <1>1, <1>2, HeadAsked
  <2> QED BY <1>1, <1>2, <2>1, FillingIsNext
<1> QED BY <1>2 DEF Asking, Proper

\* The result is then of the statement of the message.
LEMMA AskedResult ==
  ASSUME IInv, OpenInv, CopyResultInv, NEW m, NEW failed, Asking(m, "next", failed), Steady', c'.result # NULL,
         m.id # "Z"
  PROVE  /\ c'.result.stmt = m.stmt
         /\ c'.result.status \in CopyStates => CopyBegun(c', m, "next") /\ c'.async = c'.result.status
         /\ c'.result.status = "SINGLE_TUPLE" => IsRow(m)
<1>1. in # <<>> /\ m = Head(in) /\ m.at # 0 /\ c.async = "BUSY" /\ Kind(c', m, "next", failed) /\ ~RowWaits
  BY AskedFrame DEF Asking
<1>2. m.stmt # 0
  BY <1>1, HeadAsked
<1>3. c.result # NULL => c.result.stmt = m.stmt
  BY <1>1, <1>2, FillingIsNext
<1>4. CASE c'.result = c.result
  <2>1. c.result.status \notin CopyStates
    BY <1>1, <1>4 DEF CopyResultInv, CopyStates
  <2>2. c.result.status # "SINGLE_TUPLE"
    BY <1>1, <1>4 DEF RowWaits, Is
  <2> QED BY <1>3, <1>4, <2>1, <2>2
<1>5. CASE c'.result # c.result
  <2>1. Renews(c', m)
    BY <1>5 DEF Asking, Proper
  <2>2. c'.result.stmt = m.stmt
    BY <1>3, <2>1 DEF Renews
  <2> QED BY <1>1, <1>5, <2>2, KindStatus
<1> QED BY <1>4, <1>5

\* What is done then.
LEMMA AskedMoves ==
  ASSUME IInv, NEW m, NEW failed, Asking(m, "next", failed), Steady'
  PROVE  /\ \A s : Done(s)' <=> Done(s) \/ (Ending(m) /\ m.stmt = s)
         /\ Ending(m) => ~Done(m.stmt) /\ ~Before(m.stmt)
         /\ m.stmt # 0 => ~Done(m.stmt)
<1>1. TypeOK /\ in # <<>> /\ m = Head(in) /\ m.at # 0 /\ c.async # "IDLE"
  BY AskedFrame DEF Asking
<1>2. PICK q \in DOMAIN Ms : q = m.at
  BY <1>1, HeadAsked
<1>3. Ms[q] = m /\ q > place /\ \A k \in place + 1..q - 1 : Ms[k].id = "end"
  BY <1>1, <1>2, HeadAsked
<1>4. UNCHANGED <<program, sent>> /\ place' = q
  BY <1>2, AskedFrame
<1> HIDE DEF Ms
<1>5. /\ \A s : Done(s)' <=> Done(s) \/ (Ending(Ms[q]) /\ Ms[q].stmt = s)
      /\ Ending(Ms[q]) => ~Done(Ms[q].stmt) /\ ~Before(Ms[q].stmt)
      /\ Ms[q].stmt # 0 => ~Done(Ms[q].stmt)
  BY <1>1, <1>3, <1>4, DoneMoves
<1> QED BY <1>3, <1>5

\* A row that makes a result ready is one of single-row mode.
LEMMA RowReady ==
  ASSUME TypeOK, NEW m \in Messages, NEW failed, Kind(c', m, "next", failed), IsRow(m),
         c.async = "BUSY", c'.async = "READY"
  PROVE  /\ Is(c'.result, "SINGLE_TUPLE") /\ RowWaits' /\ Filling' = c.result
         /\ c.result \in Results
<1>1. RowAdded(c', m, "next")
  BY DEF Kind, Ignored, Finished, Refused, Made, Described, CopyBegun, AnswerEnds, Plain, CopyStates
<1> QED BY <1>1, RowAddedResult

\* A statement that is completed and makes no result is one that is swallowed.
LEMMA AskedSwallows ==
  ASSUME IInv, OpenInv, CopyResultInv, NEW m, NEW failed, Asking(m, "next", failed), Steady', Ending(m),
         c'.async # "READY"
  PROVE  /\ c.class = "DESCRIBE" /\ m.id = "T" /\ c'.async = "BUSY" /\ Swallowed(m.stmt)'
<1>1. /\ TypeOK /\ in # <<>> /\ m = Head(in) /\ m.at # 0 /\ c.async = "BUSY" /\ Kind(c', m, "next", failed)
      /\ UNCHANGED <<program, sent>> /\ hurt \subseteq hurt' /\ Filling = c.result /\ Steady /\ ErrorInv
      /\ (failed => m.stmt \in hurt') /\ c'.pversion = c.pversion
  BY AskedFrame DEF Asking, IInv, RowsInv, Treating
<1>2. /\ m.at \in DOMAIN Ms /\ m = Ms[m.at] /\ Class = c.class /\ Class \in {"SIMPLE", "EXTENDED", "PREPARE", "DESCRIBE"}
      /\ m.stmt = 0 <=> m.id = "Z"
  BY <1>1, HeadAsked
<1>3. m.stmt # 0 /\ m.id \in CompletingIds(c.class) /\ m.id # "Z"
  BY <1>2 DEF Ending
<1>4. c'.async = "BUSY"
  <2>1. m.id \notin CopyStarts
    BY <1>2, <1>3, IdFacts DEF CopyStarts
  <2> QED BY <1>1, <1>3, <2>1, KindAsync
<1>5. c.class = "DESCRIBE" /\ m.id = "T" /\ (IsError(c.result) \/ failed \/ m.form # "ok")
  BY <1>3, <1>4 DEF Asking, Proper
<1>6. QueryOf(m.stmt) = sent /\ Answer(m.stmt) = Ms /\ program[sent].class = "DESCRIBE"
  <2>1. QueryOf(m.stmt) = sent /\ Answer(m.stmt) = Ms
    BY <1>1, <1>2, <1>3, QueryIs
  <2> QED BY <1>2, <1>5, <2>1 DEF Class
<1>7. m.stmt \in hurt' \/ \E k \in DOMAIN Ms : Ms[k].stmt = m.stmt /\ Ms[k].form # "ok"
  <2>1. CASE failed
    BY <1>1, <2>1
  <2>2. CASE m.form # "ok"
    BY <1>2, <2>2
  <2>3. CASE IsError(c.result)
    <3>1. c.result # NULL /\ Is(c.result, "FATAL_ERROR") /\ ~OutOfStep
      BY <1>1, <2>3 DEF IsError, Is, Steady
    <3>2. c.result.stmt = m.stmt
      BY <1>1, <1>3, <3>1, FillingIsNext
    <3>3. Troubled(m.stmt)
      BY <1>1, <3>1, <3>2 DEF ErrorInv
    <3>4. CASE m.stmt \in hurt
      BY <1>1, <3>4
    <3>5. CASE m.stmt \notin hurt
      <4> HIDE DEF Ms
      <4>1. PICK k \in DOMAIN Ms : Ms[k].stmt = m.stmt /\ (Ms[k].id \in {"E", "?"} \/ Ms[k].form # "ok")
        BY <1>3, <1>6, <3>3, <3>5 DEF Troubled
      <4>2. Ms[k].id \notin {"E", "?"}
        <5>1. SUFFICES ASSUME Ms[k].id \in {"E", "?"} PROVE FALSE
          OBVIOUS
        <5>2. Ending(Ms[k]) /\ k # m.at
          BY <1>2, <1>3, <1>5, <4>1, <5>1 DEF Ending, CompletingIds
        <5>3. PICK n \in Nat : n = Len(Ms)
          BY <1>1, MsFacts
        <5>4. DOMAIN Ms = 1..n
          BY <1>1, <5>3, MsFacts, AnswerShape
        <5>5. k \in 1..m.at - 1 \/ m.at \in 1..k - 1
          BY <1>2, <5>2, <5>4
        <5>6. CASE k \in 1..m.at - 1
          BY <1>1, <1>2, <1>3, <4>1, <5>2, <5>6, StatementFacts
        <5>7. CASE m.at \in 1..k - 1
          BY <1>1, <1>2, <1>3, <4>1, <5>7, StatementFacts
        <5> QED BY <5>5, <5>6, <5>7
      <4> QED BY <4>1, <4>2
    <3> QED BY <3>4, <3>5
  <2> QED BY <1>5, <2>1, <2>2, <2>3
<1>8. \A s : QueryOf(s)' = QueryOf(s) /\ Answer(s)' = Answer(s)
  BY <1>1, SameProgram
<1>9. Swallowed(m.stmt)'
  <2> HIDE DEF Ms
  <2>1. PICK s : s = m.stmt
    OBVIOUS
  <2>2. Swallowed(s)'
    BY <1>1, <1>6, <1>7, <1>8, <2>1 DEF Swallowed
  <2> QED BY <2>1, <2>2
<1> QED BY <1>4, <1>5, <1>9

\* A statement is done when its result waits.
LEMMA AskedDone ==
  ASSUME IInv, OrderInv, DoneInv, OpenInv, CopyResultInv, NEW m, NEW act, NEW failed,
         Asking(m, act, failed), Steady'
  PROVE  OrderInv' /\ DoneInv'
<1>1. /\ TypeOK /\ in # <<>> /\ m = Head(in) /\ m.at # 0 /\ c.async = "BUSY" /\ act \in {"next", "stay"}
      /\ Kind(c', m, act, failed) /\ pc' \notin FunctionPcs
      /\ UNCHANGED <<program, sent, delivered>> /\ hurt \subseteq hurt' /\ c'.pversion = c.pversion /\ ~Waiting
      /\ Ms' = Ms /\ Class' = Class
  BY AskedFrame DEF Asking
<1>2. /\ m.at \in DOMAIN Ms /\ m = Ms[m.at] /\ m.at > place
      /\ \A k \in place + 1..m.at - 1 : Ms[k].id = "end"
      /\ m.stmt = 0 <=> m.id = "Z"
      /\ Class = c.class /\ Class \in {"SIMPLE", "EXTENDED", "PREPARE", "DESCRIBE"}
      /\ m \in Messages
  BY <1>1, HeadAsked
<1>3. CASE act = "stay"
  <2>1. KeepsResult(c') /\ c'.async = "BUSY"
    BY <1>1, <1>3, AskedStays
  <2>2. ~Waiting'
    BY <1>1, <2>1 DEF Waiting
  <2>3. place' = place
    BY <1>3, AskedFrame
  <2>4. \A s : Done(s)' <=> Done(s)
    BY <1>1, <2>3 DEF Done, Ending
  <2> QED BY <1>1, <2>2, <2>4, OnceSame
<1>4. CASE act = "next" /\ ~Ending(m)
  <2>1. \A s : Done(s)' <=> Done(s)
    BY <1>4, AskedMoves
  <2>2. ~Waiting'
    <3>1. SUFFICES ASSUME c'.async = "READY", c'.result # NULL, Closes(c'.result) PROVE FALSE
      BY <1>1 DEF Waiting, Closes
    <3>2. m.id \in CompletingIds(c.class) \/ IsRow(m)
      BY <1>4, <3>1 DEF Asking, Proper
    <3>3. IsRow(m) /\ m.id # "Z"
      BY <1>2, <1>4, <3>2 DEF Ending, IsRow, CompletingIds
    <3>4. c'.result.status = "SINGLE_TUPLE"
      BY <1>1, <1>2, <1>4, <3>1, <3>3, RowReady DEF Is
    <3> QED BY <3>1, <3>4 DEF Closes
  <2> QED BY <1>1, <2>1, <2>2, OnceSame
<1>5. CASE act = "next" /\ Ending(m)
  <2>1. place' = m.at
    BY <1>5, AskedFrame
  <2>2. CASE c'.async = "READY"
    <3>1. c'.result # NULL /\ m.id # "Z" /\ m.stmt # 0
      BY <1>2, <1>5, <2>2 DEF Asking, Proper, Ending
    <3>2. /\ c'.result.stmt = m.stmt
          /\ c'.result.status \in CopyStates => c'.async = c'.result.status
          /\ c'.result.status = "SINGLE_TUPLE" => IsRow(m)
      BY <1>5, <3>1, AskedResult
    <3>3. ~IsRow(m)
      <4>1. m.id \in CompletingIds(c.class)
        BY <1>2, <1>5 DEF Ending
      <4> QED BY <1>2, <4>1, IdFacts DEF IsRow
    <3>4. c'.result.status \notin CopyStates \union {"SINGLE_TUPLE"}
      BY <2>2, <3>2, <3>3 DEF CopyStates
    <3>5. Waiting'
      BY <2>2, <3>1, <3>2, <3>4 DEF Waiting, Closes
    <3>6. PICK q \in DOMAIN Ms : q = m.at
      BY <1>2
    <3>7. q > place /\ (\A k \in place + 1..q - 1 : Ms[k].id = "end") /\ place' = q /\ Ending(Ms[q]) /\ m.stmt = Ms[q].stmt
      BY <1>2, <1>5, <2>1, <3>6
    <3> HIDE DEF Ms
    <3> QED BY <1>1, <3>2, <3>5, <3>6, <3>7, OnceDone
  <2>3. CASE c'.async # "READY"
    <3>1. c'.async = "BUSY" /\ Swallowed(m.stmt)'
      BY <1>5, <2>3, AskedSwallows
    <3>2. ~Waiting'
      BY <1>1, <3>1 DEF Waiting
    <3>6. PICK q \in DOMAIN Ms : q = m.at
      BY <1>2
    <3>7. q > place /\ (\A k \in place + 1..q - 1 : Ms[k].id = "end") /\ place' = q /\ Ending(Ms[q]) /\ m.stmt = Ms[q].stmt
      BY <1>2, <1>5, <2>1, <3>6
    <3> HIDE DEF Ms
    <3>8. PICK s : s = m.stmt
      OBVIOUS
    <3>9. Swallowed(s)' /\ s = Ms[q].stmt
      BY <3>1, <3>7, <3>8
    <3> QED BY <1>1, <3>2, <3>6, <3>7, <3>9, OnceDone
  <2> QED BY <2>2, <2>3
<1> QED BY <1>1, <1>3, <1>4, <1>5

\* What was open stays open until it is done.
LEMMA OpenStays ==
  ASSUME Ms' = Ms, Class' = Class, place \in Nat, place' \in Nat, place <= place', NEW s, Open(s), ~Done(s)'
  PROVE  Open(s)'
<1>1. \A k \in 1..place : k \in 1..place'
  <2>1. PICK q \in Nat : q = place'
    OBVIOUS
  <2> QED BY <2>1
<1> HIDE DEF Ms, Class
<1> QED BY <1>1 DEF Open

\* What is filled then is of the statement under way.
LEMMA AskedOpens ==
  ASSUME IInv, IInv', OpenInv, CopyResultInv, NEW m, NEW act, NEW failed, Asking(m, act, failed), Steady'
  PROVE  OpenInv'
<1>1. /\ TypeOK /\ in # <<>> /\ m = Head(in) /\ m.at # 0 /\ c.async = "BUSY" /\ act \in {"next", "stay"}
      /\ Kind(c', m, act, failed) /\ Ms' = Ms /\ Class' = Class /\ ~RowWaits /\ Filling = c.result
  BY AskedFrame DEF Asking
<1>2. /\ m.at \in DOMAIN Ms /\ m = Ms[m.at] /\ m.at > place /\ place \in Nat /\ m.at \in Nat /\ m \in Messages
      /\ m.stmt = 0 <=> m.id = "Z"
      /\ Class = c.class /\ Class \in {"SIMPLE", "EXTENDED", "PREPARE", "DESCRIBE"}
      /\ m.at \in 1..m.at /\ \A k \in 1..place : k \in 1..m.at
  BY <1>1, HeadAsked
<1>3. ConnInv' /\ (RowWaits' => c'.async = "READY")
  BY DEF IInv, ConnInv
<1>4. CASE act = "stay"
  <2>1. KeepsResult(c') /\ c'.async = c.async /\ place' = place
    BY <1>1, <1>4, AskedStays, AskedFrame
  <2>2. Filling' = Filling
    BY <2>1 DEF Filling, RowWaits, KeepsResult
  <2>3. \A s : Done(s)' <=> Done(s)
    BY <1>1, <2>1 DEF Done, Ending
  <2>4. \A s : Open(s)' <=> Open(s)
    BY <1>1, <2>1, <2>3 DEF Open
  <2>5. RowWaits' <=> RowWaits
    BY <2>1 DEF RowWaits, KeepsResult
  <2> QED BY <1>1, <2>1, <2>2, <2>4, <2>5 DEF OpenInv
<1>5. CASE act = "next"
  <2>0. place' = m.at
    BY <1>5, AskedFrame
  <2>1. SUFFICES ASSUME NEW r, r = Filling', r # NULL, c'.async \notin {"READY", "IDLE"} \/ RowWaits'
                 PROVE  /\ r.stmt # 0
                        /\ IF Class = "DESCRIBE" THEN \E j \in 1..m.at : Ms[j].stmt = r.stmt ELSE Open(r.stmt)'
    <3>1. PICK r : r = Filling'
      OBVIOUS
    <3> HIDE DEF Ms, Class
    <3> QED BY <1>1, <2>0, <2>1, <3>1 DEF OpenInv
  <2>2. Class # "DESCRIBE" => ~Ending(m)
    <3>1. SUFFICES ASSUME Class # "DESCRIBE", Ending(m) PROVE FALSE
      OBVIOUS
    <3>2. c'.async = "READY"
      BY <1>2, <1>5, <3>1, AskedSwallows
    <3>3. Is(c'.result, "SINGLE_TUPLE")
      BY <2>1, <3>2 DEF RowWaits
    <3>4. m.id \in CompletingIds(c.class) /\ m.id # "Z"
      BY <1>2, <3>1 DEF Ending
    <3>5. IsRow(m)
      BY <1>5, <3>3, <3>4, AskedResult DEF Is
    <3> QED BY <1>2, <3>4, <3>5, IdFacts DEF IsRow
  <2>3. \A s : Done(s)' => Done(s) \/ (Ending(m) /\ m.stmt = s)
    BY <1>5, AskedMoves
  <2>4. r = c.result \/ (r = c'.result /\ c'.result # c.result)
    <3>1. CASE RowWaits'
      <4>1. Is(c'.result, "SINGLE_TUPLE")
        BY <3>1 DEF RowWaits
      <4>2. m.id # "Z"
        <5>1. m.id = "Z" => c'.result = c.result
          BY <1>5 DEF Asking, Proper
        <5> QED BY <1>1, <4>1, <5>1 DEF RowWaits
      <4>3. IsRow(m)
        BY <1>5, <4>1, <4>2, AskedResult DEF Is
      <4> QED BY <1>1, <1>2, <1>3, <1>5, <2>1, <3>1, <4>3, RowReady
    <3>2. CASE ~RowWaits'
      BY <2>1, <3>2 DEF Filling
    <3> QED BY <3>1, <3>2
  <2>5. CASE r = c.result
    <3>1. /\ r.stmt # 0
          /\ IF Class = "DESCRIBE" THEN \E j \in 1..place : Ms[j].stmt = r.stmt ELSE Open(r.stmt)
      BY <1>1, <2>1, <2>5 DEF OpenInv
    <3>2. CASE Class = "DESCRIBE"
      <4> HIDE DEF Ms, Class
      <4> QED BY <1>2, <3>1, <3>2
    <3>3. CASE Class # "DESCRIBE"
      <4>1. ~Done(r.stmt)'
        BY <2>2, <2>3, <3>1, <3>3 DEF Open
      <4>2. place' \in Nat /\ place <= place'
        BY <1>2, <2>0
      <4>3. Open(r.stmt)'
        BY <1>1, <1>2, <3>1, <3>3, <4>1, <4>2, OpenStays
      <4> QED BY <3>1, <3>3, <4>3
    <3> QED BY <3>2, <3>3
  <2>6. CASE r = c'.result /\ c'.result # c.result
    <3>1. m.id # "Z" /\ (m.id \in CompletingIds(c.class) \/ m.id \notin PassiveIds(c.class) \/ c.class = "DESCRIBE")
      BY <1>5, <2>6 DEF Asking, Proper
    <3>2. r.stmt = m.stmt /\ m.stmt # 0
      BY <1>2, <1>5, <2>1, <2>6, <3>1, AskedResult
    <3>3. CASE Class = "DESCRIBE"
      <4> HIDE DEF Ms, Class
      <4> QED BY <1>2, <3>2, <3>3
    <3>4. CASE Class # "DESCRIBE"
      <4>1. m.id \notin PassiveIds(Class)
        BY <1>2, <2>2, <3>1, <3>2, <3>4 DEF Ending
      <4>2. ~Done(m.stmt)
        BY <1>5, <3>2, AskedMoves
      <4>3. ~Done(r.stmt)'
        BY <2>2, <2>3, <3>2, <3>4, <4>2
      <4> HIDE DEF Ms, Class
      <4>4. Open(r.stmt)'
        BY <1>1, <1>2, <2>0, <3>2, <4>1, <4>3 DEF Open
      <4> QED BY <3>2, <3>4, <4>4
    <3> QED BY <3>3, <3>4
  <2> QED BY <2>4, <2>5, <2>6
<1> QED BY <1>1, <1>4, <1>5

\* A copy that goes on was begun by the statement under way.
LEMMA AskedCopies ==
  ASSUME IInv, OpenInv, CopyResultInv, NEW m, NEW act, NEW failed, Asking(m, act, failed), Steady'
  PROVE  CopyResultInv'
<1>1. /\ TypeOK /\ in # <<>> /\ m = Head(in) /\ m.at # 0 /\ c.async = "BUSY" /\ act \in {"next", "stay"}
      /\ Kind(c', m, act, failed) /\ Ms' = Ms /\ Class' = Class /\ seen' = seen
  BY AskedFrame DEF Asking
<1>2. /\ m.at \in DOMAIN Ms /\ m = Ms[m.at] /\ m.at > place /\ place \in Nat /\ m.at \in Nat /\ m \in Messages
      /\ m.stmt = 0 <=> m.id = "Z"
      /\ Class = c.class /\ Class \in {"SIMPLE", "EXTENDED", "PREPARE", "DESCRIBE"}
      /\ m.at \in 1..m.at /\ \A k \in 1..place : k \in 1..m.at /\ k \in 1..m.at - 1
  BY <1>1, HeadAsked
<1>3. c.result # NULL => c.result.status \notin CopyStates
  BY <1>1 DEF CopyResultInv, CopyStates
<1>4. CASE act = "stay"
  <2>1. KeepsResult(c') /\ c'.async = c.async /\ place' = place
    BY <1>1, <1>4, AskedStays, AskedFrame
  <2>2. CopyStarted' <=> CopyStarted
    BY <1>1, <2>1 DEF CopyStarted, Done, Ending
  <2> QED BY <1>1, <2>1, <2>2 DEF CopyResultInv, KeepsResult
<1>5. CASE act = "next"
  <2>0. place' = m.at
    BY <1>5, AskedFrame
  <2>1. \A s : Done(s)' => Done(s) \/ (Ending(m) /\ m.stmt = s)
    BY <1>5, AskedMoves
  <2>2. CopyBegun(c', m, act) => m.id \in CopyStarts /\ c'.async \in CopyStates /\ m.stmt # 0 /\ ~Ending(m)
    <3>1. CopyBegun(c', m, act) => m.id \in CopyStarts /\ c'.async \in CopyStates
      BY <1>1, KindAsync
    <3>2. m.id \in CopyStarts => m.id # "Z" /\ m.id \notin CompletingIds(Class)
      BY <1>2, IdFacts DEF CopyStarts
    <3> QED BY <1>2, <3>1, <3>2 DEF Ending
  <2>3. c'.async \in CopyStates => CopyBegun(c', m, act)
    BY <1>1, KindAsync DEF CopyStates
  <2>4. CASE CopyBegun(c', m, act)
    <3>1. ~Done(m.stmt)'
      BY <1>5, <2>1, <2>2, <2>4, AskedMoves
    <3>2. CopyStarted'
      <4> HIDE DEF Ms
      <4>1. PICK h : h = m.at
        OBVIOUS
      <4>2. PICK s : s = m.stmt
        OBVIOUS
      <4>3. h \in 1..place' /\ Ms'[h].id \in CopyStarts /\ Ms'[h].stmt = s /\ ~Done(s)'
        BY <1>1, <1>2, <2>0, <2>2, <2>4, <3>1, <4>1, <4>2
      <4> QED BY <4>3 DEF CopyStarted
    <3>3. seen \notin CopyStates
      <4>1. SUFFICES ASSUME seen \in CopyStates PROVE FALSE
        OBVIOUS
      <4>2. PICK h \in 1..place : Ms[h].id \in CopyStarts /\ ~Done(Ms[h].stmt)
        BY <1>1, <4>1 DEF CopyResultInv, CopyStarted
      <4>3. h \in 1..m.at - 1 /\ h \in DOMAIN Ms
        BY <1>1, <1>2, <4>2, PlacesOf
      <4>7. m.at \in DOMAIN Ms /\ m = Ms[m.at] /\ m.stmt # 0 /\ m.id \in CopyStarts
        BY <1>1, <1>2, <2>2, <2>4
      <4>8. /\ Ms[h].stmt # 0
            /\ Ms[h].stmt = m.stmt /\ Ms[h].id \in CopyStarts => m.id \notin CopyStarts
        BY <1>1, <4>3, <4>7, StatementFacts
      <4>4. Ms[h].stmt # 0 /\ Ms[h].stmt \in Nat
        BY <1>1, <4>3, <4>8, AnswerShape
      <4>5. PICK s \in Nat : s = Ms[h].stmt
        BY <4>4
      <4>6. m.stmt = s
        BY <1>1, <4>2, <4>4, <4>5, OpenIsNext
      <4> QED BY <4>2, <4>5, <4>6, <4>7, <4>8
    <3>4. c'.result # NULL /\ c'.result.status \in CopyStates => c'.async = c'.result.status
      BY <1>1, <1>3, KindStatus
    <3> QED BY <1>1, <3>2, <3>3, <3>4 DEF CopyResultInv
  <2>5. CASE ~CopyBegun(c', m, act)
    <3>1. c'.async \notin CopyStates
      BY <2>3, <2>5
    <3>2. c'.result # NULL => c'.result.status \notin CopyStates
      BY <1>1, <1>3, <2>5, KindStatus
    <3>3. ASSUME c'.async = "BUSY", seen \in CopyStates PROVE CopyStarted'
      <4>1. PICK h \in 1..place : Ms[h].id \in CopyStarts /\ ~Done(Ms[h].stmt)
        BY <1>1, <3>3 DEF CopyResultInv, CopyStarted
      <4>2. h \in 1..m.at - 1 /\ h \in DOMAIN Ms
        BY <1>1, <1>2, <4>1, PlacesOf
      <4>3. ~Ending(m)
        <5>1. SUFFICES ASSUME Ending(m) PROVE FALSE
          OBVIOUS
        <5>2. Class = "DESCRIBE" /\ m.id = "T"
          BY <1>2, <1>5, <3>3, <5>1, AskedSwallows
        <5>3. Ms[h].stmt = Ms[m.at].stmt /\ Ms[m.at].stmt # 0
          BY <1>1, <1>2, <4>2, <5>1, <5>2, StatementFacts DEF Ending
        <5>4. Ms[h].id \in PassiveIds(Class)
          <6> HIDE DEF Ms
          <6>1. PICK k \in DOMAIN Ms : k = m.at
            BY <1>2
          <6>2. Ms[k].id = "T" /\ Ms[k].stmt # 0 /\ h \in 1..k - 1 /\ Ms[h].stmt = Ms[k].stmt
            BY <1>2, <4>2, <5>2, <5>3, <6>1
          <6> QED BY <1>1, <6>2, StatementFacts
        <5> QED BY <4>1, <5>4 DEF PassiveIds, CopyStarts
      <4>4. PICK s : s = Ms[h].stmt
        OBVIOUS
      <4>5. ~Done(s)'
        BY <2>1, <4>1, <4>3, <4>4
      <4> HIDE DEF Ms
      <4>6. h \in 1..place'
        BY <1>2, <2>0, <4>1
      <4> QED BY <1>1, <4>1, <4>4, <4>5, <4>6 DEF CopyStarted
    <3> QED BY <1>1, <3>1, <3>2, <3>3 DEF CopyResultInv
  <2> QED BY <2>4, <2>5
<1> QED BY <1>1, <1>4, <1>5

\* A message of an answer keeps each part of the invariant.
LEMMA OnceAsked ==
  ASSUME IInv, IInv', OnceInv, NEW m, NEW act, NEW failed, Asking(m, act, failed), Steady'
  PROVE  OrderInv' /\ DoneInv' /\ OpenInv' /\ CopyResultInv'
<1>1. OrderInv /\ DoneInv /\ OpenInv /\ CopyResultInv
  BY AskedFrame DEF OnceInv
<1> QED BY <1>1, AskedDone, AskedOpens, AskedCopies

\* A step that does nothing to the answer and what is made of it.
LEMMA OnceStill ==
  ASSUME OrderInv, DoneInv, OpenInv, CopyResultInv, UNCHANGED <<program, sent, delivered>>, place' = place,
         seen' = seen \/ seen' \notin CopyStates, hurt \subseteq hurt', c'.pversion = c.pversion, KeepsResult(c'), c'.async = c.async,
         (c.async = "READY" \/ pc' \in FunctionPcs) <=> (c.async = "READY" \/ pc \in FunctionPcs)
  PROVE  OrderInv' /\ DoneInv' /\ OpenInv' /\ CopyResultInv'
<1>1. Ms' = Ms /\ Class' = Class
  BY DEF Ms, Class
<1>2. \A s : Done(s)' <=> Done(s)
  BY <1>1 DEF Done, Ending
<1>3. Filling' = Filling /\ (RowWaits' <=> RowWaits)
  BY DEF Filling, RowWaits, KeepsResult
<1>4. \A r : Closes(r)' <=> Closes(r)
  BY DEF Closes
<1>5. Waiting' <=> Waiting
  BY <1>4 DEF Waiting, KeepsResult
<1>6. OrderInv' /\ DoneInv'
  BY <1>2, <1>5, OnceSame DEF KeepsResult
<1>7. \A s : Open(s)' <=> Open(s)
  BY <1>1, <1>2 DEF Open
<1>8. OpenInv'
  BY <1>1, <1>3, <1>7 DEF OpenInv
<1>9. CopyStarted' <=> CopyStarted
  BY <1>1, <1>2 DEF CopyStarted
<1>10. CopyResultInv'
  BY <1>9 DEF CopyResultInv, KeepsResult
<1> QED BY <1>6, <1>8, <1>10

\* A message that nobody asked for, or that is not for the parser, changes nothing here.
LEMMA TreatedIgnored ==
  ASSUME IInv, NEW m, NEW act, NEW failed, Treating(m, act, failed), Steady', m.at = 0 \/ c.async # "BUSY"
  PROVE  Ignored(c', m, act) /\ place' = place
<1>1. Kind(c', m, act, failed) /\ Steady /\ c'.ok /\ c.ok /\ in # <<>> /\ m = Head(in) /\ TypeOK /\ StreamInv /\ ConnInv
  BY SteadyBefore DEF Treating, Steady, IInv
<1>2. m.at = 0 => m.id # "Z"
  BY <1>1, HeadKinds
<1>3. Ignored(c', m, act)
  BY <1>1, <1>2 DEF Kind, Finished, Refused, Made, Described, RowAdded, CopyBegun, AnswerEnds
<1>4. /\ c.async = "IDLE" /\ pc \notin FunctionPcs => place' = place
      /\ act = "next" /\ m.at = 0 => place' = place
      /\ act = "stay" => place' = place
  BY <1>1, TreatingMoves
<1>5. act = "stay" \/ (act = "next" /\ m.at = 0) \/ (c.async = "IDLE" /\ pc \notin FunctionPcs)
  BY <1>1, <1>3 DEF Ignored, Steady
<1> QED BY <1>3, <1>4, <1>5

\* Any message the parser treats keeps the invariant.
LEMMA OnceTreated ==
  ASSUME IInv, IInv', OnceInv, NEW m, NEW act, NEW failed, Treating(m, act, failed), seen' = seen, Steady',
         m.at # 0 /\ c.async = "BUSY" => Proper(c', m, act, failed) /\ pc \notin FunctionPcs
  PROVE  OrderInv' /\ DoneInv' /\ OpenInv' /\ CopyResultInv'
<1>1. CASE m.at # 0 /\ c.async = "BUSY"
  <2>1. Asking(m, act, failed)
    BY <1>1 DEF Asking
  <2> QED BY <2>1, OnceAsked
<1>2. CASE m.at = 0 \/ c.async # "BUSY"
  <2>1. Ignored(c', m, act) /\ place' = place
    BY <1>2, TreatedIgnored
  <2>2. Steady /\ c'.pversion = c.pversion
    BY SteadyBefore
  <2>3. /\ UNCHANGED <<program, sent, delivered>> /\ hurt \subseteq hurt'
        /\ (pc \in FunctionPcs <=> pc' \in FunctionPcs)
    BY DEF Treating
  <2>4. OrderInv /\ DoneInv /\ OpenInv /\ CopyResultInv
    BY <2>2 DEF OnceInv
  <2>5. KeepsResult(c') /\ c'.async = c.async
    BY <2>1 DEF Ignored
  <2> QED BY <2>1, <2>2, <2>3, <2>4, <2>5, OnceStill
<1> QED BY <1>1, <1>2

\* One turn of the loop of parseInput.
LEMMA OnceParsed ==
  ASSUME IInv, IInv', OnceInv, ParseMessage
  PROVE  OnceInv'
<1>1. TypeOK /\ StreamInv /\ in # <<>> /\ pc \in {"parse", "poll"} /\ pc \notin FunctionPcs
  BY DEF IInv, ParseMessage, FunctionPcs
<1>2. PICK o \in parseInput(Head(in)) :
        /\ Treated(o, Head(in))
        /\ pc' = IF o.act = "next" THEN pc ELSE IF pc = "poll" THEN "user" ELSE "parsed"
  BY DEF ParseMessage
<1>3. o.act \in Acts /\ o.failed \in BOOLEAN /\ ParseKind(o, Head(in))
  BY <1>1, ParserKinds
<1>4. PICK m \in Messages : m = Head(in) /\ m.stmt \in Nat
  BY <1>1, HeadKinds
<1>5. /\ InputAfter(o.act) /\ c' = o.c
      /\ hurt' = IF o.failed THEN hurt \union {m.stmt} ELSE hurt
  BY <1>2, <1>4 DEF Treated
<1>6. UNCHANGED <<program, sent, script, alive, delivered, got, copied>> /\ seen' = seen
  BY DEF ParseMessage, serverVars
<1>7. pc' \in Pcs /\ pc' \notin FunctionPcs
  BY <1>1, <1>2 DEF Pcs, FunctionPcs
<1>8. hurt \subseteq hurt' /\ hurt' \in SUBSET Nat /\ (o.failed => m.stmt \in hurt')
  BY <1>1, <1>3, <1>4, <1>5 DEF TypeOK
<1>9. Kind(c', m, o.act, o.failed)
  BY <1>3, <1>4, <1>5 DEF ParseKind
<1>10. Treating(m, o.act, o.failed)
  BY <1>1, <1>3, <1>4, <1>5, <1>6, <1>7, <1>8, <1>9 DEF Treating
<1>11. SUFFICES ASSUME Steady' PROVE OrderInv' /\ DoneInv' /\ OpenInv' /\ CopyResultInv' /\ UserInv'
  BY DEF OnceInv
<1>12. ASSUME m.at # 0, c.async = "BUSY" PROVE Proper(c', m, o.act, o.failed)
  <2>1. m.form # "huge"
    <3>1. SUFFICES ASSUME m.form = "huge" PROVE FALSE
      OBVIOUS
    <3>2. c.pversion = 3
      <4>1. c.pversion # 2
        BY <1>1, <1>4, <3>1, HeadKinds
      <4> QED BY <1>1, <4>1, ProgramAnswered
    <3>3. o = V3!handleSyncLoss(c, m)
      BY <1>4, <3>1, <3>2, HandlerFacts DEF V3!pqParseInput3
    <3>4. ~o.c.ok
      BY <1>1, <1>4, <3>1, <3>2, <3>3, LossKind DEF IInv
    <3> QED BY <1>5, <1>11, <3>4 DEF Steady
  <2> QED BY <1>1, <1>4, <1>5, <1>12, <2>1, ParserProper
<1>13. OrderInv' /\ DoneInv' /\ OpenInv' /\ CopyResultInv'
  BY <1>1, <1>6, <1>10, <1>11, <1>12, OnceTreated
<1>14. UserInv'
  <2>1. Steady
    BY <1>10, <1>11, SteadyBefore
  <2>2. pc' \in {"user", "poll"} => pc = "poll"
    BY <1>1, <1>2
  <2>3. c.async = "IDLE" => c'.async = "IDLE"
    <3>1. c.async = "IDLE" => Ignored(c', m, o.act)
      BY <1>10, <1>11, TreatedIgnored
    <3> QED BY <3>1 DEF Ignored
  <2>4. UserInv
    BY <2>1 DEF OnceInv
  <2> QED BY <1>6, <2>2, <2>3, <2>4 DEF UserInv
<1> QED BY <1>13, <1>14

-----------------------------------------------------------------------------
(* Steps that end no statement. *)

\* The steps that only read from the socket, wait or return.
LEMMA OnceQuiet ==
  ASSUME IInv, OnceInv,
         \/ GetResultReads \/ Poll \/ CopyReads \/ FunctionReads \/ PQgetResult \/ GetResultWaits
         \/ GetResultIdle \/ ServerInterjects \/ ServerDies \/ UNCHANGED vars
  PROVE  OnceInv'
<1>1. c' = c /\ UNCHANGED <<program, sent, place, delivered, hurt>>
  BY DEF GetResultReads, Poll, CopyReads, FunctionReads, PQgetResult, GetResultWaits, GetResultIdle, ServerInterjects,
         ServerDies, vars, history, connVars
<1>2. pc' \in FunctionPcs <=> pc \in FunctionPcs
  BY DEF GetResultReads, Poll, CopyReads, FunctionReads, PQgetResult, GetResultWaits, GetResultIdle, ServerInterjects,
         ServerDies, vars, FunctionPcs
<1>3. seen' = seen \/ (seen' = NULL /\ c.async = "IDLE")
  BY DEF GetResultReads, Poll, CopyReads, FunctionReads, PQgetResult, GetResultWaits, GetResultIdle, ServerInterjects,
         ServerDies, vars
<1>4. pc' \in {"user", "poll"} => pc \in {"user", "poll"} \/ c.async = "IDLE"
  BY DEF GetResultReads, Poll, CopyReads, FunctionReads, PQgetResult, GetResultWaits, GetResultIdle, ServerInterjects,
         ServerDies, vars
<1>5. SUFFICES ASSUME Steady' PROVE OrderInv' /\ DoneInv' /\ OpenInv' /\ CopyResultInv' /\ UserInv'
  BY DEF OnceInv
<1>6. OrderInv /\ DoneInv /\ OpenInv /\ CopyResultInv /\ UserInv
  BY <1>1, <1>5 DEF OnceInv, Steady, OutOfStep
<1>7. NULL \notin CopyStates
  BY NullAssumption DEF CopyStates, Statuses
<1>8. OrderInv' /\ DoneInv' /\ OpenInv' /\ CopyResultInv'
  BY <1>1, <1>2, <1>3, <1>6, <1>7, OnceStill DEF KeepsResult
<1>9. UserInv'
  BY <1>1, <1>3, <1>4, <1>6 DEF UserInv
<1> QED BY <1>8, <1>9

\* What a copy call does.
LEMMA OnceCopying ==
  ASSUME TypeOK, OrderInv, DoneInv, OpenInv, CopyResultInv, UNCHANGED <<program, sent, delivered>>,
         place' \in Nat, place <= place', \A s : Done(s)' <=> Done(s), hurt \subseteq hurt',
         c'.pversion = c.pversion, KeepsResult(c'), c.async \in CopyStates, c'.async \in CopyStates \union {"BUSY"},
         seen \in CopyStates, seen' # NULL, pc \notin FunctionPcs, pc' \notin FunctionPcs
  PROVE  OrderInv' /\ DoneInv' /\ OpenInv' /\ CopyResultInv' /\ UserInv'
<1>1. Ms' = Ms /\ Class' = Class /\ place \in Nat
  BY MsFacts DEF Ms, Class
<1>2. Filling' = Filling /\ (RowWaits' <=> RowWaits)
  BY DEF Filling, RowWaits, KeepsResult
<1>3. ~Waiting /\ ~Waiting'
  BY DEF Waiting, CopyStates
<1>4. OrderInv' /\ DoneInv'
  BY <1>3, OnceSame
<1>5. \A s : Open(s) => Open(s)'
  BY <1>1, OpenStays DEF Open
<1>p. \A k \in 1..place : k \in 1..place'
  <2>1. PICK q \in Nat : q = place'
    OBVIOUS
  <2> QED BY <1>1, <2>1
<1>6. OpenInv'
  <2>1. c.async \notin {"READY", "IDLE"} /\ c'.async \notin {"READY", "IDLE"}
    BY DEF CopyStates
  <2>2. PICK r : r = Filling
    OBVIOUS
  <2>3. r # NULL => /\ r.stmt # 0
                    /\ IF Class = "DESCRIBE" THEN \E j \in 1..place : Ms[j].stmt = r.stmt ELSE Open(r.stmt)
    BY <2>1, <2>2 DEF OpenInv
  <2>4. r # NULL => /\ r.stmt # 0
                    /\ IF Class = "DESCRIBE" THEN \E j \in 1..place' : Ms[j].stmt = r.stmt ELSE Open(r.stmt)'
    <3> HIDE DEF Ms, Class
    <3> QED BY <1>5, <1>p, <2>3
  <2> HIDE DEF Ms, Class
  <2> QED BY <1>1, <1>2, <2>2, <2>4 DEF OpenInv
<1>7. CopyResultInv'
  <2>1. PICK h \in 1..place : Ms[h].id \in CopyStarts /\ ~Done(Ms[h].stmt)
    BY DEF CopyResultInv, CopyStarted
  <2>2. PICK s : s = Ms[h].stmt
    OBVIOUS
  <2>3. ~Done(s)'
    BY <2>1, <2>2
  <2> HIDE DEF Ms
  <2>4. CopyStarted'
    BY <1>1, <1>p, <2>1, <2>2, <2>3 DEF CopyStarted
  <2> QED BY <2>4 DEF CopyResultInv, KeepsResult
<1>8. UserInv'
  BY DEF UserInv
<1> QED BY <1>4, <1>6, <1>7, <1>8
\* PQgetCopyData hands over a message, PQgetlineAsync a piece of LineBuf.
LEMMA CopyDataHands ==
  ASSUME IInv, PQgetCopyData \/ PQgetlineAsync
  PROVE  \E m, n, act : Handing(m, n, act)
<1>1. TypeOK /\ PieceInv /\ StreamInv /\ c \in Connections /\ c.copy_already_done \in Nat
  BY DEF IInv, CopyInv, TypeOK, Connections
<1>2. pc = "user" /\ c.async \in CopyOutStates /\ DataThere
  BY DEF PQgetCopyData, PQgetlineAsync, ReadsCopy, CopyOutStates
<1>3. PICK m \in Messages : m = Head(in) /\ m.n \in Nat
  BY <1>1, <1>2, HeadKinds DEF DataThere
<1>4. CASE PQgetCopyData
  <2>1. /\ InputAfter("next") /\ HandOver(m.n) /\ c' = c /\ c.copy_already_done = 0
        /\ UNCHANGED <<program, sent, script, alive, pc, delivered, copied, hurt>>
    BY <1>3, <1>4 DEF PQgetCopyData, InputAfter, serverVars
  <2>2. Same(c') /\ KeepsResult(c')
    BY <1>1, <2>1 DEF Same, KeepsResult
  <2>3. c.copy_already_done + m.n = m.n
    BY <1>3, <2>1
  <2>4. Handing(m, m.n, "next")
    BY <1>2, <1>3, <2>1, <2>2, <2>3 DEF Handing
  <2> QED BY <2>4
<1>5. CASE PQgetlineAsync
  <2> DEFINE avail == m.n - c.copy_already_done
             piece == IF avail <= LineBuf THEN avail ELSE LineBuf
  <2>1. /\ m.n > 0 /\ HandOver(piece) /\ UNCHANGED half
        /\ IF avail <= LineBuf THEN TakeMessage ELSE UNCHANGED <<in, place>>
        /\ c' = [c EXCEPT !.copy_already_done = IF avail <= LineBuf THEN 0 ELSE c.copy_already_done + piece]
        /\ UNCHANGED <<program, sent, script, alive, pc, delivered, copied, hurt>>
    BY <1>1, <1>3, <1>5 DEF PQgetlineAsync, serverVars, Connections
  <2>2. LineBuf \in Nat /\ LineBuf > 0 /\ avail \in Nat
    <3>1. c.copy_already_done <= m.n
      BY <1>1, <1>2, <1>3, <2>1 DEF PieceInv
    <3> QED BY <1>1, <1>3, <3>1, ProtocolAssumption
  <2>3. CASE avail <= LineBuf
    <3>1. InputAfter("next") /\ HandOver(avail) /\ c' = [c EXCEPT !.copy_already_done = 0]
      BY <2>1, <2>3 DEF InputAfter
    <3>2. c.copy_already_done + avail = m.n
      BY <1>1, <1>3, <2>2
    <3> HIDE DEF avail
    <3>3. Same(c') /\ KeepsResult(c') /\ c'.ok = c.ok /\ c'.async = c.async /\ c'.copy_already_done = 0
      BY <1>1, <3>1 DEF Same, KeepsResult, Connections
    <3>4. Handing(m, avail, "next")
      BY <1>2, <1>3, <2>1, <2>2, <3>1, <3>2, <3>3 DEF Handing
    <3> QED BY <3>4
  <2>4. CASE ~(avail <= LineBuf)
    <3>1. /\ InputAfter("stay") /\ HandOver(LineBuf)
          /\ c' = [c EXCEPT !.copy_already_done = c.copy_already_done + LineBuf]
      BY <2>1, <2>4 DEF InputAfter
    <3>2. c.copy_already_done + LineBuf < m.n /\ c.copy_already_done + LineBuf \in Nat
      BY <1>1, <1>3, <2>2, <2>4
    <3> HIDE DEF avail, piece
    <3>3. /\ Same(c') /\ KeepsResult(c') /\ c'.ok = c.ok /\ c'.async = c.async
          /\ c'.copy_already_done = c.copy_already_done + LineBuf
      BY <1>1, <3>1, <3>2 DEF Same, KeepsResult, Connections
    <3>4. Handing(m, LineBuf, "stay")
      BY <1>2, <1>3, <2>1, <2>2, <3>1, <3>2, <3>3 DEF Handing
    <3> QED BY <3>4
  <2> QED BY <2>3, <2>4
<1> QED BY <1>4, <1>5

\* A message of the answer that completes nothing is passed.
LEMMA PassedInside ==
  ASSUME TypeOK, NEW m, m.at \in DOMAIN Ms, m = Ms[m.at], m.at > place, \A k \in place + 1..m.at - 1 : Ms[k].id = "end",
         UNCHANGED <<program, sent>>, place' = m.at \/ place' = place, ~Ending(m)
  PROVE  place' \in Nat /\ place <= place' /\ \A s : Done(s)' <=> Done(s)
<1>1. place \in Nat /\ DOMAIN Ms \subseteq Nat
  BY MsFacts DEF TypeOK
<1>2. PICK q \in DOMAIN Ms : q = m.at
  OBVIOUS
<1>3. CASE place' = q
  <2>1. \A s : Done(s)' <=> Done(s) \/ (Ending(Ms[q]) /\ Ms[q].stmt = s)
    BY <1>2, <1>3, DoneMoves
  <2> HIDE DEF Ms
  <2> QED BY <1>1, <1>2, <1>3, <2>1
<1>4. CASE place' = place
  <2>1. \A s : Done(s)' <=> Done(s)
    BY <1>4 DEF Done, Ending, Class, Ms
  <2> QED BY <1>1, <1>4, <2>1
<1> QED BY <1>2, <1>3, <1>4

\* PQgetCopyData and PQgetlineAsync take a piece of data.
LEMMA OnceData ==
  ASSUME IInv, OnceInv, PQgetCopyData \/ PQgetlineAsync
  PROVE  OnceInv'
<1>1. PICK m, n, act : Handing(m, n, act)
  BY CopyDataHands
<1>2. /\ c.async \in CopyOutStates /\ DataThere /\ m = Head(in) /\ UNCHANGED <<program, sent, delivered, hurt>>
      /\ c'.async = c.async /\ c'.ok = c.ok /\ c'.pversion = c.pversion /\ KeepsResult(c') /\ pc = "user" /\ pc' = "user"
      /\ act \in {"next", "stay"} /\ IsData(m)
  BY <1>1 DEF Handing, Same, DataThere
<1>3. seen \in CopyStates /\ seen' = seen
  BY DEF PQgetCopyData, PQgetlineAsync, ReadsCopy, CopyStates
<1>4. place' = m.at \/ place' = place
  BY <1>1, <1>2, HandingMoves
<1>5. /\ m.at \in DOMAIN Ms /\ m = Ms[m.at] /\ m.at > place
      /\ \A k \in place + 1..m.at - 1 : Ms[k].id = "end"
  BY <1>2, DataAtHead
<1>6. ~Ending(m)
  BY <1>2 DEF Ending, IsData, DataIds, CompletingIds
<1>7. TypeOK
  BY DEF IInv
<1>8. place' \in Nat /\ place <= place' /\ \A s : Done(s)' <=> Done(s)
  BY <1>2, <1>4, <1>5, <1>6, <1>7, PassedInside
<1>9. SUFFICES ASSUME Steady' PROVE OrderInv' /\ DoneInv' /\ OpenInv' /\ CopyResultInv' /\ UserInv'
  BY DEF OnceInv
<1>10. OrderInv /\ DoneInv /\ OpenInv /\ CopyResultInv
  BY <1>2, <1>9 DEF OnceInv, Steady, OutOfStep
<1>11. seen' # NULL
  BY <1>3, NullAssumption DEF CopyStates, Statuses
<1>12. pc \notin FunctionPcs /\ pc' \notin FunctionPcs /\ c.async \in CopyStates
  BY <1>2 DEF FunctionPcs, CopyOutStates, CopyStates
<1> QED BY <1>2, <1>3, <1>7, <1>8, <1>10, <1>11, <1>12, OnceCopying

\* The caller ends a copy.
LEMMA OnceCopyEnd ==
  ASSUME IInv, OnceInv, PQputCopyEnd \/ PQendcopy
  PROVE  OnceInv'
<1>1. TypeOK /\ c \in Connections /\ place \in Nat
  BY MsFacts DEF IInv, TypeOK
<1>2. /\ pc = "user" /\ pc' \in {"user", "parse"} /\ c.async \in CopyStates /\ seen \in CopyStates
      /\ seen' \in {seen, "COMMAND_OK"} /\ UNCHANGED <<program, sent, place, delivered, hurt>>
  BY DEF PQputCopyEnd, PQendcopy, CopyStates, history
<1>3. PICK a \in {"COPY_OUT", "BUSY"} : c' = [c EXCEPT !.async = a]
  BY DEF PQputCopyEnd, PQendcopy
<1>4. c'.async = a /\ c'.ok = c.ok /\ c'.pversion = c.pversion /\ KeepsResult(c')
  BY <1>1, <1>3 DEF Connections, KeepsResult
<1>5. \A s : Done(s)' <=> Done(s)
  BY <1>2 DEF Done, Ending, Class, Ms
<1>6. SUFFICES ASSUME Steady' PROVE OrderInv' /\ DoneInv' /\ OpenInv' /\ CopyResultInv' /\ UserInv'
  BY DEF OnceInv
<1>7. OrderInv /\ DoneInv /\ OpenInv /\ CopyResultInv
  BY <1>2, <1>4, <1>6 DEF OnceInv, Steady, OutOfStep
<1>8. seen' # NULL
  BY <1>2, NullAssumption DEF CopyStates, Statuses
<1>9. pc \notin FunctionPcs /\ pc' \notin FunctionPcs /\ c'.async \in CopyStates \union {"BUSY"}
  BY <1>2, <1>4 DEF FunctionPcs, CopyStates
<1>10. place' \in Nat /\ place <= place'
  BY <1>1, <1>2
<1> QED BY <1>1, <1>2, <1>4, <1>5, <1>7, <1>8, <1>9, <1>10, OnceCopying

\* What comes behind the lines of protocol 2.0 is their end.
LEMMA CopyLineEnds ==
  ASSUME IInv, c.pversion = 2, c.async \in CopyOutStates, in # <<>>, ~DataThere, NEW m \in Messages, m = Head(in)
  PROVE  m.id = "." /\ m.at # 0 /\ ~IsData(m)
<1>1. TypeOK /\ StreamInv /\ ConnInv /\ CopyingInv
  BY DEF IInv, CopyInv
<1>2. ~IsData(m) /\ m.form = "ok"
  BY <1>1, HeadKinds DEF DataThere
<1>3. c.async = "COPY_OUT" /\ c.ok
  BY <1>1 DEF ConnInv, CopyOutStates
<1>4. place > 0 /\ InLines(Ms[place])
  BY <1>1, <1>3 DEF CopyingInv
<1>5. Stream # <<>> /\ Stream[1] = m
  <2>1. 1 \in 1..Len(in) /\ Head(in) = in[1]
    BY <1>1 DEF TypeOK
  <2>2. Stream[1] = in[1] /\ Len(Stream) > 0
    BY <1>1, <2>1, StreamTypes
  <2> HIDE DEF Stream
  <2> QED BY <2>1, <2>2
<1>6. m.id \in LineIds
  <2> HIDE DEF Stream, Ms
  <2> QED BY <1>1, <1>4, <1>5 DEF StreamInv, Unbroken
<1>7. m.id = "."
  BY <1>2, <1>6 DEF LineIds, IsData, DataIds
<1> QED BY <1>1, <1>2, <1>7, HeadKinds

\* A copy call meets a message that is no data.
LEMMA OnceCopyOther ==
  ASSUME IInv, OnceInv, CopyOther
  PROVE  OnceInv'
<1>1. TypeOK /\ StreamInv /\ ConnInv /\ CopyingInv /\ c \in Connections /\ NULL \notin CopyStates
  BY NullAssumption DEF IInv, CopyInv, TypeOK, CopyStates, Statuses
<1>2. /\ pc = "user" /\ pc' = "user" /\ c.async \in CopyOutStates /\ in # <<>> /\ ~DataThere
      /\ seen \in CopyStates /\ seen' = seen
      /\ UNCHANGED <<program, sent, script, alive, delivered, got>>
  BY DEF CopyOther, ReadsCopy, CopyOutStates, CopyStates, serverVars
<1>3. PICK m \in Messages : m = Head(in) /\ m.stmt \in Nat /\ m.form \in {"ok", "bad", "short", "huge"}
  BY <1>1, <1>2, HeadKinds
<1>4. PICK o \in CopyMessage(m) :
        /\ Treated(o, m)
        /\ copied' = IF o.act # "lost" /\ o.c.async # c.async
                     THEN copied \union {program[sent].messages[place].stmt} ELSE copied
  BY <1>3 DEF CopyOther
<1>5. InputAfter(o.act) /\ c' = o.c /\ hurt' = IF o.failed THEN hurt \union {m.stmt} ELSE hurt
  BY <1>4 DEF Treated
<1>6. c.pversion \in {2, 3} /\ pc \notin FunctionPcs /\ pc' \notin FunctionPcs /\ c.async \in CopyStates /\ c.async # "BUSY"
  BY <1>1, <1>2, ProgramAnswered DEF FunctionPcs, CopyOutStates, CopyStates
<1>7. SUFFICES ASSUME Steady' PROVE OrderInv' /\ DoneInv' /\ OpenInv' /\ CopyResultInv' /\ UserInv'
  BY DEF OnceInv
<1>8. ASSUME o.act \in Acts, o.failed \in BOOLEAN, Kind(c', m, o.act, o.failed), c'.async = c.async
      PROVE  OrderInv' /\ DoneInv' /\ OpenInv' /\ CopyResultInv' /\ UserInv'
  <2>1. copied' = copied
    BY <1>4, <1>5, <1>8
  <2>2. hurt \subseteq hurt' /\ hurt' \in SUBSET Nat /\ (o.failed => m.stmt \in hurt')
    BY <1>1, <1>3, <1>5, <1>8 DEF TypeOK
  <2>3. pc' \in Pcs
    BY <1>2 DEF Pcs
  <2>4. Treating(m, o.act, o.failed)
    BY <1>2, <1>3, <1>5, <1>6, <1>8, <2>1, <2>2, <2>3 DEF Treating
  <2>5. Ignored(c', m, o.act) /\ place' = place
    BY <1>6, <1>7, <2>4, TreatedIgnored
  <2>6. Steady /\ c'.pversion = c.pversion
    BY <1>7, <2>4, SteadyBefore
  <2>7. OrderInv /\ DoneInv /\ OpenInv /\ CopyResultInv /\ KeepsResult(c')
    BY <2>5, <2>6 DEF OnceInv, Ignored
  <2>8. OrderInv' /\ DoneInv' /\ OpenInv' /\ CopyResultInv'
    BY <1>2, <1>6, <1>8, <2>2, <2>5, <2>6, <2>7, OnceStill
  <2> QED BY <1>1, <1>2, <2>8 DEF UserInv
<1>9. ASSUME NEW act, CopyEnds(m, act), c'.pversion = c.pversion, c'.ok = c.ok, KeepsResult(c'),
             c'.async \in {"BUSY", "COPY_IN"}, act = "next" => m.id = ".", act \in {"next", "stay"}
      PROVE  OrderInv' /\ DoneInv' /\ OpenInv' /\ CopyResultInv' /\ UserInv'
  <2>1. m.at # 0 /\ InputAfter(act) /\ hurt' = hurt
    BY <1>9 DEF CopyEnds
  <2>2. /\ m.at \in DOMAIN Ms /\ m = Ms[m.at] /\ m.at > place
        /\ \A k \in place + 1..m.at - 1 : Ms[k].id = "end"
    BY <1>1, <1>2, <1>3, <2>1, HeadKinds, HeadFacts
  <2>3. /\ act = "next" => place' = m.at
        /\ act = "stay" => place' = place
    <3>1. act \in Acts
      BY <1>9 DEF Acts
    <3> QED BY <1>1, <1>2, <1>3, <1>9, <2>1, <3>1, InputMoves
  <2>4. act = "next" => ~Ending(m)
    BY <1>9 DEF Ending, CompletingIds
  <2>5. place' \in Nat /\ place <= place' /\ \A s : Done(s)' <=> Done(s)
    <3>1. CASE act = "next"
      BY <1>1, <1>2, <2>2, <2>3, <2>4, <3>1, PassedInside
    <3>2. CASE act = "stay"
      <4>1. \A s : Done(s)' <=> Done(s)
        BY <1>2, <2>3, <3>2 DEF Done, Ending, Class, Ms
      <4> QED BY <1>1, <2>3, <3>2, <4>1, MsFacts DEF TypeOK
    <3> QED BY <1>9, <3>1, <3>2
  <2>6. OrderInv /\ DoneInv /\ OpenInv /\ CopyResultInv
    BY <1>7, <1>9, <2>1 DEF OnceInv, Steady, OutOfStep
  <2>7. c'.async \in CopyStates \union {"BUSY"}
    BY <1>9 DEF CopyStates
  <2> QED BY <1>1, <1>2, <1>6, <1>9, <2>1, <2>5, <2>6, <2>7, OnceCopying
<1>10. CASE c.pversion = 3 /\ m.form = "huge"
  <2>1. o = V3!handleSyncLoss(c, m)
    BY <1>4, <1>10 DEF CopyMessage, V3!CopyMessage3
  <2>2. ~o.c.ok
    BY <1>1, <1>10, <2>1, LossKind
  <2> QED BY <1>5, <1>7, <2>2 DEF Steady
<1>11. CASE c.pversion = 3 /\ m.form # "huge" /\ m.id \in {"A", "N", "S"}
  <2>1. o \in V3!getNotify(c) \/ o = V3!Took(c)
    BY <1>4, <1>11 DEF CopyMessage, V3!CopyMessage3
  <2>2. o.act \in {"next", "stay"} /\ o.failed \in BOOLEAN /\ Ignored(o.c, m, o.act)
    BY <1>1, <1>2, <1>3, <1>11, <2>1, UnaskedKinds3
  <2>3. o.c.async = c.async
    BY <2>2 DEF Ignored
  <2> QED BY <1>5, <1>8, <2>2, <2>3 DEF Kind, Acts
<1>12. CASE c.pversion = 3 /\ m.form # "huge" /\ m.id \notin {"A", "N", "S"}
  <2>1. PICK a \in {"BUSY", "COPY_IN"} : o = [c |-> [c EXCEPT !.async = a], act |-> "stay", failed |-> FALSE]
    BY <1>4, <1>12 DEF CopyMessage, V3!CopyMessage3, V3!Stays, V3!Outcome
  <2>2. o.c = [c EXCEPT !.async = a] /\ o.act = "stay" /\ o.failed = FALSE
    BY <2>1
  <2>3. o.c.async # c.async /\ c'.async = a /\ c'.ok = c.ok /\ c'.pversion = c.pversion /\ KeepsResult(c')
    BY <1>1, <1>2, <1>5, <2>2 DEF Connections, CopyOutStates, KeepsResult
  <2>4. m.at # 0 /\ ~IsData(m)
    BY <1>1, <1>2, <1>3, <1>12, HeadKinds DEF DataThere
  <2>5. CopyEnds(m, "stay")
    BY <1>2, <1>3, <1>4, <1>5, <1>12, <2>2, <2>3, <2>4 DEF CopyEnds
  <2> QED BY <1>9, <2>3, <2>5
<1>13. CASE c.pversion = 2
  <2>1. o = [c |-> [c EXCEPT !.async = "BUSY"], act |-> "next", failed |-> FALSE]
    BY <1>4, <1>13 DEF CopyMessage, V2!CopyEnds2, V2!Took, V2!Outcome
  <2>2. o.c = [c EXCEPT !.async = "BUSY"] /\ o.act = "next" /\ o.failed = FALSE
    BY <2>1
  <2>3. o.c.async # c.async /\ c'.async = "BUSY" /\ c'.ok = c.ok /\ c'.pversion = c.pversion /\ KeepsResult(c')
    BY <1>1, <1>2, <1>5, <2>2 DEF Connections, CopyOutStates, KeepsResult
  <2>4. m.id = "." /\ m.at # 0 /\ ~IsData(m)
    BY <1>1, <1>2, <1>3, <1>13, CopyLineEnds
  <2>5. CopyEnds(m, "next")
    BY <1>2, <1>3, <1>4, <1>5, <1>13, <2>2, <2>3, <2>4 DEF CopyEnds
  <2> QED BY <1>9, <2>3, <2>4, <2>5
<1> QED BY <1>6, <1>10, <1>11, <1>12, <1>13

-----------------------------------------------------------------------------
(* Results are handed out. *)

\* PQgetResult hands out a result that is ready,
LEMMA OnceReady ==
  ASSUME IInv, OnceInv, GetResultReady
  PROVE  OnceInv'
<1>1. TypeOK /\ ConnInv /\ c \in Connections /\ NULL \notin Results \union Statuses
  BY NullAssumption DEF IInv, TypeOK
<1> DEFINE e == pqPrepareAsyncResult(c)
<1>2. /\ c.async = "READY" /\ pc = "parsed" /\ Deliver(Prepared(c)) /\ c' = [e EXCEPT !.async = "BUSY"] /\ pc' = "user"
      /\ UNCHANGED <<program, sent, place, hurt>>
  BY DEF GetResultReady, serverVars
<1>3. /\ e \in Connections /\ e.result = c.next_result /\ e.next_result = NULL /\ e.pversion = c.pversion /\ e.ok = c.ok
  BY <1>1, PreparedFacts
<1> HIDE DEF e
<1>4. /\ c'.result = c.next_result /\ c'.next_result = NULL
      /\ c'.pversion = c.pversion /\ c'.ok = c.ok /\ c'.async = "BUSY"
  BY <1>2, <1>3 DEF Connections, AsyncStates
<1>5. PICK r \in Results : /\ r = Prepared(c) /\ (c.result # NULL => r = c.result)
                           /\ c.result = NULL => r.status = "FATAL_ERROR" /\ r.stmt = 0
  BY <1>1, PreparedFacts DEF Is
<1>6. delivered' = Append(delivered, r) /\ seen' = r.status /\ seen' # NULL
  BY <1>1, <1>2, <1>5 DEF Deliver, Results
<1>7. SUFFICES ASSUME Steady' PROVE OrderInv' /\ DoneInv' /\ OpenInv' /\ CopyResultInv' /\ UserInv'
  BY DEF OnceInv
<1>8. OrderInv /\ DoneInv /\ OpenInv /\ CopyResultInv
  BY <1>2, <1>4, <1>7 DEF OnceInv, Steady, OutOfStep
<1>9. /\ Waiting => r = c.result
      /\ Closes(r) => Waiting
      /\ ~Waiting'
  BY <1>2, <1>4, <1>5 DEF Waiting, Closes, FunctionPcs
<1>10. \A s : Done(s)' <=> Done(s)
  BY <1>2 DEF Done, Ending, Class, Ms
<1>11. OrderInv' /\ DoneInv'
  BY <1>1, <1>2, <1>4, <1>5, <1>6, <1>8, <1>9, <1>10, OnceHanded
<1>12. /\ ~RowWaits' /\ Filling' = c.next_result
       /\ RowWaits => Filling = c.next_result /\ Is(c.next_result, "TUPLES_OK")
       /\ ~RowWaits => c.next_result = NULL
  BY <1>1, <1>4 DEF RowWaits, Filling, ConnInv, Is
<1>13. OpenInv'
  <2>1. PICK f : f = c.next_result
    OBVIOUS
  <2>2. f # NULL => /\ f.stmt # 0
                    /\ IF Class = "DESCRIBE" THEN \E j \in 1..place : Ms[j].stmt = f.stmt ELSE Open(f.stmt)
    BY <1>8, <1>12, <2>1 DEF OpenInv
  <2>3. Ms' = Ms /\ Class' = Class /\ \A s : Open(s)' <=> Open(s)
    BY <1>2, <1>10 DEF Open, Class, Ms
  <2>4. Filling' = f
    BY <1>12, <2>1
  <2> HIDE DEF Ms, Class
  <2> QED BY <1>2, <2>2, <2>3, <2>4 DEF OpenInv
<1>14. CopyResultInv'
  <2>1. seen' \notin CopyStates
    BY <1>2, <1>5, <1>6, <1>8 DEF CopyResultInv, CopyStates
  <2>2. c'.result = NULL \/ c'.result.status = "TUPLES_OK"
    BY <1>4, <1>12 DEF Is
  <2> QED BY <1>4, <2>1, <2>2 DEF CopyResultInv, CopyStates
<1>15. UserInv'
  BY <1>6 DEF UserInv
<1> QED BY <1>11, <1>13, <1>14, <1>15

\* or the start of a copy.
LEMMA OnceCopyResult ==
  ASSUME IInv, OnceInv, GetCopyResult
  PROVE  OnceInv'
<1>1. TypeOK /\ ConnInv /\ c \in Connections /\ NULL \notin Results \union Statuses
  BY NullAssumption DEF IInv, TypeOK
<1>2. /\ c.async \in CopyStates /\ c.async # "READY" /\ pc = "parsed" /\ pc' = "user" /\ UNCHANGED <<program, sent, place, hurt>>
  BY DEF GetCopyResult, CopyStates
<1>3. SUFFICES ASSUME Steady' PROVE OrderInv' /\ DoneInv' /\ OpenInv' /\ CopyResultInv' /\ UserInv'
  BY DEF OnceInv
<1>4. c.ok
  <2>1. SUFFICES ASSUME ~c.ok PROVE ~c'.ok
    BY <1>3 DEF Steady
  <2> DEFINE d == pqSaveErrorResult(c, 0)
             f == [d EXCEPT !.async = "IDLE"]
  <2>2. c' = pqPrepareAsyncResult(f)
    BY <2>1 DEF GetCopyResult
  <2>3. d \in Connections /\ d.ok = c.ok
    BY <1>1, SaveError
  <2> HIDE DEF d
  <2>4. f \in Connections /\ f.ok = c.ok
    BY <2>3 DEF Connections, AsyncStates
  <2> HIDE DEF f
  <2> QED BY <2>1, <2>2, <2>4, PreparedFacts
<1> DEFINE there == c.result # NULL /\ c.result.status = c.async
           r == IF there THEN Prepared(c) ELSE NewResult(c.async, 0)
<1>5. Deliver(r) /\ c' = IF there THEN pqPrepareAsyncResult(c) ELSE c
  BY <1>4 DEF GetCopyResult
<1>6. r \in Results /\ r.status = c.async
  BY <1>1, <1>2, PreparedFacts DEF NewResult, Results, Statuses, CopyStates
<1> HIDE DEF r
<1>7. c.next_result = NULL /\ ~RowWaits
  BY <1>1, <1>2, BusyResult
<1>8. /\ c'.pversion = c.pversion /\ c'.ok = c.ok /\ c'.async = c.async /\ c'.next_result = NULL
      /\ c'.result = IF there THEN NULL ELSE c.result
  <2>1. PICK e \in Connections :
          /\ e = pqPrepareAsyncResult(c) /\ e.result = c.next_result /\ e.next_result = NULL
          /\ e.pversion = c.pversion /\ e.async = c.async /\ e.ok = c.ok
    BY <1>1, PreparedFacts
  <2> QED BY <1>5, <1>7, <2>1
<1>9. OrderInv /\ DoneInv /\ OpenInv /\ CopyResultInv
  BY <1>2, <1>3, <1>8 DEF OnceInv, Steady, OutOfStep
<1>10. ~Waiting /\ ~Waiting' /\ ~Closes(r)
  BY <1>2, <1>6, <1>8 DEF Waiting, FunctionPcs, Closes
<1>11. \A s : Done(s)' <=> Done(s)
  BY <1>2 DEF Done, Ending, Class, Ms
<1>12. delivered' = Append(delivered, r) /\ seen' = c.async
  BY <1>5, <1>6 DEF Deliver
<1>13. OrderInv' /\ DoneInv'
  BY <1>1, <1>2, <1>6, <1>8, <1>9, <1>10, <1>11, <1>12, OnceHanded
<1>14. OpenInv'
  <2>1. /\ Filling = c.result /\ ~RowWaits' /\ Filling' = IF there THEN NULL ELSE c.result
    BY <1>7, <1>8 DEF Filling, RowWaits, Is
  <2>2. Ms' = Ms /\ Class' = Class /\ \A s : Open(s)' <=> Open(s)
    BY <1>2, <1>11 DEF Open, Class, Ms
  <2>3. PICK f : f = c.result
    OBVIOUS
  <2>4. c.async # "IDLE"
    BY <1>2 DEF CopyStates
  <2>5. f # NULL => /\ f.stmt # 0
                    /\ IF Class = "DESCRIBE" THEN \E j \in 1..place : Ms[j].stmt = f.stmt ELSE Open(f.stmt)
    BY <1>2, <1>9, <2>1, <2>3, <2>4 DEF OpenInv
  <2>6. Filling' = NULL \/ Filling' = f
    BY <2>1, <2>3
  <2> HIDE DEF Ms, Class
  <2> QED BY <1>2, <2>2, <2>5, <2>6 DEF OpenInv
<1>15. CopyResultInv'
  <2>1. CopyStarted' <=> CopyStarted
    <3>1. Ms' = Ms
      BY <1>2 DEF Ms
    <3> HIDE DEF Ms
    <3> QED BY <1>2, <1>11, <3>1 DEF CopyStarted
  <2> QED BY <1>2, <1>8, <1>9, <2>1 DEF CopyResultInv
<1>16. UserInv'
  BY <1>1, <1>2, <1>12 DEF UserInv, CopyStates, Statuses
<1> QED BY <1>13, <1>14, <1>15, <1>16

\* A connection that is lost is not asked of.
LEMMA OnceLost ==
  ASSUME IInv, GetResultLost \/ CopyLost \/ FunctionLost
  PROVE  OnceInv'
<1>1. c \in Connections
  BY DEF IInv, TypeOK
<1> DEFINE d == pqSaveErrorResult(c, 0)
<1>2. d \in Connections
  BY <1>1, SaveError
<1>3. CASE GetResultLost
  <2> DEFINE f == [d EXCEPT !.async = "IDLE", !.ok = FALSE]
  <2>1. c' = pqPrepareAsyncResult(f)
    BY <1>3 DEF GetResultLost
  <2> HIDE DEF d
  <2>2. f \in Connections /\ ~f.ok
    BY <1>2 DEF Connections, AsyncStates
  <2> HIDE DEF f
  <2>3. ~c'.ok
    BY <2>1, <2>2, PreparedFacts
  <2> QED BY <2>3 DEF OnceInv, Steady
<1>4. CASE CopyLost
  BY <1>1, <1>4 DEF CopyLost, OnceInv, Steady, Connections
<1>5. CASE FunctionLost
  <2> DEFINE f == [d EXCEPT !.ok = FALSE]
  <2>1. c' = pqPrepareAsyncResult(f)
    BY <1>5 DEF FunctionLost, FunctionReturns
  <2> HIDE DEF d
  <2>2. f \in Connections /\ ~f.ok
    BY <1>2 DEF Connections
  <2> HIDE DEF f
  <2>3. ~c'.ok
    BY <2>1, <2>2, PreparedFacts
  <2> QED BY <2>3 DEF OnceInv, Steady
<1> QED BY <1>3, <1>4, <1>5

\* The message that is there in part.
LEMMA PartNext ==
  ASSUME TypeOK, StreamInv, in = <<>>, half, Head(script).id = "T"
  PROVE  \E q \in DOMAIN Ms : /\ q > place /\ Ms[q].id = "T"
                              /\ \A k \in place + 1..q - 1 : Ms[k].id = "end"
<1>1. place \in Nat /\ Len(Ms) \in Nat /\ script \in Seq(Messages) /\ c \in Connections
  BY MsFacts DEF TypeOK
<1>2. script # <<>> /\ Stream = script
  BY <1>1 DEF StreamInv, Stream
<1>3. 1 \in DOMAIN Stream /\ Stream[1].id = "T" /\ Continues(Stream, place, Ms, c.pversion) /\ Stream \in Seq(Messages)
  BY <1>1, <1>2 DEF StreamInv
<1>4. PICK s : s = Stream[1]
  OBVIOUS
<1> HIDE DEF Stream, Ms
<1>5. Fits(s, place, Ms, c.pversion) /\ Gapless(Stream, place, Ms, 1)
  BY <1>3, <1>4 DEF Continues
<1>6. s \notin UnaskedMessages(c.pversion)
  <2>1. c.pversion \in {2, 3}
    BY <1>1 DEF Connections
  <2> QED BY <1>3, <1>4, <2>1, UnaskedFacts
<1>7. s.at \in place + 1..Len(Ms) /\ s = Ms[s.at]
  BY <1>5, <1>6 DEF Fits
<1>8. \A k \in place + 1..s.at - 1 : Ms[k].id = "end"
  <2>1. 1..1 - 1 = {}
    OBVIOUS
  <2>2. s.at # 0
    BY <1>1, <1>7
  <2> QED BY <1>4, <1>5, <2>1, <2>2 DEF Gapless
<1>9. s.at \in DOMAIN Ms /\ s.at > place
  <2>1. Ms \in Seq(Messages)
    BY MsFacts DEF Placed
  <2>2. DOMAIN Ms = 1..Len(Ms)
    BY <2>1
  <2> QED BY <1>1, <1>7, <2>2
<1> QED BY <1>3, <1>4, <1>7, <1>8, <1>9

\* The parser finds no whole message; protocol 2.0 may see the type of the next one.
LEMMA OnceParseEnds ==
  ASSUME IInv, OnceInv, ParseEnds
  PROVE  OnceInv'
<1>1. TypeOK /\ StreamInv /\ ConnInv /\ c \in Connections
  BY DEF IInv, TypeOK
<1>2. /\ pc \in {"parse", "poll"} /\ pc' \notin FunctionPcs /\ pc \notin FunctionPcs /\ in = <<>>
      /\ (pc' \in {"user", "poll"} => pc = "poll") /\ seen' = seen
      /\ UNCHANGED <<program, sent, place, delivered, hurt>>
  BY DEF ParseEnds, history, FunctionPcs
<1> DEFINE seesEnd == /\ c.pversion = 2 /\ half /\ Head(script).id = "T" /\ c.async = "BUSY" /\ c.result # NULL
<1>3. c' = IF seesEnd THEN Ready(c) ELSE c
  BY DEF ParseEnds
<1>4. SUFFICES ASSUME Steady' PROVE OrderInv' /\ DoneInv' /\ OpenInv' /\ CopyResultInv' /\ UserInv'
  BY DEF OnceInv
<1>5. c'.ok = c.ok /\ c'.pversion = c.pversion
  BY <1>1, <1>3 DEF Ready, Connections
<1>6. OrderInv /\ DoneInv /\ OpenInv /\ CopyResultInv /\ UserInv
  BY <1>2, <1>4, <1>5 DEF OnceInv, Steady, OutOfStep
<1>7. CASE ~seesEnd
  <2>1. c' = c
    BY <1>3, <1>7
  <2>2. OrderInv' /\ DoneInv' /\ OpenInv' /\ CopyResultInv'
    BY <1>2, <1>6, <2>1, OnceStill DEF KeepsResult
  <2> QED BY <1>2, <1>6, <2>1, <2>2 DEF UserInv
<1>8. CASE seesEnd
  <2>1. PICK q \in DOMAIN Ms : q > place /\ Ms[q].id = "T" /\ \A k \in place + 1..q - 1 : Ms[k].id = "end"
    BY <1>1, <1>2, <1>8, PartNext
  <2>2. Filling = c.result
    BY <1>1, <1>8, BusyResult
  <2> DEFINE s == c.result.stmt
  <2>3. c.ok
    BY <1>4, <1>5 DEF Steady
  <2>4. Class # "DESCRIBE"
    <3>1. sent \in DOMAIN program
      <4>1. sent > 0
        BY <1>1, <2>1, AnswerShape
      <4> QED BY <1>1, <4>1, MsFacts
    <3>2. program[sent].class \in Classes(2)
      BY <1>1, <1>8, <3>1, AnswerFacts
    <3> QED BY <3>2 DEF Class, Classes
  <2>5. s # 0 /\ Open(s)
    BY <1>6, <1>8, <2>2, <2>4 DEF OpenInv
  <2>6. s \in Nat
    BY <1>1, <1>8, ResultTypes DEF Connections
  <2> HIDE DEF s, Ms
  <2>7. PICK j \in 1..place : ~Done(s) /\ Ms[j].stmt = s /\ Ms[j].id \notin PassiveIds(Class)
    BY <2>5 DEF Open
  <2>8. Ms[q].stmt = s
    BY <1>1, <2>1, <2>5, <2>6, <2>7, OpenIsAt
  <2>9. j \in 1..q - 1
    <3>1. q \in Nat /\ place \in Nat
      BY <1>1, MsFacts
    <3> QED BY <2>1, <3>1
  <2> QED BY <1>1, <2>1, <2>5, <2>7, <2>8, <2>9, StatementFacts
<1> QED BY <1>7, <1>8

-----------------------------------------------------------------------------
(* Queries are sent. *)

\* A query is only sent when all statements of the one before are done.
LEMMA AllDone ==
  ASSUME TypeOK, place = Len(Ms), NEW s, s # 0
  PROVE  Done(s) <=> sent > 0 /\ \E k \in DOMAIN program[sent].messages : program[sent].messages[k].stmt = s
<1>1. /\ sent > 0 => Ms = program[sent].messages
      /\ place > 0 => sent > 0
      /\ place \in Nat
  BY MsFacts
<1>2. ASSUME Done(s) PROVE sent > 0 /\ \E k \in DOMAIN Ms : Ms[k].stmt = s
  <2>1. PICK k \in 1..place : Ms[k].stmt = s
    BY <1>2 DEF Done
  <2>2. k \in DOMAIN Ms
    BY PlacesOf
  <2>3. place > 0
    BY <1>1, <2>1
  <2> HIDE DEF Ms
  <2> QED BY <1>1, <2>1, <2>2, <2>3
<1>3. ASSUME NEW k \in DOMAIN Ms, Ms[k].stmt = s PROVE Done(s)
  <2>1. PICK l \in k..Len(Ms) : Ms[l].stmt = Ms[k].stmt /\ Ending(Ms[l])
    BY <1>3, StatementFacts
  <2>2. k \in Nat /\ k >= 1
    BY AnswerShape
  <2>3. l \in 1..place
    BY <2>1, <2>2
  <2> HIDE DEF Ms
  <2> QED BY <1>3, <2>1, <2>3 DEF Done
<1> HIDE DEF Ms
<1> QED BY <1>1, <1>2, <1>3

\* A query is sent when every statement before it was answered.
LEMMA OnceQuery ==
  ASSUME IInv, OnceInv, PQsendQuery \/ PQfn
  PROVE  OnceInv'
<1>1. TypeOK /\ ConnInv /\ c \in Connections /\ c.async = "IDLE" /\ c.ok /\ NULL \notin CopyStates
  BY NullAssumption DEF IInv, TypeOK, PQsendQuery, PQfn, CopyStates, Statuses
<1>2. /\ pc = "user" /\ pc \notin FunctionPcs /\ sent' = sent + 1 /\ place' = 0 /\ seen = NULL /\ seen' = seen
      /\ UNCHANGED <<program, delivered, hurt>> /\ pc' \in {"parse", "function"} /\ pc' \notin {"user", "poll"}
  BY DEF PQsendQuery, PQfn, history, FunctionPcs
<1>3. c.next_result = NULL
  BY <1>1, BusyResult
<1>4. /\ c'.pversion = c.pversion /\ c'.ok = c.ok /\ c'.result = NULL /\ c'.next_result = NULL
      /\ c'.async \in {"IDLE", "BUSY"}
  <2>1. CASE PQsendQuery
    <3> DEFINE class == program[sent + 1].class
               single == program[sent + 1].single
    <3>1. c' = [pqClearAsyncResult(c) EXCEPT !.async = "BUSY", !.class = class, !.single = single]
      BY <2>1 DEF PQsendQuery
    <3> HIDE DEF class, single
    <3> QED BY <1>1, <3>1 DEF Connections, pqClearAsyncResult
  <2>2. CASE PQfn
    BY <1>1, <1>3, <2>2 DEF PQfn
  <2> QED BY <2>1, <2>2
<1>5. SUFFICES ASSUME Steady' PROVE OrderInv' /\ DoneInv' /\ OpenInv' /\ CopyResultInv' /\ UserInv'
  BY DEF OnceInv
<1>6. OrderInv /\ DoneInv
  BY <1>2, <1>4, <1>5 DEF OnceInv, Steady, OutOfStep
<1>7. ~Waiting /\ ~Waiting'
  BY <1>1, <1>2, <1>4 DEF Waiting
<1>8. place = Len(Ms) /\ sent \in Nat
  BY <1>1, <1>2, MsFacts DEF ConnInv
<1>9. ASSUME NEW s, s # 0 PROVE Before(s)' <=> Before(s) \/ Done(s)
  <2>1. \A i : i \in 1..(sent + 1) - 1 <=> i \in 1..sent - 1 \/ (sent > 0 /\ i = sent)
    BY <1>8
  <2>2. Done(s) <=> sent > 0 /\ \E k \in DOMAIN program[sent].messages : program[sent].messages[k].stmt = s
    BY <1>1, <1>8, <1>9, AllDone
  <2>3. Before(s)' <=> \E i \in 1..(sent + 1) - 1 : \E k \in DOMAIN program[i].messages : program[i].messages[k].stmt = s
    BY <1>2 DEF Before
  <2> QED BY <2>1, <2>2, <2>3 DEF Before
<1>10. \A s : ~Done(s)'
  <2>1. 1..0 = {}
    OBVIOUS
  <2> QED BY <1>2, <2>1 DEF Done
<1>11. \A i \in DOMAIN delivered : Closes(delivered[i]) => delivered[i].stmt # 0
  BY DEF Closes
<1>12. OrderInv'
  <2>1. \A i \in DOMAIN delivered : Closes(delivered[i]) => Before(delivered[i].stmt)'
    <3>1. SUFFICES ASSUME NEW i \in DOMAIN delivered, Closes(delivered[i]) PROVE Before(delivered[i].stmt)'
      OBVIOUS
    <3>2. PICK s : s = delivered[i].stmt
      OBVIOUS
    <3>3. Before(s) \/ Done(s)
      BY <1>6, <3>1, <3>2 DEF OrderInv
    <3>4. Before(s)'
      BY <1>9, <1>11, <3>1, <3>2, <3>3
    <3> QED BY <1>2, <3>2, <3>4 DEF Before
  <2>2. \A i, j \in DOMAIN delivered :
          i < j /\ Closes(delivered[i]) /\ Closes(delivered[j]) => delivered[i].stmt < delivered[j].stmt
    BY <1>6 DEF OrderInv
  <2> QED BY <1>2, <1>7, <2>1, <2>2 DEF OrderInv, Before
<1>13. DoneInv'
  <2>1. \A s : (Swallowed(s)' <=> Swallowed(s)) /\ (Told(s)' <=> Told(s))
    BY <1>2 DEF Swallowed, Told, Closes, QueryOf, Answer
  <2>2. \A s \in Nat \ {0} : Before(s) \/ Done(s) => Told(s) \/ Swallowed(s)
    BY <1>6, <1>7 DEF DoneInv
  <2>3. \A s \in Nat \ {0} : Before(s)' => Told(s)' \/ Swallowed(s)'
    BY <1>9, <2>1, <2>2
  <2> QED BY <1>10, <2>3 DEF DoneInv
<1>14. OpenInv'
  BY <1>4 DEF OpenInv, Filling, RowWaits, Is
<1>15. CopyResultInv'
  BY <1>1, <1>2, <1>4 DEF CopyResultInv, CopyStates
<1>16. UserInv'
  BY <1>2 DEF UserInv
<1> QED BY <1>12, <1>13, <1>14, <1>15, <1>16

\* What PQfn does with a message of its answer, and with what comes unasked.
LEMMA FunctionAnswer ==
  ASSUME IInv, pc = "function", in # <<>>, NEW m, m = Head(in), m.form # "huge", m.id \in {"V", "E"},
         NEW o \in FunctionMessage(m), ~(c.pversion = 3 /\ o \in V3!Starved(c, m))
  PROVE  /\ o.act = "next" /\ o.failed = FALSE
         /\ \/ o.c = [c EXCEPT !.result = NewResult("COMMAND_OK", m.stmt)] /\ m.id = "V"
            \/ o.c = [pqClearAsyncResult(c) EXCEPT !.result = NewResult("FATAL_ERROR", m.stmt)] /\ m.id = "E"
<1>1. c.pversion \in {2, 3} /\ (c.pversion = 2 => m.form = "ok")
  BY FunctionFacts, ProgramAnswered DEF IInv
<1>h. /\ c.pversion = 3 => o \in V3!FunctionMessage3(c, m)
      /\ c.pversion = 2 => o \in V2!FunctionMessage2(c, m)
  BY HandlerFacts
<1>2. \/ o = [c |-> [c EXCEPT !.result = NewResult("COMMAND_OK", m.stmt)], act |-> "next", failed |-> FALSE]
         /\ m.id = "V"
      \/ o = [c |-> [pqClearAsyncResult(c) EXCEPT !.result = NewResult("FATAL_ERROR", m.stmt)],
              act |-> "next", failed |-> FALSE]
         /\ m.id = "E"
  BY <1>1, <1>h DEF V3!FunctionMessage3, V2!FunctionMessage2, V3!Took, V2!Took,
     V3!Outcome, V2!Outcome, V3!ErrorReceived, V2!ErrorReceived, V3!NewResult, V2!NewResult, NewResult,
     V3!pqClearAsyncResult, V2!pqClearAsyncResult, pqClearAsyncResult
<1> QED BY <1>2

\* PQfn passes over what nobody asked for.
LEMMA FunctionUnasked ==
  ASSUME IInv, pc = "function", in # <<>>, NEW m, m = Head(in), m.id \in {"A", "N", "S"},
         NEW o \in FunctionMessage(m)
  PROVE  o.act \in {"next", "stay"} /\ o.failed \in BOOLEAN /\ Ignored(o.c, m, o.act)
<1>1. /\ TypeOK /\ StreamInv /\ c \in Connections /\ c.pversion \in {2, 3}
      /\ m.at = 0 /\ m.form = "ok" /\ (c.pversion = 2 => m.id # "S")
  BY FunctionFacts, ProgramAnswered DEF IInv, TypeOK
<1>2. CASE c.pversion = 3
  <2>1. o \in V3!getNotify(c) \/ o = V3!Took(c)
    BY <1>1, <1>2, HandlerFacts DEF V3!FunctionMessage3
  <2> QED BY <1>1, <2>1, UnaskedKinds3
<1>3. CASE c.pversion = 2
  <2>1. \/ o = [c |-> [c EXCEPT !.notifies = c.notifies + 1], act |-> "next", failed |-> FALSE]
        \/ o = [c |-> c, act |-> "next", failed |-> FALSE]
        \/ o = [c |-> c, act |-> "next", failed |-> TRUE]
    BY <1>1, <1>3, HandlerFacts DEF V2!FunctionMessage2, V2!getNotify, V2!Took, V2!Outcome, V2!Failed, Connections
  <2>2. c.notifies + 1 \in Nat
    BY <1>1 DEF Connections
  <2>3. /\ Same(c) /\ KeepsResult(c) /\ KeepsPlace(c)
        /\ \A k \in Nat : LET d == [c EXCEPT !.notifies = k]
                          IN  Same(d) /\ KeepsResult(d) /\ KeepsPlace(d) /\ d.async = c.async
    BY <1>1, KeepsConnection
  <2>4. Same(o.c) /\ KeepsResult(o.c) /\ KeepsPlace(o.c) /\ o.c.async = c.async
    <3>1. o.c = [c EXCEPT !.notifies = c.notifies + 1] \/ o.c = c
      BY <2>1
    <3> QED BY <2>2, <2>3, <3>1
  <2>5. PICK f \in BOOLEAN : \/ o = [c |-> [c EXCEPT !.notifies = c.notifies + 1], act |-> "next", failed |-> f]
                             \/ o = [c |-> c, act |-> "next", failed |-> f]
    BY <2>1
  <2>6. o.act = "next" /\ o.failed = f
    BY <2>5
  <2> QED BY <1>1, <2>4, <2>6 DEF Ignored
<1> QED BY <1>1, <1>2, <1>3

-----------------------------------------------------------------------------
(* PQfn treats its answer. *)

\* PQfn gets its value or its error,
LEMMA OnceFunctionResult ==
  ASSUME IInv, OnceInv, pc = "function", in # <<>>, NEW m, m = Head(in), m.id \in {"V", "E"},
         InputAfter("next"), NEW status \in {"COMMAND_OK", "FATAL_ERROR"},
         c' = [c EXCEPT !.result = NewResult(status, m.stmt)],
         UNCHANGED <<program, sent, script, alive, hurt, delivered, pc, seen>>
  PROVE  OnceInv'
<1>1. /\ TypeOK /\ StreamInv /\ ConnInv /\ c \in Connections /\ c.async = "IDLE" /\ c.ok
      /\ m.at # 0 /\ m.at \in DOMAIN Ms /\ m = Ms[m.at] /\ m.stmt \in Nat
  BY FunctionFacts DEF IInv, TypeOK
<1>2. Class = "FUNCTION"
  BY <1>1 DEF ConnInv, FunctionPcs, Class
<1>3. /\ m.at > place /\ \A k \in place + 1..m.at - 1 : Ms[k].id = "end"
      /\ place \in Nat /\ m.at \in Nat
  BY <1>1, HeadFacts, MsFacts
<1>4. m.stmt # 0
  BY <1>1, AnswerShape
<1>5. Ending(m)
  BY <1>2, <1>4 DEF Ending, CompletingIds
<1>6. NewResult(status, m.stmt) # NULL
  BY <1>1, ResultTypes DEF Statuses
<1>7. /\ c'.pversion = c.pversion /\ c'.ok = c.ok /\ c'.async = "IDLE" /\ c'.result = NewResult(status, m.stmt)
      /\ c'.result.status = status /\ c'.result.stmt = m.stmt
  BY <1>1 DEF Connections, NewResult
<1>8. place' = m.at
  BY <1>1, <1>7, InputMoves DEF Acts
<1>9. SUFFICES ASSUME Steady' PROVE OrderInv' /\ DoneInv' /\ OpenInv' /\ CopyResultInv' /\ UserInv'
  BY DEF OnceInv
<1>10. OrderInv /\ DoneInv
  BY <1>7, <1>9 DEF OnceInv, Steady, OutOfStep
<1>11. PICK q \in DOMAIN Ms : q = m.at
  BY <1>1
<1>12. ~Waiting
  <2>1. SUFFICES ASSUME Waiting PROVE FALSE
    OBVIOUS
  <2>2. PICK k \in 1..place : Ending(Ms[k])
    BY <1>10, <2>1 DEF OrderInv, Done
  <2>3. k \in 1..q - 1
    BY <1>3, <1>11
  <2>4. Ms[q].stmt # 0
    BY <1>1, <1>4, <1>11
  <2> HIDE DEF Ms, Class
  <2> QED BY <1>1, <1>2, <2>2, <2>3, <2>4, StatementFacts
<1>13. Waiting' /\ c'.result.stmt = m.stmt
  <2>1. pc' \in FunctionPcs /\ c'.result # NULL
    BY <1>6, <1>7 DEF FunctionPcs
  <2>2. PICK r : r = c'.result
    OBVIOUS
  <2>3. Closes(r)
    BY <1>4, <1>7, <2>2 DEF Closes, CopyStates
  <2>4. Closes(r)'
    BY <2>3 DEF Closes
  <2> QED BY <1>7, <2>1, <2>2, <2>4 DEF Waiting
<1>14. OrderInv' /\ DoneInv'
  <2>1. q > place /\ place' = q /\ Ending(Ms[q]) /\ m.stmt = Ms[q].stmt /\ \A k \in place + 1..q - 1 : Ms[k].id = "end"
    BY <1>1, <1>3, <1>5, <1>8, <1>11
  <2> HIDE DEF Ms, Class
  <2> QED BY <1>1, <1>7, <1>10, <1>12, <1>13, <2>1, OnceDone
<1>15. OpenInv'
  BY <1>7 DEF OpenInv, RowWaits, Is
<1>16. CopyResultInv'
  BY <1>7 DEF CopyResultInv, CopyStates
<1>17. UserInv'
  BY DEF UserInv
<1> QED BY <1>14, <1>15, <1>16, <1>17

\* and returns it at ReadyForQuery.
LEMMA OnceFunctionReturns ==
  ASSUME IInv, OnceInv, pc = "function", in # <<>>, NEW m, m = Head(in), m.id = "Z",
         InputAfter("end"), FunctionReturns(c, Prepared(c)), UNCHANGED <<program, sent, script, alive, hurt>>
  PROVE  OnceInv'
<1>1. /\ TypeOK /\ StreamInv /\ ConnInv /\ c \in Connections /\ c.async = "IDLE" /\ c.next_result = NULL
      /\ m.at # 0 /\ m.at \in DOMAIN Ms /\ m = Ms[m.at]
  BY FunctionFacts DEF IInv, TypeOK
<1>2. PICK r \in Results : r = Prepared(c) /\ (c.result # NULL => r = c.result) /\ (c.result = NULL => r.stmt = 0)
  BY <1>1, PreparedFacts
<1>3. delivered' = Append(delivered, r) /\ seen' = NULL /\ pc' = "user" /\ c' = pqPrepareAsyncResult(c)
  BY <1>2 DEF FunctionReturns
<1>4. c'.async = "IDLE" /\ c'.result = NULL /\ c'.next_result = NULL /\ c'.pversion = c.pversion /\ c'.ok = c.ok
  BY <1>1, <1>3, PreparedFacts
<1>5. place' = m.at
  BY <1>1, <1>4, InputMoves DEF Acts
<1>6. m.at > place /\ \A k \in place + 1..m.at - 1 : Ms[k].id = "end"
  BY <1>1, HeadFacts
<1>7. ~Ending(m)
  BY DEF Ending, CompletingIds
<1>8. \A s : Done(s)' <=> Done(s)
  BY <1>1, <1>5, <1>6, <1>7, PassedInside
<1>9. SUFFICES ASSUME Steady' PROVE OrderInv' /\ DoneInv' /\ OpenInv' /\ CopyResultInv' /\ UserInv'
  BY DEF OnceInv
<1>10. OrderInv /\ DoneInv
  BY <1>4, <1>9 DEF OnceInv, Steady, OutOfStep
<1>11. /\ Waiting => r = c.result
       /\ Closes(r) => Waiting
       /\ ~Waiting'
  BY <1>2, <1>4 DEF Waiting, Closes, FunctionPcs
<1>12. OrderInv' /\ DoneInv'
  BY <1>1, <1>2, <1>3, <1>4, <1>8, <1>10, <1>11, OnceHanded
<1>13. OpenInv'
  BY <1>4 DEF OpenInv, Filling, RowWaits, Is
<1>14. CopyResultInv'
  BY <1>4 DEF CopyResultInv, CopyStates
<1>15. UserInv'
  BY <1>4 DEF UserInv
<1> QED BY <1>12, <1>13, <1>14, <1>15

\* Every message PQfn treats keeps the invariant.
LEMMA OnceFunction ==
  ASSUME IInv, OnceInv, FunctionTreats
  PROVE  OnceInv'
<1>1. pc = "function" /\ in # <<>> /\ UNCHANGED <<program, sent, script, alive, got, copied>>
  BY DEF FunctionTreats, serverVars
<1>2. PICK m : m = Head(in)
  OBVIOUS
<1>3. /\ TypeOK /\ ConnInv /\ c \in Connections /\ c.pversion \in {2, 3}
      /\ m \in Messages /\ m.stmt \in Nat
      /\ m.at = 0 <=> m.id \in {"A", "N", "S"}
      /\ m.at # 0 => m.id \in {"V", "E", "Z"}
      /\ m.at = 0 => m.form = "ok"
      /\ c.pversion = 2 => m.form = "ok"
  BY <1>1, <1>2, FunctionFacts, ProgramAnswered DEF IInv, TypeOK
<1>4. PICK o \in FunctionMessage(m) :
        IF o.act \in {"end", "lost"}
          THEN /\ FunctionReturns(o.c, Prepared(o.c)) /\ InputAfter(o.act)
               /\ UNCHANGED <<failures, hurt>>
          ELSE /\ Treated(o, m)
               /\ pc' = IF o.act = "stay" THEN "functionWait" ELSE pc
               /\ UNCHANGED <<delivered, seen>>
  BY <1>2 DEF FunctionTreats
<1>h. /\ c.pversion = 3 => o \in V3!FunctionMessage3(c, m)
      /\ c.pversion = 2 => o \in V2!FunctionMessage2(c, m)
  BY <1>4, HandlerFacts
<1>f. c.async = "IDLE"
  BY <1>1, <1>2, FunctionFacts
<1>5. CASE m.form = "huge"
  <2>1. o = V3!handleSyncLoss(c, m) /\ c.pversion = 3
    <3>1. c.pversion = 3
      BY <1>3, <1>5
    <3> QED BY <1>5, <1>h, <3>1 DEF V3!FunctionMessage3
  <2>2. o.act = "lost"
    BY <2>1 DEF V3!handleSyncLoss, V3!Outcome
  <2>3. PICK d : d = o.c
    OBVIOUS
  <2>4. d \in Connections /\ ~d.ok
    BY <1>3, <1>5, <2>1, <2>3, LossKind DEF Same
  <2>5. c' = pqPrepareAsyncResult(d)
    BY <1>4, <2>2, <2>3 DEF FunctionReturns
  <2>6. ~c'.ok
    BY <2>4, <2>5, PreparedFacts
  <2> QED BY <2>6 DEF OnceInv, Steady
<1>6. CASE m.form # "huge" /\ m.id \in {"V", "E"} /\ ~(c.pversion = 3 /\ o \in V3!Starved(c, m))
  <2>1. o.act = "next" /\ o.failed = FALSE
    BY <1>1, <1>2, <1>4, <1>6, FunctionAnswer
  <2>2. \/ o.c = [c EXCEPT !.result = NewResult("COMMAND_OK", m.stmt)]
        \/ o.c = [pqClearAsyncResult(c) EXCEPT !.result = NewResult("FATAL_ERROR", m.stmt)]
    BY <1>1, <1>2, <1>4, <1>6, FunctionAnswer
  <2>3. c' = o.c /\ InputAfter("next") /\ UNCHANGED <<hurt, pc, delivered, seen>>
    BY <1>4, <2>1 DEF Treated
  <2>4. c.next_result = NULL
    BY <1>1, <1>2, FunctionFacts
  <2>5. \E status \in {"COMMAND_OK", "FATAL_ERROR"} : c' = [c EXCEPT !.result = NewResult(status, m.stmt)]
    <3>1. [pqClearAsyncResult(c) EXCEPT !.result = NewResult("FATAL_ERROR", m.stmt)]
          = [c EXCEPT !.result = NewResult("FATAL_ERROR", m.stmt)]
      <4> HIDE DEF NewResult
      <4> QED BY <1>3, <2>4 DEF pqClearAsyncResult, Connections
    <3> HIDE DEF NewResult
    <3> QED BY <2>2, <2>3, <3>1
  <2> HIDE DEF NewResult
  <2> QED BY <1>1, <1>2, <1>6, <2>3, <2>5, OnceFunctionResult
<1>7. CASE m.form # "huge" /\ m.id = "Z"
  <2>1. o = [c |-> c, act |-> "end", failed |-> FALSE]
    BY <1>3, <1>7, <1>h DEF V3!FunctionMessage3, V2!FunctionMessage2, V3!Outcome, V2!Outcome
  <2>2. o.act = "end" /\ o.c = c
    BY <2>1
  <2> QED BY <1>1, <1>2, <1>4, <1>7, <2>2, OnceFunctionReturns
<1>8. ASSUME o.act \in {"next", "stay"}, o.failed \in BOOLEAN, Ignored(o.c, m, o.act)
      PROVE  OnceInv'
  <2>2. Treated(o, m) /\ pc' \in FunctionPcs /\ delivered' = delivered /\ seen' = seen
    BY <1>1, <1>4, <1>8 DEF FunctionPcs
  <2>3. InputAfter(o.act) /\ c' = o.c /\ hurt' = IF o.failed THEN hurt \union {m.stmt} ELSE hurt
    BY <2>2 DEF Treated
  <2>4. hurt \subseteq hurt' /\ hurt' \in SUBSET Nat /\ (o.failed => m.stmt \in hurt')
    BY <1>3, <1>8, <2>3 DEF TypeOK
  <2>5. Treating(m, o.act, o.failed)
    BY <1>1, <1>2, <1>8, <2>2, <2>3, <2>4 DEF Treating, Kind, Acts, Pcs, FunctionPcs
  <2>6. SUFFICES ASSUME Steady' PROVE OrderInv' /\ DoneInv' /\ OpenInv' /\ CopyResultInv' /\ UserInv'
    BY DEF OnceInv
  <2>7. Ignored(c', m, o.act) /\ place' = place
    BY <1>f, <2>5, <2>6, TreatedIgnored
  <2>8. Steady /\ c'.pversion = c.pversion
    BY <2>5, <2>6, SteadyBefore
  <2>9. OrderInv /\ DoneInv /\ OpenInv /\ CopyResultInv /\ KeepsResult(c') /\ c'.async = c.async
    BY <2>7, <2>8 DEF OnceInv, Ignored
  <2>10. pc \in FunctionPcs
    BY <1>1 DEF FunctionPcs
  <2>11. OrderInv' /\ DoneInv' /\ OpenInv' /\ CopyResultInv'
    BY <1>1, <2>2, <2>4, <2>7, <2>8, <2>9, <2>10, OnceStill
  <2>12. UserInv'
    BY <2>2 DEF UserInv, FunctionPcs
  <2> QED BY <2>11, <2>12
<1>9. CASE m.id \in {"A", "N", "S"}
  <2>1. o.act \in {"next", "stay"} /\ o.failed \in BOOLEAN /\ Ignored(o.c, m, o.act)
    BY <1>1, <1>2, <1>4, <1>9, FunctionUnasked
  <2> QED BY <1>8, <2>1
<1>10. CASE c.pversion = 3 /\ o \in V3!Starved(c, m)
  <2>1. o.c = c /\ o.act = "stay" /\ o.failed = FALSE
    BY <1>10 DEF V3!Starved, V3!Stays, V3!Outcome
  <2>2. Ignored(o.c, m, o.act)
    BY <1>3, <2>1, KeepsConnection DEF Ignored
  <2> QED BY <1>8, <2>1, <2>2
<1> QED BY <1>3, <1>5, <1>6, <1>7, <1>9, <1>10

-----------------------------------------------------------------------------

\* Every step keeps the invariant.
LEMMA OnceNext ==
  ASSUME IInv, OnceInv, [Next]_vars
  PROVE  OnceInv'
<1>1. IInv'
  BY NextKeeps
<1>2. CASE InCall
  <2>1. CASE ParseMessage
    BY <1>1, <2>1, OnceParsed
  <2>2. CASE ParseEnds
    BY <2>2, OnceParseEnds
  <2>3. CASE GetResultWaits \/ GetResultReads \/ GetResultIdle \/ FunctionReads
    BY <2>3, OnceQuiet
  <2>4. CASE GetResultLost \/ FunctionLost
    BY <2>4, OnceLost
  <2>5. CASE GetResultReady
    BY <2>5, OnceReady
  <2>6. CASE GetCopyResult
    BY <2>6, OnceCopyResult
  <2>7. CASE FunctionTreats
    BY <2>7, OnceFunction
  <2> QED BY <1>2, <2>1, <2>2, <2>3, <2>4, <2>5, <2>6, <2>7 DEF InCall
<1>3. CASE Calls
  <2>1. CASE PQsendQuery \/ PQfn
    BY <2>1, OnceQuery
  <2>2. CASE PQgetResult
    BY <2>2, OnceQuiet
  <2>3. CASE PQputCopyEnd
    BY <2>3, OnceCopyEnd
  <2> QED BY <1>3, <2>1, <2>2, <2>3 DEF Calls
<1>4. CASE CopyCalls
  <2>1. CASE PQgetCopyData \/ PQgetlineAsync
    BY <2>1, OnceData
  <2>2. CASE CopyOther
    BY <2>2, OnceCopyOther
  <2>3. CASE CopyReads
    BY <2>3, OnceQuiet
  <2>4. CASE CopyLost
    BY <2>4, OnceLost
  <2> QED BY <1>4, <2>1, <2>2, <2>3, <2>4 DEF CopyCalls
<1>5. CASE PQendcopy
  BY <1>5, OnceCopyEnd
<1>6. CASE Poll \/ ServerInterjects \/ ServerDies \/ UNCHANGED vars
  BY <1>6, OnceQuiet
<1> QED BY <1>2, <1>3, <1>4, <1>5, <1>6 DEF Next

\* It holds before the first query.
LEMMA OnceInit ==
  ASSUME Init
  PROVE  OnceInv
<1>1. sent = 0 /\ place = 0 /\ delivered = <<>> /\ seen = NULL /\ c.async = "IDLE" /\ c.result = NULL /\ c.next_result = NULL
  BY DEF Init, NewConnection
<1>2. 1..0 = {} /\ 1..0 - 1 = {} /\ NULL \notin CopyStates
  BY NullAssumption DEF CopyStates, Statuses
<1>3. ~Waiting
  BY <1>1 DEF Waiting
<1>4. \A s : ~Before(s) /\ ~Done(s)
  BY <1>1, <1>2 DEF Before, Done
<1>5. OrderInv /\ DoneInv
  BY <1>1, <1>3, <1>4 DEF OrderInv, DoneInv
<1>6. OpenInv
  BY <1>1 DEF OpenInv, Filling, RowWaits, Is
<1>7. CopyResultInv /\ UserInv
  BY <1>1, <1>2 DEF CopyResultInv, UserInv, CopyStates
<1> QED BY <1>5, <1>6, <1>7 DEF OnceInv

\* It says what is wanted when the caller has got its NULL.
LEMMA OnceAnswered ==
  ASSUME IInv, OnceInv
  PROVE  EachAnsweredOnce
<1>1. SUFFICES ASSUME Steady PROVE EachAnsweredOnce
  BY DEF EachAnsweredOnce, Steady
<1>2. OrderInv /\ DoneInv /\ UserInv /\ TypeOK /\ ConnInv
  BY <1>1 DEF OnceInv, IInv
<1>3. ASSUME pc = "user", seen = NULL, NEW s \in Statements \ {0}, QueryOf(s) <= sent, ~Swallowed(s)
      PROVE  Told(s)
  <2>1. c.async = "IDLE" /\ c.ok /\ pc \notin FunctionPcs
    BY <1>1, <1>2, <1>3 DEF UserInv, Steady, FunctionPcs
  <2>2. place = Len(Ms) /\ ~Waiting
    BY <1>2, <2>1 DEF ConnInv, Waiting
  <2>3. PICK i \in DOMAIN program : \E k \in DOMAIN program[i].messages : program[i].messages[k].stmt = s
    <3>1. PICK i \in DOMAIN program : s \in {m.stmt : m \in ToSet(program[i].messages)}
      BY <1>3 DEF Statements
    <3>2. PICK m \in ToSet(program[i].messages) : m.stmt = s
      BY <3>1
    <3>3. PICK k \in DOMAIN program[i].messages : program[i].messages[k] = m
      BY DEF ToSet
    <3> QED BY <3>2, <3>3
  <2>4. PICK q : q = QueryOf(s)
    OBVIOUS
  <2>5. q \in DOMAIN program /\ \E l \in DOMAIN program[q].messages : program[q].messages[l].stmt = s
    BY <2>3, <2>4 DEF QueryOf
  <2>6. s \in Nat
    <3>1. Placed(program[i].messages)
      BY <1>2, AnswerFacts
    <3>2. PICK k \in DOMAIN program[i].messages : program[i].messages[k].stmt = s
      BY <2>3
    <3>3. program[i].messages[k] \in Messages
      BY <3>1, <3>2 DEF Placed
    <3> QED BY <3>2, <3>3 DEF Messages
  <2>7. sent \in Nat /\ q \in Nat /\ q >= 1 /\ q <= sent
    <3>1. DOMAIN program = 1..Len(program) /\ Len(program) \in Nat
      BY <1>2, ProgramAnswered DEF Answered
    <3> QED BY <1>2, <1>3, <2>4, <2>5, <3>1, MsFacts
  <2>8. CASE q < sent
    <3>1. q \in 1..sent - 1
      BY <2>7, <2>8
    <3>2. Before(s)
      BY <2>5, <3>1 DEF Before
    <3> QED BY <1>2, <1>3, <2>6, <3>2 DEF DoneInv
  <2>9. CASE q = sent
    <3>1. Done(s)
      BY <1>2, <1>3, <2>2, <2>5, <2>7, <2>9, AllDone
    <3> QED BY <1>2, <1>3, <2>2, <2>6, <3>1 DEF DoneInv
  <2> QED BY <2>7, <2>8, <2>9
<1> QED BY <1>2, <1>3 DEF EachAnsweredOnce, OrderInv, Told

\* While the connection lives and the parser keeps its place, pqParseInput3 and
\* pqParseInput2 make one result of each statement, and PQgetResult and PQfn hand
\* them out in the order of the statements, none twice and none left out when the
\* caller gets its NULL: for any programs of queries, portions of messages, bad
\* messages and failed allocations.
THEOREM StatementsAnsweredOnce == Spec => []EachAnsweredOnce
<1>1. Init => OnceInv
  BY OnceInit
<1>2. IInv /\ OnceInv /\ [Next]_vars => OnceInv'
  BY OnceNext
<1>3. IInv /\ OnceInv => EachAnsweredOnce
  BY OnceAnswered
<1> QED BY <1>1, <1>2, <1>3, ProtocolInductive, PTL DEF Spec
==============================================================================

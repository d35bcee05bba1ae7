------------------------------- MODULE Answers -------------------------------
(***************************************************************************)
(* What a caller asks and a server answers, as far as the parsers of       *)
(* libpq rely on it.  A query is [class, single, messages], with the       *)
(* messages of its answer.  A message is [id, stmt, n, form, at]: its      *)
(* type, the statement it belongs to, a row number or a length of copy     *)
(* data, what its length word is worth (Protocol3), and its place in the   *)
(* answer, which only the properties look at.                              *)
(***************************************************************************)
EXTENDS Naturals, Sequences

\* What the server sends unasked has no place in an answer: notifications,
\* notices and, in protocol 3.0, parameters.
UnaskedIds(v) == IF v = 3 THEN {"A", "N", "S"} ELSE {"A", "N"}
UnaskedMessages(v) ==
  {[id |-> id, stmt |-> 0, n |-> 0, form |-> "ok", at |-> 0] : id \in UnaskedIds(v)}

\* Classes of queries, and messages of their answers.  "d" and "line" are
\* copy data in the two protocols, "end" is no message: there the server
\* waits for the end of the data of a COPY IN.  "?" is a type nobody knows.
Classes(v) ==
  IF v = 3 THEN {"SIMPLE", "EXTENDED", "PREPARE", "DESCRIBE", "FUNCTION"}
  ELSE {"SIMPLE", "FUNCTION"}
KnownIds(v) ==
  IF v = 3 THEN {"C", "E", "I", "K", "1", "2", "3", "n", "t", "T", "D", "G", "H", "W", "d", "c",
                 "end", "?"}
  ELSE {"C", "E", "I", "K", "P", "T", "D", "B", "G", "H", "line", ".", "end"}
AnswerIds(v, class) ==
  CASE class = "FUNCTION" -> {"V", "E"}
    [] class = "DESCRIBE" -> KnownIds(v) \ {"D"}
    [] OTHER -> KnownIds(v)

Ids == UnaskedIds(3) \union KnownIds(2) \union KnownIds(3) \union {"V", "Z"}
Messages == [id : Ids, stmt : Nat, n : Nat, form : {"ok", "bad", "short", "huge"}, at : Nat]

DataIds == {"d", "line"}
IsData(m) == m.id \in DataIds
IsRow(m) == m.id \in {"D", "B"}
Describes(m, s) == m.id = "T" /\ m.stmt = s
StartsCopy(m) == m.id \in {"H", "W"}

\* The rows of a statement come behind their description, without a gap and
\* in their order.
RowPlaces(ms, s) == {k \in DOMAIN ms : IsRow(ms[k]) /\ ms[k].stmt = s}
RowsFollow(ms) ==
  /\ \A k \in DOMAIN ms : IsRow(ms[k]) => \E t \in 1..k - 1 : Describes(ms[t], ms[k].stmt)
  /\ \A t \in DOMAIN ms : ms[t].id = "T" =>
       \E last \in t..Len(ms) :
         /\ RowPlaces(ms, ms[t].stmt) = t + 1..last
         /\ \A k \in t + 1..last : ms[k].n = k - t

\* So does the data of a copy behind its start.
DataFollows(ms) ==
  /\ \A k \in DOMAIN ms : IsData(ms[k]) =>
       \E h \in 1..k - 1 :
         /\ StartsCopy(ms[h])
         /\ \A j \in h..k : /\ ms[j].stmt = ms[k].stmt
                            /\ j > h => IsData(ms[j]) \/ ms[j].id = "end"
  /\ \A g, h \in DOMAIN ms :
       StartsCopy(ms[g]) /\ StartsCopy(ms[h]) /\ ms[g].stmt = ms[h].stmt => g = h

\* The lines of protocol 2.0 have no type: they are what comes between the
\* start of a copy and the line of a single dot.
InLines(m) == m.id \in {"H", "line"}
LinesFollow(ms) ==
  \A k \in DOMAIN ms :
    /\ InLines(ms[k]) => k + 1 \in DOMAIN ms /\ ms[k + 1].id \in {"line", "."}
    /\ ms[k].id \in {"line", "."} => k > 1 /\ InLines(ms[k - 1])

\* A statement is completed by one message, its last, before the next begins;
\* only simple queries have several.  Its description and the start of its copy
\* come once, the description before all that makes a result.  Descriptions,
\* rows and what completes a statement are what may be bad or, if it has contents,
\* short.
CompletingIds(class) ==
  CASE class = "FUNCTION" -> {"V", "E"}
    [] class = "PREPARE" -> {"C", "E", "I", "?", "1"}
    [] class = "DESCRIBE" -> {"C", "E", "I", "?", "T", "n"}
    [] OTHER -> {"C", "E", "I", "?"}
EmptyIds == {"I", "1", "n", "?"}
PassiveIds(class) ==
  {"1", "2", "3", "n", "K", "P"} \union IF class = "DESCRIBE" THEN {"t"} ELSE {}
CopyStarts == {"G", "H", "W"}
StatementsComplete(class, ms) ==
  /\ \A k \in DOMAIN ms : ms[k].stmt # 0 =>
       \E l \in k..Len(ms) : ms[l].stmt = ms[k].stmt /\ ms[l].id \in CompletingIds(class)
  /\ \A j, k \in DOMAIN ms : j < k /\ ms[k].stmt # 0 =>
       /\ ms[j].stmt <= ms[k].stmt
       /\ ms[j].id \in CompletingIds(class) => ms[j].stmt # ms[k].stmt
       /\ ms[j].stmt = ms[k].stmt =>
            /\ ms[k].id = "T" => ms[j].id \in PassiveIds(class)
            /\ ms[j].id \in CopyStarts => ms[k].id \notin CopyStarts
       /\ class # "SIMPLE" => ms[j].stmt = ms[k].stmt
  /\ \A k \in DOMAIN ms : ms[k].form \in {"bad", "short"} =>
       /\ ms[k].id \in {"T", "t", "D"} \union CompletingIds(class)
       /\ ms[k].form = "short" => ms[k].id \notin EmptyIds

Answers(v, q) ==
  LET ms == q.messages
  IN  /\ ms \in Seq(Messages) /\ ms # <<>>
      /\ \A k \in DOMAIN ms :
           /\ ms[k].at = k
           /\ v = 2 => ms[k].form = "ok"
           /\ IF k = Len(ms) THEN ms[k].id = "Z" /\ ms[k].stmt = 0 /\ ms[k].form = "ok"
              ELSE ms[k].id \in AnswerIds(v, q.class) /\ ms[k].stmt > 0
      /\ RowsFollow(ms) /\ DataFollows(ms) /\ StatementsComplete(q.class, ms)
      /\ v = 2 => LinesFollow(ms)

\* A sequence of queries that a server of this protocol answers.
Answered(v, qs) ==
  /\ qs \in Seq([class : Classes(v), single : BOOLEAN, messages : Seq(Messages)])
  /\ \A i \in DOMAIN qs : Answers(v, qs[i])
  /\ \A i, j \in DOMAIN qs : \A k \in DOMAIN qs[i].messages, l \in DOMAIN qs[j].messages :
       /\ qs[i].messages[k].stmt = qs[j].messages[l].stmt => i = j \/ qs[i].messages[k].stmt = 0
       /\ i < j /\ qs[j].messages[l].stmt # 0 => qs[i].messages[k].stmt < qs[j].messages[l].stmt
=============================================================================

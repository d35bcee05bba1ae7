------------------------------ MODULE MCProtocol ------------------------------
EXTENDS Protocol

Msg(id, s) == [id |-> id, stmt |-> s, n |-> 0, form |-> "ok", at |-> 0]
Row(k, s) == [Msg("D", s) EXCEPT !.n = k]
Data(k, s) == [Msg("d", s) EXCEPT !.n = k]
Line(k, s) == [Msg("line", s) EXCEPT !.n = k]
Formed(m, form) == [m EXCEPT !.form = form]
Z == Msg("Z", 0)

Placed(ms) == [k \in DOMAIN ms |-> [ms[k] EXCEPT !.at = k]]
Ask(class, single, ms) ==
  [class |-> class, single |-> single, messages |-> Placed(Append(ms, Z))]
Simple(ms) == Ask("SIMPLE", FALSE, ms)

\* The query that follows: it must be answered as if nothing had been.
Following == Simple(<<Msg("T", 9), Row(1, 9), Msg("C", 9)>>)

Select(s) == <<Msg("T", s), Row(1, s), Row(2, s), Msg("C", s)>>
Both == {
  Simple(Select(1)), Ask("SIMPLE", TRUE, Select(1)),
  Simple(<<Msg("C", 1), Msg("T", 2), Row(1, 2), Msg("E", 2)>>),
  Simple(<<Msg("I", 1)>>),
  Ask("FUNCTION", FALSE, <<Msg("V", 1)>>), Ask("FUNCTION", FALSE, <<Msg("E", 1)>>)}

Queries3 == Both \union {
  Ask("SIMPLE", TRUE, <<Msg("T", 1), Row(1, 1), Msg("C", 1), Msg("T", 2), Row(1, 2), Msg("C", 2)>>),
  Ask("EXTENDED", FALSE, <<Msg("1", 1), Msg("2", 1), Msg("n", 1), Msg("C", 1)>>),
  Ask("PREPARE", FALSE, <<Msg("1", 1)>>),
  Ask("DESCRIBE", FALSE, <<Msg("t", 1), Msg("T", 1)>>),
  Ask("DESCRIBE", FALSE, <<Msg("t", 1), Msg("n", 1)>>),
  Ask("DESCRIBE", FALSE, <<Formed(Msg("t", 1), "bad"), Msg("T", 1)>>),
  Ask("DESCRIBE", FALSE, <<Formed(Msg("t", 1), "short"), Msg("T", 1)>>),
  Simple(<<Msg("T", 1), Formed(Row(1, 1), "short"), Formed(Msg("C", 1), "short")>>),
  Ask("FUNCTION", FALSE, <<Formed(Msg("V", 1), "short")>>),
  Simple(<<Msg("T", 1), Row(1, 1), Formed(Msg("C", 1), "bad"), Msg("?", 2)>>),
  Simple(<<Msg("T", 1), Formed(Row(1, 1), "bad"), Row(2, 1), Msg("C", 1)>>),
  Ask("SIMPLE", TRUE, <<Msg("T", 1), Row(1, 1), Formed(Row(2, 1), "bad"), Msg("C", 1)>>),
  Simple(<<Msg("T", 1), Formed(Row(1, 1), "huge"), Msg("C", 1)>>),
  Simple(<<Formed(Msg("T", 1), "bad"), Row(1, 1), Msg("C", 1)>>),
  Simple(<<Msg("G", 1), Msg("end", 1), Msg("C", 1)>>),
  Simple(<<Msg("G", 1), Msg("E", 1)>>),
  Simple(<<Msg("H", 1), Data(3, 1), Data(0, 1), Data(1, 1), Msg("c", 1), Msg("C", 1)>>),
  Simple(<<Msg("H", 1), Data(3, 1), Msg("E", 1)>>),
  Simple(<<Msg("H", 1), Formed(Data(3, 1), "huge"), Msg("C", 1)>>),
  Ask("FUNCTION", FALSE, <<Formed(Msg("V", 1), "huge")>>),
  Simple(<<Msg("W", 1), Data(1, 1), Msg("end", 1), Msg("c", 1), Msg("C", 1)>>),
  Simple(<<Msg("W", 1), Msg("c", 1), Msg("end", 1), Msg("C", 1)>>)}

Queries2 == Both \union {
  Simple(<<Msg("P", 1), Msg("T", 1), Row(1, 1), Msg("C", 1), Msg("T", 2), Row(1, 2), Msg("C", 2)>>),
  Simple(<<Msg("G", 1), Msg("end", 1), Msg("C", 1)>>),
  Simple(<<Msg("H", 1), Line(3, 1), Line(1, 1), Msg(".", 1), Msg("C", 1)>>),
  Simple(Select(1) \o <<Msg("H", 2), Line(3, 2), Line(1, 2), Msg(".", 2), Msg("C", 2)>>)}

MCPrograms == [v \in {2, 3} |-> {<<q, Following>> : q \in IF v = 3 THEN Queries3 ELSE Queries2}]
=============================================================================

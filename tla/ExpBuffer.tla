------------------------------ MODULE ExpBuffer ------------------------------
(***************************************************************************)
(* The growing strings of libpq (pqexpbuffer.c), which hold its error      *)
(* messages and queries. A failure is never reported where it happens: the *)
(* buffer becomes broken, and stays empty until somebody looks or resets   *)
(* it. data is what the buffer holds in front of its NUL.                  *)
(***************************************************************************)
EXTENDS Integers, SequencesExt

CONSTANTS
  INT_MAX,                  \* the largest int, far smaller than that of C
  INITIAL_EXPBUFFER_SIZE,
  HardlyAny,                \* with no more room than this (16) formatting is not tried,
  FirstGuess                \* but this much more (32) asked for

broken == [data |-> <<>>, maxlen |-> 0]
PQExpBufferBroken(str) == str.maxlen = 0

\* memory: the sizes malloc and realloc can still provide.
initPQExpBuffer(memory) ==
  IF INITIAL_EXPBUFFER_SIZE > memory THEN broken ELSE [data |-> <<>>, maxlen |-> INITIAL_EXPBUFFER_SIZE]

resetPQExpBuffer(str, memory) ==
  IF PQExpBufferBroken(str) THEN initPQExpBuffer(memory) ELSE [str EXCEPT !.data = <<>>]

\* Mutant: no room is made for the NUL.
Enlarged_WithoutNul(maxlen, len, needed) ==
  LET sizes == {maxlen * 2^k : k \in 1..8}
  IN  IF needed + len <= maxlen THEN maxlen
      ELSE CHOOSE n \in sizes : n >= needed + len /\ \A s \in sizes : s >= needed + len => n <= s

\* Doubled until what is needed fits, NUL included.
Enlarged(maxlen, len, needed) ==
  LET total == needed + len + 1
      sizes == {maxlen * 2^k : k \in 1..8}
  IN  IF total <= maxlen THEN maxlen
      ELSE CHOOSE n \in sizes : n >= total /\ \A s \in sizes : s >= total => n <= s

enlargePQExpBuffer(str, needed, memory) ==
  LET newlen == Min({Enlarged(str.maxlen, Len(str.data), needed), INT_MAX})
  IN  CASE PQExpBufferBroken(str) -> broken
        [] ~PQExpBufferBroken(str) /\ needed >= INT_MAX - Len(str.data) -> broken
        [] OTHER -> IF newlen > str.maxlen /\ newlen > memory THEN broken ELSE [str EXCEPT !.maxlen = newlen]

\* appendPQExpBufferStr, appendPQExpBufferChar
appendBinaryPQExpBuffer(str, data, memory) ==
  LET larger == enlargePQExpBuffer(str, Len(data), memory)
  IN  IF PQExpBufferBroken(larger) THEN broken ELSE [larger EXCEPT !.data = @ \o data]

\* What vsnprintf returns, by its kind: "c99" the length of the whole text, "stored" of
\* what it stored, "minus" -1 if the text does not fit, "error" -1 with an errno.
vsnprintf(text, avail, kind) ==
  CASE kind = "error" -> -1
    [] kind = "c99" \/ (kind \in {"stored", "minus"} /\ Len(text) < avail) -> Len(text)
    [] kind = "stored" /\ Len(text) >= avail -> avail - 1
    [] OTHER -> -1

\* How much more to ask for after an attempt.
Wanted(str, text, kind) ==
  LET avail == str.maxlen - Len(str.data) - 1
      nprinted == vsnprintf(text, avail, kind)
  IN  CASE str.maxlen <= Len(str.data) + HardlyAny -> FirstGuess
        [] str.maxlen > Len(str.data) + HardlyAny /\ nprinted > avail -> nprinted + 2
        [] OTHER -> IF avail >= INT_MAX \div 2 THEN INT_MAX ELSE avail * 2

\* appendPQExpBuffer: appendPQExpBufferVA until it is done.
RECURSIVE appendPQExpBuffer(_, _, _, _)
appendPQExpBuffer(str, text, kind, memory) ==
  LET avail == str.maxlen - Len(str.data) - 1
      tried == str.maxlen > Len(str.data) + HardlyAny
      nprinted == vsnprintf(text, avail, kind)
  IN  CASE PQExpBufferBroken(str) -> broken
        [] tried /\ (kind = "error" \/ nprinted > INT_MAX - 2) -> broken
        [] tried /\ nprinted >= 0 /\ nprinted < avail - 1 /\ kind # "error" -> [str EXCEPT !.data = @ \o text]
        [] OTHER -> appendPQExpBuffer(enlargePQExpBuffer(str, Wanted(str, text, kind), memory),
                                      text, kind, memory)

printfPQExpBuffer(str, text, kind, memory) ==
  appendPQExpBuffer(resetPQExpBuffer(str, memory), text, kind, memory)
=============================================================================

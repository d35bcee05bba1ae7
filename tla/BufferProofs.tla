---------------------------- MODULE BufferProofs -----------------------------
(***************************************************************************)
(* Proofs about where libpq keeps what goes over a connection.  Wire, for  *)
(* buffers, pipes and messages of any size: nothing is written or pointed  *)
(* to outside the buffers, and no byte is lost, repeated or moved past     *)
(* another in either direction.  PgResult, for blocks, values, rows and    *)
(* numbers of event procedures of any size, whatever malloc refuses.       *)
(***************************************************************************)
EXTENDS Wire, PgResult, FiniteSetTheorems, SequenceTheorems, WellFoundedInduction, TLAPS

\* A non-empty set of natural numbers has a least element.
LEMMA LeastElement ==
  ASSUME NEW S \in SUBSET Nat, S # {}
  PROVE  \E i \in S : \A j \in S : i <= j
<1> DEFINE R == {ss \in Nat \X Nat : ss[1] < ss[2]}
<1>1. OpToRel(<, Nat) = R
  BY DEF OpToRel
<1>2. IsWellFoundedOn(R, Nat)
  BY <1>1, NatLessThanWellFounded
<1>3. \A i, j \in Nat : j < i => <<j, i>> \in R
  OBVIOUS
<1> HIDE DEF R
<1>4. PICK i \in S : \A j \in S : ~ (<<j, i>> \in R)
  BY <1>2, WFMin
<1>5. \A j \in S : i <= j
  <2> TAKE j \in S
  <2>1. i \in Nat /\ j \in Nat /\ ~(j < i)
    BY <1>3, <1>4
  <2> QED BY <2>1
<1> QED BY <1>5

Busy == pc \in {"sending", "reading", "waiting"}

\* The bytes at the front of outBuffer that were written already.
Gone == IF Busy THEN ptr ELSE 0

CallInv ==
  /\ open \in BOOLEAN /\ nonblocking \in BOOLEAN /\ alive \in BOOLEAN
  /\ result \in {-1, 0, 1}
  /\ pc \in {"idle", "building", "sending", "reading", "waiting"}

\* The bytes of outBuffer are consecutive, the unfinished message included.
OutBytes ==
  /\ received + Len(toServer) + outCount = committed + Gone
  /\ \A i \in 1..Len(toServer) : toServer[i] = received + i
  /\ \A i \in 1..Len(outBuffer) : i > Gone => outBuffer[i] = committed - outCount + i

OutShape ==
  /\ outCount \in Nat /\ outBufSize \in Nat /\ committed \in Nat
  /\ len \in Nat /\ ptr \in Nat /\ received \in Nat
  /\ outBuffer \in Seq(Nat) /\ toServer \in Seq(Nat)
  /\ outCount <= Len(outBuffer) /\ Len(outBuffer) <= outBufSize /\ outBufSize <= MaxMem
  /\ Busy => ptr + len <= outCount

OutInv == OutShape /\ (alive /\ open => OutBytes)

\* The unread bytes of inBuffer and those of the pipe are consecutive.
InBytes ==
  /\ alive => taken + (Len(inBuffer) - inStart) + Len(toClient) = said
  /\ \A i \in 1..Len(inBuffer) : i > inStart => inBuffer[i] = taken + i - inStart
  /\ \A i \in 1..Len(toClient) : toClient[i] = taken + Len(inBuffer) - inStart + i

InShape ==
  /\ inStart \in Nat /\ inCursor \in Nat /\ inBufSize \in Nat /\ taken \in Nat /\ said \in Nat
  /\ inBuffer \in Seq(Nat) /\ toClient \in Seq(Nat)
  /\ inStart <= inCursor /\ inCursor <= Len(inBuffer)
  /\ Len(inBuffer) <= inBufSize /\ inBufSize <= MaxMem
  /\ taken + (Len(inBuffer) - inStart) + Len(toClient) <= said
  /\ said <= AllSaid

InInv == InShape /\ (open => InBytes)

IInv == CallInv /\ OutInv /\ InInv

-----------------------------------------------------------------------------
(* Sizes, pieces of sequences, and the stream of the server. *)

LEMMA SizesFacts ==
  /\ Chunk \in Nat /\ MinRoom \in Nat /\ InitialSize \in Nat /\ MaxMem \in Nat
  /\ Header \in Nat /\ PipeSize \in Nat
  /\ Chunk > 0 /\ MinRoom > 0 /\ InitialSize > 0 /\ MaxMem > 0 /\ Header > 0 /\ PipeSize > 0
  /\ \A n \in Bodies : n \in Nat /\ n > 0
  /\ MaxOut \in Nat /\ Ends \subseteq Nat /\ Talk \in Nat
  /\ Header <= InitialSize /\ InitialSize <= MaxMem /\ Chunk <= InitialSize
BY SizesAssumption

\* A buffer is enlarged to what is needed, and no further than it can be.
LEMMA NewSizesFit ==
  ASSUME NEW size \in Nat, NEW needed \in Nat
  PROVE  \A new \in NewSizes(size, needed) : new \in Nat /\ needed <= new /\ new <= MaxMem
BY SizesFacts DEF NewSizes

\* The part of a sequence from m to n.
LEMMA Part ==
  ASSUME NEW s \in Seq(Nat), NEW m \in Nat, NEW n \in Nat,
         1 <= m, m <= n + 1, n <= Len(s)
  PROVE  /\ SubSeq(s, m, n) \in Seq(Nat)
         /\ Len(SubSeq(s, m, n)) = n - m + 1
         /\ \A i \in 1..(n - m + 1) : SubSeq(s, m, n)[i] = s[m + i - 1]
<1>1. Len(s) \in Nat /\ \A i \in 1..Len(s) : s[i] \in Nat
  OBVIOUS
<1>2. \A i \in m..n : s[i] \in Nat
  BY <1>1
<1> QED BY <1>1, <1>2, SubSeqProperties

\* n elements behind the first p.
LEMMA PartOfStream ==
  ASSUME NEW s \in Seq(Nat), NEW p \in Nat, NEW n \in Nat, p + n <= Len(s)
  PROVE  /\ SubSeq(s, p + 1, p + n) \in Seq(Nat)
         /\ Len(SubSeq(s, p + 1, p + n)) = n
         /\ \A i \in 1..n : SubSeq(s, p + 1, p + n)[i] = s[p + i]
<1> DEFINE t == SubSeq(s, p + 1, p + n)
<1>1. Len(s) \in Nat
  OBVIOUS
<1>2. /\ p + 1 \in Nat /\ p + n \in Nat /\ 1 <= p + 1 /\ p + 1 <= (p + n) + 1
      /\ (p + n) - (p + 1) + 1 = n
  OBVIOUS
<1>3. /\ t \in Seq(Nat) /\ Len(t) = (p + n) - (p + 1) + 1
      /\ \A i \in 1..((p + n) - (p + 1) + 1) : t[i] = s[(p + 1) + i - 1]
  BY <1>2, Part
<1> HIDE DEF t
<1>4. \A i \in 1..n : (p + 1) + i - 1 = p + i
  OBVIOUS
<1>5. t \in Seq(Nat) /\ Len(t) = n /\ \A i \in 1..n : t[i] = s[p + i]
  BY <1>2, <1>3, <1>4
<1> QED BY <1>5 DEF t

\* What is behind the first p elements.
LEMMA Rest ==
  ASSUME NEW s \in Seq(Nat), NEW p \in Nat, p <= Len(s)
  PROVE  /\ SubSeq(s, p + 1, Len(s)) \in Seq(Nat)
         /\ Len(SubSeq(s, p + 1, Len(s))) = Len(s) - p
         /\ \A i \in 1..(Len(s) - p) : SubSeq(s, p + 1, Len(s))[i] = s[p + i]
<1>1. PICK n : n \in Nat /\ n = Len(s) - p /\ p + n = Len(s) /\ p + n <= Len(s)
  <2>1. Len(s) \in Nat
    OBVIOUS
  <2> QED BY <2>1
<1>2. /\ SubSeq(s, p + 1, p + n) \in Seq(Nat)
      /\ Len(SubSeq(s, p + 1, p + n)) = n
      /\ \A i \in 1..n : SubSeq(s, p + 1, p + n)[i] = s[p + i]
  BY <1>1, PartOfStream
<1>3. p + n = Len(s) /\ Len(s) - p = n
  BY <1>1
<1> QED BY <1>2, <1>3, Zenon

\* Two sequences, one behind the other.
LEMMA Joined ==
  ASSUME NEW s \in Seq(Nat), NEW t \in Seq(Nat)
  PROVE  /\ s \o t \in Seq(Nat) /\ Len(s \o t) = Len(s) + Len(t)
         /\ \A i \in 1..Len(s) : (s \o t)[i] = s[i]
         /\ \A i \in 1..Len(t) : (s \o t)[Len(s) + i] = t[i]
<1> DEFINE u == s \o t
<1>1. /\ u \in Seq(Nat) /\ Len(u) = Len(s) + Len(t)
      /\ \A i \in 1..(Len(s) + Len(t)) : u[i] = IF i <= Len(s) THEN s[i] ELSE t[i - Len(s)]
  BY ConcatProperties, Zenon
<1>2. PICK m, n \in Nat : m = Len(s) /\ n = Len(t)
  OBVIOUS
<1> HIDE DEF u
<1>3. \A i \in 1..(m + n) : u[i] = IF i <= m THEN s[i] ELSE t[i - m]
  BY <1>1, <1>2
<1>4. \A i \in 1..m : u[i] = s[i]
  BY <1>3
<1>5. ASSUME NEW i \in 1..n PROVE u[m + i] = t[i]
  <2>1. m + i \in 1..(m + n) /\ ~(m + i <= m) /\ (m + i) - m = i
    BY <1>2
  <2> QED BY <1>3, <2>1
<1> QED BY <1>1, <1>2, <1>4, <1>5 DEF u

\* A run of numbers and the one that continues it.
LEMMA RunsJoin ==
  ASSUME NEW s \in Seq(Nat), NEW t \in Seq(Nat), NEW start \in Nat,
         \A i \in 1..Len(s) : s[i] = start + i,
         \A i \in 1..Len(t) : t[i] = start + Len(s) + i
  PROVE  IsRun(s \o t, start)
<1>1. PICK m \in Nat, n \in Nat : m = Len(s) /\ n = Len(t)
  OBVIOUS
<1> DEFINE u == s \o t
<1>2. /\ u \in Seq(Nat) /\ Len(u) = m + n
      /\ \A i \in 1..m : u[i] = s[i]
      /\ \A i \in 1..n : u[m + i] = t[i]
  BY <1>1, Joined
<1> HIDE DEF u
<1>3. ASSUME NEW i \in 1..(m + n) PROVE u[i] = start + i
  <2>1. CASE i <= m
    BY <1>1, <1>2, <2>1
  <2>2. CASE i > m
    <3>1. PICK j \in 1..n : i = m + j
      <4>1. i - m \in 1..n /\ i = m + (i - m)
        BY <2>2
      <4> QED BY <4>1
    <3>2. t[j] = start + m + j
      BY <1>1
    <3>3. u[m + j] = t[j]
      BY <1>2
    <3> QED BY <3>1, <3>2, <3>3
  <2> QED BY <2>1, <2>2
<1>4. DOMAIN u = 1..(m + n)
  BY <1>2
<1> QED BY <1>3, <1>4 DEF IsRun, u


LEMMA AllSaidFacts ==
  AllSaid \in Ends /\ \A f \in Ends : f <= AllSaid
BY EndsAssumption DEF AllSaid

\* While bytes of the stream are still to be taken, so is a message.
LEMMA NextEndFacts ==
  ASSUME taken \in Nat, taken < AllSaid
  PROVE  NextEnd \in Nat /\ NextEnd > taken
<1> DEFINE S == {e \in Ends : e > taken}
<1>1. AllSaid \in S /\ AllSaid \in Nat
  BY SizesFacts, AllSaidFacts
<1>0. S \in SUBSET Nat
  BY SizesFacts
<1>2. \E e \in S : \A f \in S : e <= f
  <2>1. S # {}
    BY <1>1
  <2> HIDE DEF S
  <2> QED BY <1>0, <2>1, LeastElement
<1>3. \E e : e \in Ends /\ e > taken /\ \A f \in Ends : f > taken => e <= f
  BY <1>2
<1>4. NextEnd \in Ends /\ NextEnd > taken
  <2> DEFINE P(e) == e \in Ends /\ e > taken /\ \A f \in Ends : f > taken => e <= f
  <2>1. \E e \in Ends : e > taken /\ \A f \in Ends : f > taken => e <= f
    BY <1>3
  <2> QED BY <2>1 DEF NextEnd
<1> QED BY <1>4, SizesFacts

-----------------------------------------------------------------------------
(* The output. *)

\* What the state of the output depends on.
outState == <<outBuffer, outCount, outBufSize, committed, pc, len, ptr, alive, open,
              toServer, received>>
inState == <<inBuffer, inStart, inCursor, inBufSize, taken, said, toClient, alive, open>>

LEMMA OutputKept ==
  ASSUME OutInv, UNCHANGED outState
  PROVE  OutInv'
BY DEF OutInv, OutShape, OutBytes, Gone, Busy, outState

LEMMA InputKept ==
  ASSUME InInv, UNCHANGED inState
  PROVE  InInv'
BY DEF InInv, InShape, InBytes, inState

\* The next n bytes, put behind what is kept of the buffer.
LEMMA ExtendedFacts ==
  ASSUME NEW s \in Seq(Nat), NEW n \in Nat, committed \in Nat, outCount \in Nat,
         outCount <= Len(s),
         alive /\ open => \A i \in 1..Len(s) : s[i] = committed - outCount + i
  PROVE  /\ Extended(s, n) \in Seq(Nat)
         /\ Len(Extended(s, n)) = Len(s) + n
         /\ alive /\ open =>
              \A i \in 1..(Len(s) + n) : Extended(s, n)[i] = committed - outCount + i
<1> DEFINE t == [i \in 1..n |-> committed + (Len(s) - outCount) + i]
<1>1. Len(s) \in Nat
  OBVIOUS
<1>2. \A i \in 1..n : committed + (Len(s) - outCount) + i \in Nat
  BY <1>1
<1>3. t \in Seq(Nat) /\ Len(t) = n
  <2>1. t \in [1..n -> Nat]
    BY <1>2
  <2> HIDE DEF t
  <2> QED BY <2>1
<1>4. \A i \in 1..n : t[i] = committed + (Len(s) - outCount) + i
  OBVIOUS
<1> HIDE DEF t
<1> DEFINE u == s \o t
<1>5. /\ u \in Seq(Nat) /\ Len(u) = Len(s) + n
      /\ \A i \in 1..(Len(s) + n) : u[i] = IF i <= Len(s) THEN s[i] ELSE t[i - Len(s)]
  <2>1. /\ u \in Seq(Nat) /\ Len(u) = Len(s) + Len(t)
        /\ \A i \in 1..(Len(s) + Len(t)) :
             u[i] = IF i <= Len(s) THEN s[i] ELSE t[i - Len(s)]
    BY <1>3, ConcatProperties, Zenon
  <2> HIDE DEF u
  <2> QED BY <1>3, <2>1
<1> HIDE DEF u
<1>6. ASSUME \A i \in 1..Len(s) : s[i] = committed - outCount + i
      PROVE  \A i \in 1..(Len(s) + n) : u[i] = committed - outCount + i
  <2> SUFFICES ASSUME NEW i \in 1..(Len(s) + n) PROVE u[i] = committed - outCount + i
    OBVIOUS
  <2>0. i \in Int /\ i >= 1 /\ i <= Len(s) + n
    BY <1>1
  <2>1. CASE i <= Len(s)
    <3>1. i \in 1..Len(s)
      BY <1>1, <2>0, <2>1
    <3>2. u[i] = s[i]
      BY <1>5, <2>1, Zenon
    <3>3. s[i] = committed - outCount + i
      BY <1>6, <3>1, Zenon
    <3> QED BY <3>2, <3>3, Zenon
  <2>2. CASE i > Len(s)
    <3>1. i - Len(s) \in 1..n
      BY <1>1, <2>0, <2>2
    <3>2. t[i - Len(s)] = committed + (Len(s) - outCount) + (i - Len(s))
      BY <1>4, <3>1, Zenon
    <3>3. ~(i <= Len(s))
      BY <1>1, <2>0, <2>2
    <3>4. u[i] = t[i - Len(s)]
      BY <1>5, <3>3, Zenon
    <3> QED BY <1>1, <2>0, <3>2, <3>4
  <2> QED BY <1>1, <2>0, <2>1, <2>2
<1>7. Extended(s, n) = u
  BY DEF Extended, t, u
<1> QED BY <1>5, <1>6, <1>7, Zenon

\* The complete messages, without what was begun and not finished.
LEMMA CompletePart ==
  ASSUME OutShape
  PROVE  LET complete == SubSeq(outBuffer, 1, outCount)
         IN  /\ complete \in Seq(Nat) /\ Len(complete) = outCount
             /\ \A i \in 1..outCount : complete[i] = outBuffer[i]
<1>1. outBuffer \in Seq(Nat) /\ outCount \in Nat /\ outCount <= Len(outBuffer)
  BY DEF OutShape
<1>2. 1 \in Nat /\ 1 <= outCount + 1 /\ outCount - 1 + 1 = outCount
  BY <1>1
<1>3. /\ SubSeq(outBuffer, 1, outCount) \in Seq(Nat)
      /\ Len(SubSeq(outBuffer, 1, outCount)) = outCount - 1 + 1
      /\ \A i \in 1..(outCount - 1 + 1) :
           SubSeq(outBuffer, 1, outCount)[i] = outBuffer[1 + i - 1]
  BY <1>1, <1>2, Part
<1>4. \A i \in 1..outCount : SubSeq(outBuffer, 1, outCount)[i] = outBuffer[i]
  <2> DEFINE complete == SubSeq(outBuffer, 1, outCount)
  <2>1. \A i \in 1..outCount : complete[i] = outBuffer[1 + i - 1]
    BY <1>2, <1>3
  <2> HIDE DEF complete
  <2>2. \A i \in 1..outCount : 1 + i - 1 = i
    BY <1>1
  <2>3. \A i \in 1..outCount : complete[i] = outBuffer[i]
    BY <2>1, <2>2
  <2> QED BY <2>3 DEF complete
<1> QED BY <1>2, <1>3, <1>4

\* A buffer that was extended by n bytes, or kept as far as it was complete.
LEMMA ExtendedKeeps ==
  ASSUME OutInv, ~Busy, ~Busy', NEW s \in Seq(Nat), NEW n \in Nat,
         outCount <= Len(s), \A i \in 1..Len(s) : s[i] = outBuffer[i],
         Len(s) <= Len(outBuffer),
         UNCHANGED <<outCount, committed, len, ptr, received, toServer, alive, open>>,
         \/ RoomOut(Len(s) + n) /\ outBuffer' = Extended(s, n)
         \/ outBuffer' = s /\ outBufSize' = outBufSize
  PROVE  OutInv'
<1>1. OutShape /\ Len(s) \in Nat /\ Len(s) + n \in Nat
  BY DEF OutInv, OutShape
<1>2. alive /\ open => \A i \in 1..Len(s) : s[i] = committed - outCount + i
  <2>1. ASSUME OutBytes PROVE \A i \in 1..Len(s) : s[i] = committed - outCount + i
    BY <1>1, <2>1 DEF OutBytes, OutShape, Gone
  <2> QED BY <2>1 DEF OutInv
<1>3. /\ Extended(s, n) \in Seq(Nat)
      /\ Len(Extended(s, n)) = Len(s) + n
      /\ alive /\ open =>
           \A i \in 1..(Len(s) + n) : Extended(s, n)[i] = committed - outCount + i
  <2>1. committed \in Nat /\ outCount \in Nat
    BY <1>1 DEF OutShape
  <2> QED BY <1>2, <2>1, ExtendedFacts
<1>4. /\ outBuffer' \in Seq(Nat) /\ outCount <= Len(outBuffer')
      /\ Len(outBuffer') <= outBufSize' /\ outBufSize' <= MaxMem /\ outBufSize' \in Nat
  <2>1. CASE RoomOut(Len(s) + n) /\ outBuffer' = Extended(s, n)
    <3>1. Len(s) + n <= outBufSize' /\ outBufSize' <= MaxMem /\ outBufSize' \in Nat
      BY <1>1, <2>1, NewSizesFit DEF RoomOut, OutShape
    <3> QED BY <1>1, <1>3, <2>1, <3>1 DEF OutShape
  <2>2. CASE outBuffer' = s /\ outBufSize' = outBufSize
    BY <1>1, <2>2 DEF OutShape
  <2> QED BY <2>1, <2>2
<1>5. alive /\ open => \A i \in 1..Len(outBuffer') : outBuffer'[i] = committed - outCount + i
  BY <1>2, <1>3, Zenon
<1>6. OutShape'
  BY <1>1, <1>4 DEF OutShape
<1>7. ASSUME OutBytes, \A i \in 1..Len(outBuffer') : outBuffer'[i] = committed - outCount + i
      PROVE  OutBytes'
  BY <1>1, <1>7 DEF OutBytes, OutShape, Gone
<1> QED BY <1>5, <1>6, <1>7 DEF OutInv

LEMMA PutKeeps ==
  ASSUME IInv, NEW n \in Nat,
         pqPutMsgStart \/ pqPutMsgBytes(n)
  PROVE  OutInv'
<1>1. OutInv /\ OutShape /\ outBuffer \in Seq(Nat) /\ outCount \in Nat
      /\ outCount <= Len(outBuffer) /\ Len(outBuffer) \in Nat /\ n \in Nat /\ Header \in Nat
  BY SizesFacts DEF IInv, OutInv, OutShape
<1>2. /\ ~Busy /\ ~Busy'
      /\ UNCHANGED <<outCount, committed, len, ptr, received, toServer, alive, open>>
  BY DEF pqPutMsgStart, pqPutMsgBytes, Busy, netVars
<1>3. CASE pqPutMsgStart
  <2> DEFINE complete == SubSeq(outBuffer, 1, outCount)
  <2>1. /\ complete \in Seq(Nat) /\ Len(complete) = outCount
        /\ \A i \in 1..outCount : complete[i] = outBuffer[i]
    BY <1>1, CompletePart
  <2>2. \/ RoomOut(outCount + Header) /\ outBuffer' = Extended(complete, Header)
        \/ outBuffer' = complete /\ outBufSize' = outBufSize
    BY <1>3 DEF pqPutMsgStart
  <2> HIDE DEF complete
  <2>3. /\ outCount <= Len(complete) /\ Len(complete) <= Len(outBuffer)
        /\ \A i \in 1..Len(complete) : complete[i] = outBuffer[i]
        /\ \/ RoomOut(Len(complete) + Header) /\ outBuffer' = Extended(complete, Header)
           \/ outBuffer' = complete /\ outBufSize' = outBufSize
    BY <1>1, <2>1, <2>2
  <2> QED BY <1>1, <1>2, <2>1, <2>3, ExtendedKeeps
<1>4. CASE pqPutMsgBytes(n)
  <2>1. \/ RoomOut(Len(outBuffer) + n) /\ outBuffer' = Extended(outBuffer, n)
        \/ outBuffer' = outBuffer /\ outBufSize' = outBufSize
    BY <1>4 DEF pqPutMsgBytes
  <2> QED BY <1>1, <1>2, <2>1, ExtendedKeeps
<1> QED BY <1>3, <1>4

\* Whole chunks are never more than there is.
LEMMA WholeChunks ==
  ASSUME NEW count \in Nat, count >= Chunk
  PROVE  count - (count % Chunk) \in Nat /\ count - (count % Chunk) <= count
<1>1. count % Chunk \in 0..Chunk-1
  BY SizesFacts
<1> QED BY <1>1, SizesFacts

\* pqSendSome begins with nothing gone.
LEMMA StartKeeps ==
  ASSUME OutInv, ~Busy, open \in BOOLEAN, NEW n \in Nat, NEW count \in Nat, n <= count,
         StartSending(n, count), NEW s \in Seq(Nat),
         count <= Len(s), Len(s) <= Len(outBuffer),
         \A i \in 1..Len(s) : s[i] = outBuffer[i],
         outBuffer' = IF open THEN s ELSE <<>>,
         committed' = committed + (count - outCount), committed' \in Nat,
         UNCHANGED <<outBufSize, received, toServer, alive, open>>
  PROVE  OutInv'
<1>1. OutShape /\ Len(outBuffer) \in Nat /\ Len(s) \in Nat
  BY DEF OutInv, OutShape
<1>2. CASE open
  <2>1. pc' = "sending" /\ len' = n /\ ptr' = 0 /\ outCount' = count /\ outBuffer' = s
    BY <1>2 DEF StartSending
  <2>2. OutShape' /\ Gone' = 0 /\ Gone = 0
    BY <1>1, <2>1 DEF OutShape, Busy, Gone
  <2>3. ASSUME OutBytes PROVE OutBytes'
    <3>1. /\ received \in Nat /\ Len(toServer) \in Nat /\ outCount \in Nat /\ committed \in Nat
          /\ received' = received /\ toServer' = toServer
      BY <1>1 DEF OutShape
    <3>2. received' + Len(toServer') + outCount' = committed' + Gone'
      <4>1. received + Len(toServer) + outCount = committed
        BY <2>2, <2>3, <3>1 DEF OutBytes
      <4>2. received' + Len(toServer') = received + Len(toServer)
        BY <3>1
      <4>3. committed' = committed + (count - outCount) /\ outCount' = count
        BY <2>1
      <4> QED BY <2>2, <3>1, <4>1, <4>2, <4>3
    <3>3. ASSUME NEW i \in 1..Len(outBuffer') PROVE outBuffer'[i] = committed' - outCount' + i
      <4>1. i \in 1..Len(outBuffer) /\ i > Gone
        BY <1>1, <2>1, <2>2
      <4>2. outBuffer'[i] = committed - outCount + i
        BY <2>1, <2>3, <4>1 DEF OutBytes
      <4> QED BY <1>1, <2>1, <3>1, <4>1, <4>2
    <3> QED BY <2>3, <3>1, <3>2, <3>3 DEF OutBytes
  <2> QED BY <2>2, <2>3 DEF OutInv
<1>3. CASE ~open
  <2>1. pc' = "idle" /\ outCount' = 0 /\ outBuffer' = <<>> /\ len' = len /\ ptr' = ptr
    BY <1>3 DEF StartSending
  <2>2. OutShape'
    BY <1>1, <2>1, SizesFacts DEF OutShape, Busy
  <2> QED BY <1>3, <2>2 DEF OutInv
<1> QED BY <1>2, <1>3

LEMMA PutMsgEndKeeps ==
  ASSUME IInv, pqPutMsgEnd
  PROVE  OutInv'
<1>1. /\ OutInv /\ OutShape /\ outBuffer \in Seq(Nat) /\ outCount \in Nat
      /\ outCount <= Len(outBuffer) /\ Len(outBuffer) \in Nat /\ committed \in Nat
      /\ open \in BOOLEAN
  BY DEF IInv, CallInv, OutInv, OutShape
<1>2. /\ ~Busy /\ UNCHANGED <<outBufSize, received, toServer, alive, open>>
      /\ committed' = committed + (Len(outBuffer) - outCount) /\ committed' \in Nat
  BY <1>1 DEF pqPutMsgEnd, Busy, netVars
<1> DEFINE count == Len(outBuffer)
           n == count - (count % Chunk)
<1>3. CASE count >= Chunk
  <2>1. n \in Nat /\ n <= count
    BY <1>1, <1>3, WholeChunks
  <2>2. StartSending(n, count) /\ outBuffer' = IF open THEN outBuffer ELSE <<>>
    BY <1>3 DEF pqPutMsgEnd
  <2> HIDE DEF n
  <2> QED BY <1>1, <1>2, <2>1, <2>2, StartKeeps
<1>4. CASE ~(count >= Chunk)
  <2>1. pc' = "idle" /\ outCount' = count /\ outBuffer' = outBuffer /\ UNCHANGED <<len, ptr>>
    BY <1>4 DEF pqPutMsgEnd
  <2>2. OutShape' /\ Gone = 0 /\ Gone' = 0
    BY <1>1, <1>2, <2>1 DEF OutShape, Busy, Gone
  <2>3. ASSUME OutBytes PROVE OutBytes'
    <3>1. received \in Nat /\ Len(toServer) \in Nat
      BY <1>1 DEF OutShape
    <3>2. received' + Len(toServer') + outCount' = committed' + Gone'
      <4>1. received + Len(toServer) + outCount = committed
        BY <1>1, <2>2, <2>3, <3>1 DEF OutBytes
      <4>2. received' + Len(toServer') = received + Len(toServer)
        BY <1>2, <3>1
      <4>3. committed' = committed + (count - outCount) /\ outCount' = count
        BY <1>2, <2>1
      <4> QED BY <1>1, <2>2, <3>1, <4>1, <4>2, <4>3
    <3>3. ASSUME NEW i \in 1..Len(outBuffer') PROVE outBuffer'[i] = committed' - outCount' + i
      <4>1. i \in 1..Len(outBuffer) /\ i > Gone
        BY <1>1, <2>1, <2>2
      <4>2. outBuffer'[i] = committed - outCount + i
        BY <2>1, <2>3, <4>1 DEF OutBytes
      <4> QED BY <1>1, <1>2, <2>1, <4>1, <4>2
    <3> QED BY <1>2, <2>3, <3>1, <3>2, <3>3 DEF OutBytes
  <2> QED BY <1>1, <1>2, <2>2, <2>3 DEF OutInv
<1> QED BY <1>3, <1>4

LEMMA FlushKeeps ==
  ASSUME IInv, pqFlush
  PROVE  OutInv'
<1> DEFINE complete == SubSeq(outBuffer, 1, outCount)
<1>1. /\ OutInv /\ OutShape /\ outBuffer \in Seq(Nat) /\ outCount \in Nat
      /\ outCount <= Len(outBuffer) /\ Len(outBuffer) \in Nat /\ committed \in Nat
      /\ open \in BOOLEAN
  BY DEF IInv, CallInv, OutInv, OutShape
<1>2. /\ ~Busy /\ UNCHANGED <<outBufSize, received, toServer, alive, open, committed>>
      /\ StartSending(outCount, outCount) /\ outBuffer' = IF open THEN complete ELSE <<>>
  BY DEF pqFlush, Busy, netVars
<1>3. /\ complete \in Seq(Nat) /\ Len(complete) = outCount
      /\ \A i \in 1..outCount : complete[i] = outBuffer[i]
  BY <1>1, CompletePart
<1> HIDE DEF complete
<1>4. /\ committed' = committed + (outCount - outCount) /\ committed' \in Nat
      /\ \A i \in 1..Len(complete) : complete[i] = outBuffer[i]
      /\ outCount <= Len(complete) /\ Len(complete) <= Len(outBuffer) /\ outCount <= outCount
  BY <1>1, <1>2, <1>3
<1> QED BY <1>1, <1>2, <1>3, <1>4, StartKeeps

\* pqSendSome keeps what is behind the bytes it has sent.
LEMMA SentKeeps ==
  ASSUME OutShape, Busy, NEW r, NEW p \in Nat, Sent(r), ptr' = p, p <= outCount,
         UNCHANGED <<outBufSize, committed, received>>,
         len' \in Nat, toServer' \in Seq(Nat)
  PROVE  /\ OutShape' /\ Gone' = 0 /\ outCount' = outCount - p
         /\ Len(outBuffer') = Len(outBuffer) - p
         /\ \A i \in 1..(Len(outBuffer) - p) : outBuffer'[i] = outBuffer[p + i]
<1>1. /\ outBuffer \in Seq(Nat) /\ Len(outBuffer) \in Nat /\ outCount \in Nat
      /\ outCount <= Len(outBuffer) /\ outBufSize \in Nat /\ committed \in Nat
      /\ received \in Nat /\ Len(outBuffer) <= outBufSize /\ outBufSize <= MaxMem
  BY DEF OutShape
<1>2. p <= Len(outBuffer)
  BY <1>1
<1>3. /\ outBuffer' = SubSeq(outBuffer, p + 1, Len(outBuffer))
      /\ outCount' = outCount - p /\ pc' = "idle"
  BY DEF Sent
<1>4. /\ outBuffer' \in Seq(Nat) /\ Len(outBuffer') = Len(outBuffer) - p
      /\ \A i \in 1..(Len(outBuffer) - p) : outBuffer'[i] = outBuffer[p + i]
  BY <1>1, <1>2, <1>3, Rest
<1>5. ~Busy' /\ Gone' = 0
  BY <1>3 DEF Busy, Gone
<1>6. outCount' \in Nat /\ outCount' <= Len(outBuffer') /\ Len(outBuffer') <= outBufSize
  BY <1>1, <1>3, <1>4
<1>7. OutShape'
  BY <1>1, <1>4, <1>5, <1>6, SizesFacts DEF OutShape
<1> QED BY <1>3, <1>4, <1>5, <1>7

LEMMA WritesKeep ==
  ASSUME IInv, SendSomeWrites
  PROVE  OutInv'
<1>1. /\ OutInv /\ OutShape /\ Busy /\ Gone = ptr
      /\ outBuffer \in Seq(Nat) /\ toServer \in Seq(Nat)
      /\ outCount \in Nat /\ len \in Nat /\ ptr \in Nat /\ committed \in Nat /\ received \in Nat
      /\ Len(outBuffer) \in Nat /\ Len(toServer) \in Nat
      /\ ptr + len <= outCount /\ outCount <= Len(outBuffer)
      /\ PipeSize \in Nat
  BY SizesFacts DEF IInv, CallInv, OutInv, OutShape, SendSomeWrites, Busy, Gone
<1>2. PICK n \in 0..Lesser(len, PipeSize - Len(toServer)) :
        /\ toServer' = toServer \o SubSeq(outBuffer, ptr + 1, ptr + n)
        /\ ptr' = ptr + n /\ len' = len - n
        /\ \/ len' = 0 /\ Sent(0)
           \/ pc' = "reading" /\ UNCHANGED <<outBuffer, outCount, result>>
  BY DEF SendSomeWrites
<1>3. /\ n \in Nat /\ n <= len /\ ptr + n \in Nat /\ len' \in Nat
      /\ ptr + n + len' <= outCount /\ ptr + n <= outCount /\ ptr + n <= Len(outBuffer)
  <2>1. n \in Nat /\ n <= len
    BY <1>1 DEF Lesser
  <2>2. len' = len - n
    BY <1>2
  <2> QED BY <1>1, <2>1, <2>2
<1>4. UNCHANGED <<outBufSize, committed, received, alive, open>>
  BY DEF SendSomeWrites
<1> DEFINE piece == SubSeq(outBuffer, ptr + 1, ptr + n)
<1>5. /\ piece \in Seq(Nat) /\ Len(piece) = n
      /\ \A i \in 1..n : piece[i] = outBuffer[ptr + i]
  <2>1. outBuffer \in Seq(Nat) /\ ptr \in Nat /\ n \in Nat /\ ptr + n <= Len(outBuffer)
    BY <1>1, <1>3
  <2> QED BY <2>1, PartOfStream, Zenon
<1>6. toServer' = toServer \o piece
  BY <1>2
<1> HIDE DEF piece
<1>7. /\ toServer' \in Seq(Nat) /\ Len(toServer') = Len(toServer) + n
      /\ \A i \in 1..Len(toServer) : toServer'[i] = toServer[i]
      /\ \A i \in 1..n : toServer'[Len(toServer) + i] = piece[i]
  BY <1>1, <1>5, <1>6, Joined
<1>8. \E g, k \in Nat :
        /\ OutShape' /\ Gone' = g /\ g + k = ptr + n /\ outCount' = outCount - k
        /\ Len(outBuffer') = Len(outBuffer) - k
        /\ \A i \in 1..(Len(outBuffer) - k) : outBuffer'[i] = outBuffer[k + i]
  <2>1. CASE Sent(0)
    <3>1. /\ OutShape' /\ Gone' = 0 /\ outCount' = outCount - (ptr + n)
          /\ Len(outBuffer') = Len(outBuffer) - (ptr + n)
          /\ \A i \in 1..(Len(outBuffer) - (ptr + n)) : outBuffer'[i] = outBuffer[(ptr + n) + i]
      BY <1>1, <1>2, <1>3, <1>4, <1>7, <2>1, SentKeeps
    <3>2. 0 + (ptr + n) = ptr + n
      BY <1>3
    <3> QED BY <1>3, <3>1, <3>2
  <2>2. CASE pc' = "reading" /\ UNCHANGED <<outBuffer, outCount, result>>
    <3>1. OutShape' /\ Gone' = ptr + n
      BY <1>1, <1>2, <1>3, <1>4, <1>7, <2>2 DEF OutShape, Busy, Gone
    <3>2. /\ (ptr + n) + 0 = ptr + n /\ outCount' = outCount - 0
          /\ Len(outBuffer') = Len(outBuffer) - 0
      BY <1>1, <1>3, <2>2
    <3>3. \A i \in 1..(Len(outBuffer) - 0) : outBuffer'[i] = outBuffer[0 + i]
      <4>1. \A i \in 1..(Len(outBuffer) - 0) : 0 + i = i
        BY <1>1
      <4> QED BY <2>2, <4>1
    <3> QED BY <1>3, <3>1, <3>2, <3>3
  <2> QED BY <1>2, <2>1, <2>2
<1>9. PICK g, k \in Nat :
        /\ OutShape' /\ Gone' = g /\ g + k = ptr + n /\ outCount' = outCount - k
        /\ Len(outBuffer') = Len(outBuffer) - k
        /\ \A i \in 1..(Len(outBuffer) - k) : outBuffer'[i] = outBuffer[k + i]
  BY <1>8
<1>10. ASSUME OutBytes PROVE OutBytes'
  <2>1. /\ received + Len(toServer) + outCount = committed + ptr
        /\ \A i \in 1..Len(toServer) : toServer[i] = received + i
        /\ \A i \in 1..Len(outBuffer) : i > ptr => outBuffer[i] = committed - outCount + i
    BY <1>1, <1>10 DEF OutBytes
  <2>2. received' + Len(toServer') + outCount' = committed' + Gone'
    <3>1. /\ received' = received /\ committed' = committed /\ Gone' = g
          /\ Len(toServer') = Len(toServer) + n /\ outCount' = outCount - k
      BY <1>4, <1>7, <1>9
    <3>2. received + (Len(toServer) + n) + (outCount - k) = committed + g
      <4>1. /\ received \in Nat /\ Len(toServer) \in Nat /\ outCount \in Nat
            /\ committed \in Nat /\ ptr \in Nat /\ n \in Nat
        BY <1>1, <1>3
      <4>2. received + Len(toServer) + outCount = committed + ptr /\ g + k = ptr + n
        BY <1>9, <2>1
      <4> QED BY <4>1, <4>2
    <3> QED BY <3>1, <3>2
  <2>3. ASSUME NEW i \in 1..n PROVE piece[i] = received + (Len(toServer) + i)
    <3>1. ptr + i \in 1..Len(outBuffer) /\ ptr + i > ptr
      BY <1>1, <1>3
    <3>2. piece[i] = committed - outCount + (ptr + i)
      BY <1>5, <2>1, <3>1
    <3>3. /\ received \in Nat /\ Len(toServer) \in Nat /\ outCount \in Nat
          /\ committed \in Nat /\ ptr \in Nat
      BY <1>1
    <3>4. received + Len(toServer) + outCount = committed + ptr
      BY <2>1
    <3> QED BY <3>2, <3>3, <3>4
  <2>4. ASSUME NEW i \in 1..Len(toServer') PROVE toServer'[i] = received' + i
    <3>0. received' = received /\ i \in Nat /\ i >= 1 /\ i <= Len(toServer) + n
      BY <1>1, <1>3, <1>4, <1>7
    <3>1. CASE i <= Len(toServer)
      BY <1>1, <1>7, <2>1, <3>0, <3>1
    <3>2. CASE i > Len(toServer)
      <4>1. PICK m \in 1..n : i = Len(toServer) + m
        <5>1. i - Len(toServer) \in 1..n /\ i = Len(toServer) + (i - Len(toServer))
          BY <1>1, <1>3, <3>0, <3>2
        <5> QED BY <5>1
      <4> QED BY <1>7, <2>3, <3>0, <4>1
    <3> QED BY <1>1, <3>0, <3>1, <3>2
  <2>5. ASSUME NEW i \in 1..Len(outBuffer'), i > g
        PROVE  outBuffer'[i] = committed' - outCount' + i
    <3>1. i \in 1..(Len(outBuffer) - k) /\ k + i \in 1..Len(outBuffer) /\ k + i > ptr
      BY <1>1, <1>3, <1>9, <2>5
    <3>2. outBuffer'[i] = committed - outCount + (k + i)
      BY <1>9, <2>1, <3>1
    <3>3. committed' = committed /\ outCount' = outCount - k
      BY <1>4, <1>9
    <3>4. committed \in Nat /\ outCount \in Nat /\ i \in Nat
      BY <1>1, <3>1
    <3> QED BY <3>2, <3>3, <3>4
  <2> QED BY <1>9, <2>2, <2>4, <2>5 DEF OutBytes
<1>11. OutShape' /\ (OutBytes => OutBytes') /\ alive' = alive /\ open' = open
  BY <1>4, <1>9, <1>10
<1> QED BY <1>1, <1>11, Zenon DEF OutInv
LEMMA FailsKeep ==
  ASSUME IInv, SendSomeFails
  PROVE  OutInv'
<1>1. OutShape /\ ~alive' /\ outBuffer' = <<>> /\ outCount' = 0 /\ pc' = "idle"
      /\ UNCHANGED <<outBufSize, committed, len, ptr, received, toServer>>
  BY DEF IInv, OutInv, SendSomeFails, netVars
<1>2. OutShape'
  BY <1>1 DEF OutShape, Busy
<1> QED BY <1>1, <1>2 DEF OutInv

-----------------------------------------------------------------------------
(* The input. *)

LEMMA JustifiedFacts ==
  ASSUME InShape
  PROVE  /\ Justified \in Seq(Nat) /\ Len(Justified) = Len(inBuffer) - inStart
         /\ Len(Justified) \in Nat /\ Len(inBuffer) \in Nat /\ Len(toClient) \in Nat
         /\ \A i \in 1..Len(Justified) : Justified[i] = inBuffer[inStart + i]
         /\ InBytes => \A i \in 1..Len(Justified) : Justified[i] = taken + i
<1>1. /\ inBuffer \in Seq(Nat) /\ inStart \in Nat /\ inStart <= Len(inBuffer)
      /\ Len(inBuffer) \in Nat /\ taken \in Nat /\ Len(toClient) \in Nat
  BY DEF InShape
<1>2. /\ Justified \in Seq(Nat) /\ Len(Justified) = Len(inBuffer) - inStart
      /\ \A i \in 1..(Len(inBuffer) - inStart) : Justified[i] = inBuffer[inStart + i]
  BY <1>1, Rest DEF Justified
<1>3. ASSUME InBytes, NEW i \in 1..(Len(inBuffer) - inStart) PROVE Justified[i] = taken + i
  <2>1. inStart + i \in 1..Len(inBuffer) /\ inStart + i > inStart
    BY <1>1
  <2>2. Justified[i] = taken + (inStart + i) - inStart
    BY <1>2, <1>3, <2>1 DEF InBytes
  <2>3. i \in Nat
    BY <1>1
  <2> QED BY <1>1, <2>2, <2>3
<1> QED BY <1>1, <1>2, <1>3

\* pqReadData moves bytes from the pipe to the end of the justified buffer.
LEMMA ReadKeeps ==
  ASSUME IInv, NEW answer \in {-1, 0, 1}, pqReadData(answer), UNCHANGED <<said, alive>>
  PROVE  InInv' /\ open' \in BOOLEAN /\ (open' => open)
<1>1. /\ InInv /\ InShape /\ open \in BOOLEAN /\ alive \in BOOLEAN
      /\ inStart \in Nat /\ inCursor \in Nat /\ inBufSize \in Nat /\ taken \in Nat
      /\ said \in Nat /\ toClient \in Seq(Nat) /\ Len(toClient) \in Nat
      /\ inStart <= inCursor /\ inCursor <= Len(inBuffer)
      /\ Len(inBuffer) <= inBufSize /\ inBufSize <= MaxMem
      /\ taken + (Len(inBuffer) - inStart) + Len(toClient) <= said /\ said <= AllSaid
  BY DEF IInv, CallInv, InInv, InShape
<1>2. CASE ~open /\ UNCHANGED <<open, inVars, toClient>>
  <2>1. UNCHANGED inState
    BY <1>2 DEF inState, inVars
  <2> QED BY <1>1, <1>2, <2>1, InputKept
<1>3. CASE open /\ ~UNCHANGED <<open, inVars, toClient>>
  <2>1. PICK size \in SizesForReading, n \in 0..Len(toClient) :
          /\ inBufSize' = size
          /\ inBuffer' = Justified \o SubSeq(toClient, 1, n)
          /\ toClient' = SubSeq(toClient, n + 1, Len(toClient))
          /\ \/ n = 0 /\ open' = open
             \/ n \in 1..(size - Len(Justified)) /\ open' = open
             \/ toClient = <<>> /\ open' = alive
    BY <1>1, <1>3 DEF pqReadData
  <2>2. /\ inStart' = 0 /\ taken' = taken
        /\ inCursor' = IF Justified = <<>> THEN 0 ELSE inCursor - inStart
    BY <1>1, <1>3 DEF pqReadData
  <2> DEFINE J == Justified
  <2>3. /\ J \in Seq(Nat) /\ Len(J) = Len(inBuffer) - inStart /\ Len(J) \in Nat
        /\ InBytes => \A i \in 1..Len(J) : J[i] = taken + i
    BY <1>1, JustifiedFacts
  <2>4. /\ size \in Nat /\ size <= MaxMem /\ Len(J) <= size
    <3>1. Len(J) + Chunk \in Nat
      BY <2>3, SizesFacts
    <3>2. size = inBufSize \/ size \in NewSizes(inBufSize, Len(J) + Chunk)
      BY <2>1 DEF SizesForReading
    <3>3. CASE size = inBufSize
      BY <1>1, <2>3, <3>3
    <3>4. CASE size \in NewSizes(inBufSize, Len(J) + Chunk)
      <4>1. size \in Nat /\ Len(J) + Chunk <= size /\ size <= MaxMem
        BY <1>1, <3>1, <3>4, NewSizesFit
      <4> QED BY <2>3, <4>1, SizesFacts
    <3> QED BY <3>2, <3>3, <3>4
  <2>5. n \in Nat /\ n <= Len(toClient) /\ Len(J) + n <= size
    <3>1. n \in Nat /\ n <= Len(toClient)
      BY <1>1
    <3>2. CASE n = 0
      BY <2>3, <2>4, <3>2
    <3>3. CASE n \in 1..(size - Len(Justified))
      BY <2>3, <2>4, <3>3
    <3>4. CASE toClient = <<>>
      BY <2>3, <2>4, <3>1, <3>4
    <3> QED BY <2>1, <3>1, <3>2, <3>3, <3>4
  <2> DEFINE piece == SubSeq(toClient, 1, n)
  <2>6. /\ piece \in Seq(Nat) /\ Len(piece) = n
        /\ \A i \in 1..n : piece[i] = toClient[i]
    <3>1. /\ SubSeq(toClient, 0 + 1, 0 + n) \in Seq(Nat)
          /\ Len(SubSeq(toClient, 0 + 1, 0 + n)) = n
          /\ \A i \in 1..n : SubSeq(toClient, 0 + 1, 0 + n)[i] = toClient[0 + i]
      <4>1. 0 \in Nat /\ n \in Nat /\ 0 + n <= Len(toClient) /\ toClient \in Seq(Nat)
        BY <1>1, <2>5
      <4> QED BY <4>1, PartOfStream, Zenon
    <3>2. 0 + 1 = 1 /\ 0 + n = n /\ \A i \in 1..n : 0 + i = i
      BY <2>5
    <3> QED BY <3>1, <3>2
  <2>7. inBuffer' = J \o piece
    BY <2>1
  <2>8. /\ toClient' \in Seq(Nat) /\ Len(toClient') = Len(toClient) - n
        /\ \A i \in 1..(Len(toClient) - n) : toClient'[i] = toClient[n + i]
    BY <1>1, <2>1, <2>5, Rest
  <2>9. (Justified = <<>>) => Len(J) = 0
    BY <2>3
  <2> HIDE DEF J, piece
  <2>10. /\ inBuffer' \in Seq(Nat) /\ Len(inBuffer') = Len(J) + n
         /\ \A i \in 1..Len(J) : inBuffer'[i] = J[i]
         /\ \A i \in 1..n : inBuffer'[Len(J) + i] = piece[i]
    BY <2>3, <2>6, <2>7, Joined
  <2>11. /\ inCursor' \in Nat /\ inCursor' <= Len(inBuffer') /\ Len(inBuffer') <= inBufSize'
    <3>1. inCursor' \in Nat /\ inCursor' <= Len(J)
      <4>1. CASE Justified = <<>>
        BY <2>2, <2>3, <4>1
      <4>2. CASE Justified # <<>>
        <5>1. inCursor' = inCursor - inStart
          BY <2>2, <4>2
        <5> QED BY <1>1, <2>3, <5>1
      <4> QED BY <4>1, <4>2
    <3>2. Len(inBuffer') = Len(J) + n /\ inBufSize' = size
      BY <2>1, <2>10
    <3> QED BY <2>3, <2>4, <2>5, <3>1, <3>2
  <2>12. taken + (Len(inBuffer') - 0) + Len(toClient') = taken + (Len(inBuffer) - inStart) + Len(toClient)
    <3>1. Len(inBuffer') = (Len(inBuffer) - inStart) + n /\ Len(toClient') = Len(toClient) - n
      BY <2>3, <2>8, <2>10
    <3>2. Len(inBuffer) - inStart \in Nat
      BY <2>3
    <3>3. \A x \in Nat : taken + (x + n - 0) + (Len(toClient) - n) = taken + x + Len(toClient)
      BY <1>1, <2>5
    <3> QED BY <3>1, <3>2, <3>3
  <2>13. InShape'
    <3>1. /\ inStart' = 0 /\ taken' = taken /\ said' = said /\ inBufSize' = size
      BY <2>1, <2>2
    <3>2. taken + (Len(inBuffer') - 0) + Len(toClient') <= said
      BY <1>1, <2>12
    <3>3. 0 \in Nat /\ 0 <= inCursor'
      BY <2>11
    <3> QED BY <1>1, <2>4, <2>8, <2>10, <2>11, <3>1, <3>2, <3>3 DEF InShape
  <2>14. ASSUME InBytes PROVE InBytes'
    <3>1. /\ alive => taken + (Len(inBuffer) - inStart) + Len(toClient) = said
          /\ \A i \in 1..Len(J) : J[i] = taken + i
          /\ \A i \in 1..Len(toClient) : toClient[i] = taken + Len(inBuffer) - inStart + i
      BY <2>3, <2>14 DEF InBytes
    <3>2. \A i \in 1..Len(toClient) : toClient[i] = taken + Len(J) + i
      BY <1>1, <2>3, <3>1
    <3>3. ASSUME NEW i \in 1..(Len(J) + n) PROVE inBuffer'[i] = taken + i
      <4>1. i \in Nat
        BY <2>3, <2>5
      <4>2. CASE i <= Len(J)
        BY <2>3, <2>10, <3>1, <4>1, <4>2
      <4>3. CASE i > Len(J)
        <5>1. PICK k \in 1..n : i = Len(J) + k
          <6>1. i - Len(J) \in 1..n /\ i = Len(J) + (i - Len(J))
            BY <2>3, <2>5, <4>1, <4>3
          <6> QED BY <6>1
        <5>2. k \in 1..Len(toClient) /\ k \in Nat
          BY <1>1, <2>5
        <5>3. inBuffer'[i] = taken + Len(J) + k
          BY <2>6, <2>10, <3>2, <5>1, <5>2
        <5> QED BY <1>1, <2>3, <5>1, <5>2, <5>3
      <4> QED BY <2>3, <4>1, <4>2, <4>3
    <3>4. ASSUME NEW i \in 1..(Len(toClient) - n)
          PROVE  toClient'[i] = taken + (Len(J) + n) - 0 + i
      <4>1. n + i \in 1..Len(toClient) /\ i \in Nat
        BY <1>1, <2>5
      <4>2. toClient'[i] = taken + Len(J) + (n + i)
        BY <2>8, <3>2, <4>1
      <4> QED BY <1>1, <2>3, <2>5, <4>1, <4>2
    <3>5. \A i \in 1..(Len(J) + n) : i > 0 => inBuffer'[i] = taken + i - 0
      <4>1. \A i \in 1..(Len(J) + n) : taken + i - 0 = taken + i
        BY <1>1, <2>3, <2>5
      <4> QED BY <3>3, <4>1
    <3>6. alive' => taken' + (Len(inBuffer') - inStart') + Len(toClient') = said'
      BY <2>2, <2>12, <3>1, Zenon
    <3> QED BY <2>2, <2>8, <2>10, <3>4, <3>5, <3>6 DEF InBytes
  <2>15. open' \in BOOLEAN
    BY <1>1, <2>1
  <2> QED BY <1>1, <1>3, <2>13, <2>14, <2>15 DEF InInv
<1>4. CASE UNCHANGED <<open, inVars, toClient>>
  <2>1. UNCHANGED inState
    BY <1>4 DEF inState, inVars
  <2> QED BY <1>1, <1>4, <2>1, InputKept
<1>5. ~open => UNCHANGED <<open, inVars, toClient>>
  BY DEF pqReadData
<1> QED BY <1>1, <1>2, <1>3, <1>4, <1>5

-----------------------------------------------------------------------------
(* The steps that touch both, and the server. *)

\* Reading inside pqSendSome: what is left of the output stays.
LEMMA SendReadsKeep ==
  ASSUME IInv, SendSomeReads
  PROVE  IInv'
<1>1. PICK answer \in {-1, 0, 1} :
        /\ pqReadData(answer)
        /\ \/ Sent(-1) \/ Sent(1)
           \/ pc' = "waiting" /\ UNCHANGED <<outBuffer, outCount, result>>
  BY DEF SendSomeReads
<1>2. /\ Busy /\ UNCHANGED <<nonblocking, outBufSize, committed, len, ptr, alive,
                              toServer, received, said>>
  BY DEF SendSomeReads, Busy
<1>3. InInv' /\ open' \in BOOLEAN /\ (open' => open)
  BY <1>1, <1>2, ReadKeeps
<1>4. /\ OutInv /\ OutShape /\ Gone = ptr /\ toServer \in Seq(Nat) /\ Len(toServer) \in Nat
      /\ outCount \in Nat /\ len \in Nat /\ ptr \in Nat /\ committed \in Nat /\ received \in Nat
      /\ ptr + len <= outCount /\ ptr <= outCount /\ outCount <= Len(outBuffer)
      /\ Len(outBuffer) \in Nat
  BY <1>2 DEF IInv, OutInv, OutShape, Gone
<1>5. OutShape' /\ (OutBytes => OutBytes')
  <2>1. CASE Sent(-1) \/ Sent(1)
    <3>1. /\ ptr' = ptr /\ len' \in Nat /\ toServer' \in Seq(Nat)
          /\ UNCHANGED <<outBufSize, committed, received>>
      BY <1>2, <1>4
    <3>2. /\ OutShape' /\ Gone' = 0 /\ outCount' = outCount - ptr
          /\ Len(outBuffer') = Len(outBuffer) - ptr
          /\ \A i \in 1..(Len(outBuffer) - ptr) : outBuffer'[i] = outBuffer[ptr + i]
      BY <1>2, <1>4, <2>1, <3>1, SentKeeps
    <3>3. ASSUME OutBytes PROVE OutBytes'
      <4>1. /\ received + Len(toServer) + outCount = committed + ptr
            /\ \A i \in 1..Len(toServer) : toServer[i] = received + i
            /\ \A i \in 1..Len(outBuffer) : i > ptr => outBuffer[i] = committed - outCount + i
        BY <1>4, <3>3 DEF OutBytes
      <4>2. received + Len(toServer) + (outCount - ptr) = committed + 0
        BY <1>4, <4>1
      <4>3. ASSUME NEW i \in 1..(Len(outBuffer) - ptr)
            PROVE  outBuffer'[i] = committed - (outCount - ptr) + i
        <5>1. ptr + i \in 1..Len(outBuffer) /\ ptr + i > ptr /\ i \in Nat
          BY <1>4
        <5>2. outBuffer'[i] = committed - outCount + (ptr + i)
          BY <3>2, <4>1, <5>1
        <5> QED BY <1>4, <5>1, <5>2
      <4> QED BY <1>2, <3>2, <4>1, <4>2, <4>3 DEF OutBytes
    <3> QED BY <3>2, <3>3
  <2>2. CASE pc' = "waiting" /\ UNCHANGED <<outBuffer, outCount, result>>
    <3>1. Gone' = ptr /\ Busy'
      BY <1>2, <2>2 DEF Gone, Busy
    <3> QED BY <1>2, <1>4, <2>2, <3>1 DEF OutShape, OutBytes
  <2> QED BY <1>1, <2>1, <2>2
<1>6. OutInv'
  BY <1>2, <1>3, <1>4, <1>5, Zenon DEF OutInv
<1>7. CallInv'
  <2>1. result' \in {-1, 0, 1} /\ pc' \in {"idle", "building", "sending", "reading", "waiting"}
    BY <1>1 DEF Sent, IInv, CallInv
  <2> QED BY <1>2, <1>3, <2>1 DEF IInv, CallInv
<1> QED BY <1>3, <1>6, <1>7 DEF IInv

\* The output is left alone, or given up with the connection.
LEMMA GivenUpKeeps ==
  ASSUME OutInv, ~Busy, pc' = pc, open' \in BOOLEAN, open' => open,
         outBuffer' = IF open' THEN outBuffer ELSE <<>>,
         outCount' = IF open' THEN outCount ELSE 0,
         UNCHANGED <<outBufSize, committed, len, ptr, received, toServer, alive>>
  PROVE  OutInv'
<1>1. OutShape /\ ~Busy'
  BY DEF OutInv, Busy
<1>2. CASE open'
  <2>1. UNCHANGED outState
    BY <1>2 DEF outState
  <2> QED BY <2>1, OutputKept
<1>3. CASE ~open'
  <2>1. OutShape'
    BY <1>1, <1>3 DEF OutShape
  <2> QED BY <1>3, <2>1 DEF OutInv
<1> QED BY <1>2, <1>3

LEMMA ReadInputKeeps ==
  ASSUME IInv, ReadInput
  PROVE  IInv'
<1>1. PICK answer \in {-1, 0, 1} : pqReadData(answer)
  BY DEF ReadInput
<1>2. /\ ~Busy /\ UNCHANGED <<nonblocking, outBufSize, committed, pc, len, ptr, result,
                               alive, toServer, received, said>>
      /\ outBuffer' = (IF open' THEN outBuffer ELSE <<>>)
      /\ outCount' = (IF open' THEN outCount ELSE 0)
  BY DEF ReadInput, Busy, callVars
<1>3. InInv' /\ open' \in BOOLEAN /\ (open' => open)
  BY <1>1, <1>2, ReadKeeps
<1>4. OutInv'
  BY <1>2, <1>3, GivenUpKeeps DEF IInv
<1> QED BY <1>2, <1>3, <1>4 DEF IInv, CallInv

LEMMA TakeMessageKeeps ==
  ASSUME IInv, TakeMessage
  PROVE  IInv'
<1> DEFINE ml == MessageLength
<1>1. /\ CallInv /\ InInv /\ InShape /\ open \in BOOLEAN /\ ~Busy
      /\ inStart \in Nat /\ inCursor \in Nat /\ inBufSize \in Nat /\ taken \in Nat
      /\ said \in Nat /\ toClient \in Seq(Nat) /\ Len(toClient) \in Nat
      /\ inBuffer \in Seq(Nat) /\ Len(inBuffer) \in Nat
      /\ inStart <= inCursor /\ inCursor <= Len(inBuffer)
      /\ Len(inBuffer) <= inBufSize /\ inBufSize <= MaxMem
      /\ taken + (Len(inBuffer) - inStart) + Len(toClient) <= said /\ said <= AllSaid
  BY DEF IInv, CallInv, InInv, InShape, TakeMessage, Busy
<1>2. /\ Justified \in Seq(Nat) /\ Len(Justified) = Len(inBuffer) - inStart
      /\ Len(Justified) \in Nat
      /\ InBytes => \A i \in 1..Len(Justified) : Justified[i] = taken + i
  BY <1>1, JustifiedFacts
<1>3. ml \in Nat /\ ml > 0
  <2>1. Len(Justified) >= Header
    BY DEF TakeMessage
  <2>2. AllSaid \in Nat /\ Header \in Nat /\ Header > 0
    BY SizesFacts, AllSaidFacts
  <2>3. taken < AllSaid
    BY <1>1, <1>2, <2>1, <2>2
  <2>4. NextEnd \in Nat /\ NextEnd > taken
    BY <1>1, <2>3, NextEndFacts
  <2> QED BY <1>1, <2>4 DEF MessageLength
<1>4. UNCHANGED <<nonblocking, outBufSize, committed, pc, len, ptr, result,
                  alive, toServer, toClient, received, said>>
  BY DEF TakeMessage, callVars, netVars
<1>5. CASE Len(Justified) >= ml
  <2>1. /\ inStart' = inStart + ml /\ inCursor' = inStart' /\ taken' = taken + ml
        /\ UNCHANGED <<open, inBuffer, inBufSize, outBuffer, outCount>>
    BY <1>5 DEF TakeMessage
  <2>2. UNCHANGED outState
    BY <1>4, <2>1 DEF outState
  <2> HIDE DEF ml
  <2>3. inStart + ml <= Len(inBuffer) /\ Len(Justified) - ml \in Nat
    BY <1>1, <1>2, <1>3, <1>5
  <2>4. taken + ml + (Len(inBuffer) - (inStart + ml)) + Len(toClient)
          = taken + (Len(inBuffer) - inStart) + Len(toClient)
    BY <1>1, <1>3
  <2>5. InShape'
    BY <1>1, <1>3, <1>4, <2>1, <2>3, <2>4 DEF InShape
  <2>6. ASSUME InBytes PROVE InBytes'
    <3>1. alive' => taken' + (Len(inBuffer') - inStart') + Len(toClient') = said'
      BY <1>4, <2>1, <2>4, <2>6, Zenon DEF InBytes
    <3>2. ASSUME NEW i \in 1..Len(inBuffer), i > inStart + ml
          PROVE  inBuffer[i] = (taken + ml) + i - (inStart + ml)
      <4>1. i \in Nat /\ i > inStart
        BY <1>1, <1>3, <3>2
      <4>2. inBuffer[i] = taken + i - inStart
        BY <2>6, <4>1 DEF InBytes
      <4> QED BY <1>1, <1>3, <4>1, <4>2
    <3>3. ASSUME NEW i \in 1..Len(toClient)
          PROVE  toClient[i] = (taken + ml) + Len(inBuffer) - (inStart + ml) + i
      <4>1. toClient[i] = taken + Len(inBuffer) - inStart + i /\ i \in Nat
        BY <1>1, <2>6 DEF InBytes
      <4> QED BY <1>1, <1>3, <4>1
    <3> QED BY <1>4, <2>1, <3>1, <3>2, <3>3 DEF InBytes
  <2>7. InInv' /\ OutInv'
    BY <1>1, <2>1, <2>2, <2>5, <2>6, OutputKept DEF InInv, IInv
  <2> QED BY <1>1, <1>4, <2>1, <2>7 DEF IInv, CallInv
<1>6. CASE ~(Len(Justified) >= ml) /\ CannotHold(inStart + ml)
  <2>1. /\ open' = FALSE /\ inBuffer' = <<>> /\ inStart' = 0 /\ inCursor' = 0
        /\ outBuffer' = <<>> /\ outCount' = 0 /\ UNCHANGED <<inBufSize, taken>>
    BY <1>6 DEF TakeMessage
  <2>2. OutInv'
    BY <1>1, <1>4, <2>1, GivenUpKeeps DEF IInv
  <2>3. inBuffer' \in Seq(Nat) /\ Len(inBuffer') = 0
    BY <2>1
  <2>4. InShape'
    BY <1>1, <1>4, <2>1, <2>3 DEF InShape
  <2> QED BY <1>1, <1>4, <2>1, <2>2, <2>4 DEF IInv, InInv, CallInv
<1>7. CASE ~(Len(Justified) >= ml) /\ ~CannotHold(inStart + ml)
  <2>1. /\ pqCheckInBufferSpace(inStart + ml)
        /\ UNCHANGED <<open, taken, outBuffer, outCount>>
    BY <1>7 DEF TakeMessage
  <2>2. UNCHANGED outState
    BY <1>4, <2>1 DEF outState
  <2>3. OutInv'
    BY <2>2, OutputKept DEF IInv
  <2>4. InInv'
    <3>1. CASE UNCHANGED <<inBuffer, inStart, inCursor, inBufSize>>
      <4>1. UNCHANGED inState
        BY <1>4, <2>1, <3>1 DEF inState
      <4> QED BY <1>1, <4>1, InputKept
    <3>2. CASE ~UNCHANGED <<inBuffer, inStart, inCursor, inBufSize>>
      <4> DEFINE whole == inStart + ml
      <4>0. /\ ~(whole <= inBufSize)
            /\ inBuffer' = Justified /\ inStart' = 0 /\ inCursor' = inCursor - inStart
            /\ IF whole - inStart <= inBufSize THEN UNCHANGED inBufSize
               ELSE inBufSize' \in NewSizes(inBufSize, whole - inStart)
        <5> HIDE DEF ml
        <5>1. pqCheckInBufferSpace(whole)
          BY <2>1
        <5> HIDE DEF whole
        <5> QED BY <5>1, <3>2 DEF pqCheckInBufferSpace
      <4>1. whole - inStart = ml
        BY <1>1, <1>3
      <4> HIDE DEF ml, whole
      <4>2. Len(Justified) < ml
        BY <1>2, <1>3, <1>7
      <4>3. inBufSize' \in Nat /\ ml <= inBufSize' /\ inBufSize' <= MaxMem
        <5>1. CASE whole - inStart <= inBufSize
          BY <1>1, <1>3, <4>0, <4>1, <5>1
        <5>2. CASE ~(whole - inStart <= inBufSize)
          <6>1. inBufSize' \in NewSizes(inBufSize, ml)
            BY <4>0, <4>1, <5>2
          <6> QED BY <1>1, <1>3, <6>1, NewSizesFit
        <5> QED BY <5>1, <5>2
      <4>4. inCursor - inStart \in Nat /\ inCursor - inStart <= Len(Justified)
        BY <1>1, <1>2
      <4>5. Len(Justified) <= inBufSize'
        BY <1>2, <1>3, <4>2, <4>3
      <4>6. Len(inBuffer') - inStart' = Len(inBuffer) - inStart
        BY <1>1, <1>2, <4>0
      <4>7. InShape'
        BY <1>1, <1>2, <1>4, <2>1, <4>0, <4>3, <4>4, <4>5, <4>6 DEF InShape
      <4>8. ASSUME InBytes PROVE InBytes'
        <5>1. alive' => taken' + (Len(inBuffer') - inStart') + Len(toClient') = said'
          BY <1>4, <2>1, <4>6, <4>8, Zenon DEF InBytes
        <5>2. \A i \in 1..Len(Justified) : i > 0 => Justified[i] = taken + i - 0
          <6>1. \A i \in 1..Len(Justified) : taken + i - 0 = taken + i
            BY <1>1, <1>2
          <6> QED BY <1>2, <4>8, <6>1
        <5>3. ASSUME NEW i \in 1..Len(toClient)
              PROVE  toClient[i] = taken + Len(Justified) - 0 + i
          <6>1. toClient[i] = taken + Len(inBuffer) - inStart + i /\ i \in Nat
            BY <1>1, <4>8 DEF InBytes
          <6> QED BY <1>1, <1>2, <6>1
        <5> QED BY <1>4, <2>1, <4>0, <5>1, <5>2, <5>3 DEF InBytes
      <4> QED BY <1>1, <2>1, <4>7, <4>8 DEF InInv
    <3> QED BY <3>1, <3>2
  <2> QED BY <1>1, <1>4, <2>1, <2>3, <2>4 DEF IInv, CallInv
<1> QED BY <1>5, <1>6, <1>7

\* The server never says more than its stream holds.
LEMMA SaysKeep ==
  ASSUME IInv, ServerSays
  PROVE  IInv'
<1>1. /\ CallInv /\ OutInv /\ InInv /\ InShape
      /\ said \in Nat /\ taken \in Nat /\ received \in Nat /\ inStart \in Nat
      /\ toClient \in Seq(Nat) /\ Len(toClient) \in Nat /\ Len(inBuffer) \in Nat
      /\ taken + (Len(inBuffer) - inStart) + Len(toClient) <= said
  BY DEF IInv, InInv, InShape, OutInv, OutShape
<1>2. /\ alive /\ said < ToSay /\ said' = said + 1 /\ toClient' = Append(toClient, said + 1)
      /\ UNCHANGED <<open, nonblocking, outVars, inVars, callVars, alive, toServer, received>>
  BY DEF ServerSays
<1>3. said + 1 <= AllSaid
  <2>1. AllSaid \in Nat
    BY SizesFacts, AllSaidFacts
  <2>2. Talk * (received + 1) \in Nat
    BY <1>1, SizesFacts
  <2>3. ToSay \in Nat /\ ToSay <= AllSaid
    BY <2>1, <2>2 DEF ToSay, Lesser
  <2> QED BY <1>1, <1>2, <2>1, <2>3
<1>4. /\ toClient' \in Seq(Nat) /\ Len(toClient') = Len(toClient) + 1
      /\ \A i \in 1..Len(toClient) : toClient'[i] = toClient[i]
      /\ toClient'[Len(toClient) + 1] = said + 1
  <2>1. said + 1 \in Nat
    BY <1>1
  <2> QED BY <1>1, <1>2, <2>1, AppendProperties
<1>5. taken + (Len(inBuffer) - inStart) + Len(toClient')
        = taken + (Len(inBuffer) - inStart) + Len(toClient) + 1
  BY <1>1, <1>4
<1>6. UNCHANGED <<inBuffer, inStart, inCursor, inBufSize, taken>>
  BY <1>2 DEF inVars
<1>7. InShape'
  BY <1>1, <1>2, <1>3, <1>4, <1>5, <1>6 DEF InShape
<1>8. ASSUME InBytes PROVE InBytes'
  <2>1. taken + (Len(inBuffer) - inStart) + Len(toClient) = said
    BY <1>2, <1>8 DEF InBytes
  <2>2. taken + (Len(inBuffer) - inStart) + Len(toClient') = said + 1
    BY <1>5, <2>1
  <2>3. ASSUME NEW i \in 1..(Len(toClient) + 1)
        PROVE  toClient'[i] = taken + Len(inBuffer) - inStart + i
    <3>1. CASE i \in 1..Len(toClient)
      BY <1>4, <1>8, <3>1 DEF InBytes
    <3>2. CASE i = Len(toClient) + 1
      BY <1>1, <1>4, <2>1, <3>2
    <3> QED BY <1>1, <3>1, <3>2
  <2> QED BY <1>2, <1>4, <1>6, <1>8, <2>2, <2>3 DEF InBytes
<1>9. InInv'
  BY <1>1, <1>2, <1>7, <1>8 DEF InInv
<1>10. OutInv' /\ CallInv'
  <2>1. UNCHANGED outState /\ UNCHANGED <<nonblocking, result>>
    BY <1>2 DEF outState, outVars, callVars
  <2> QED BY <1>1, <1>2, <2>1, OutputKept DEF CallInv, outState
<1> QED BY <1>9, <1>10 DEF IInv

\* It reads the next byte of what was sent.
LEMMA ServerReadsKeep ==
  ASSUME IInv, ServerReads
  PROVE  IInv'
<1>1. /\ CallInv /\ OutInv /\ InInv /\ OutShape
      /\ toServer \in Seq(Nat) /\ Len(toServer) \in Nat /\ received \in Nat
      /\ outCount \in Nat /\ committed \in Nat /\ ptr \in Nat /\ Len(outBuffer) \in Nat
  BY DEF IInv, OutInv, OutShape
<1>2. /\ toServer # <<>> /\ received' = received + 1 /\ toServer' = Tail(toServer)
      /\ UNCHANGED <<open, nonblocking, outVars, inVars, callVars, alive, toClient, said>>
  BY DEF ServerReads
<1>3. /\ toServer' \in Seq(Nat) /\ Len(toServer') = Len(toServer) - 1 /\ Len(toServer) >= 1
      /\ \A i \in 1..(Len(toServer) - 1) : toServer'[i] = toServer[i + 1]
  <2>1. /\ Tail(toServer) \in Seq(Nat) /\ Len(Tail(toServer)) = Len(toServer) - 1
        /\ \A i \in 1..Len(Tail(toServer)) : Tail(toServer)[i] = toServer[i + 1]
    BY <1>1, <1>2, HeadTailProperties
  <2> QED BY <1>1, <1>2, <2>1
<1>4. UNCHANGED <<outBuffer, outCount, outBufSize, committed, pc, len, ptr>>
  BY <1>2 DEF outVars, callVars
<1>5. OutShape' /\ Gone' = Gone
  BY <1>1, <1>2, <1>3, <1>4 DEF OutShape, Gone, Busy
<1>6. ASSUME OutBytes PROVE OutBytes'
  <2>1. /\ received + Len(toServer) + outCount = committed + Gone
        /\ \A i \in 1..Len(toServer) : toServer[i] = received + i
    BY <1>6 DEF OutBytes
  <2>2. (received + 1) + (Len(toServer) - 1) + outCount = committed + Gone
    BY <1>1, <2>1
  <2>3. ASSUME NEW i \in 1..(Len(toServer) - 1) PROVE toServer'[i] = (received + 1) + i
    <3>1. i + 1 \in 1..Len(toServer) /\ i \in Nat
      BY <1>1
    <3>2. toServer'[i] = received + (i + 1)
      BY <1>3, <2>1, <3>1
    <3> QED BY <1>1, <3>1, <3>2
  <2> QED BY <1>2, <1>3, <1>4, <1>5, <1>6, <2>2, <2>3 DEF OutBytes
<1>7. OutInv'
  BY <1>1, <1>2, <1>5, <1>6, Zenon DEF OutInv
<1>8. UNCHANGED inState /\ UNCHANGED <<nonblocking, result, pc>>
  BY <1>2 DEF inState, inVars, callVars
<1>9. InInv' /\ CallInv'
  BY <1>1, <1>2, <1>8, InputKept DEF CallInv
<1> QED BY <1>7, <1>9 DEF IInv

\* What it had said may be lost with it, but nothing comes in its place.
LEMMA DiesKeeps ==
  ASSUME IInv, ServerDies
  PROVE  IInv'
<1>1. /\ CallInv /\ OutInv /\ InInv /\ InShape /\ OutShape
      /\ Len(toClient) \in Nat /\ taken \in Nat /\ inStart \in Nat /\ Len(inBuffer) \in Nat
      /\ said \in Nat /\ toClient \in Seq(Nat)
      /\ taken + (Len(inBuffer) - inStart) + Len(toClient) <= said
  BY DEF IInv, InInv, InShape, OutInv
<1>2. /\ alive' = FALSE /\ toServer' = <<>> /\ toClient' \in {toClient, <<>>}
      /\ UNCHANGED <<open, nonblocking, outBuffer, outCount, outBufSize, committed,
                     pc, len, ptr, result, received, said>>
      /\ UNCHANGED <<inBuffer, inStart, inCursor, inBufSize, taken>>
  BY DEF ServerDies, outVars, inVars, callVars
<1>3. OutInv' /\ CallInv'
  <2>1. OutShape'
    BY <1>1, <1>2 DEF OutShape, Busy
  <2> QED BY <1>1, <1>2, <2>1 DEF OutInv, CallInv
<1>4. /\ toClient' \in Seq(Nat) /\ Len(toClient') \in Nat /\ Len(toClient') <= Len(toClient)
      /\ \A i \in 1..Len(toClient') : i \in 1..Len(toClient) /\ toClient'[i] = toClient[i]
  <2>1. CASE toClient' = toClient
    BY <1>1, <2>1
  <2>2. CASE toClient' = <<>>
    BY <1>1, <2>2
  <2> QED BY <1>2, <2>1, <2>2
<1>5. taken + (Len(inBuffer) - inStart) + Len(toClient') <= said
  BY <1>1, <1>4
<1>6. InShape'
  BY <1>1, <1>2, <1>4, <1>5 DEF InShape
<1>7. ASSUME InBytes PROVE InBytes'
  BY <1>2, <1>4, <1>7 DEF InBytes
<1> QED BY <1>1, <1>2, <1>3, <1>6, <1>7 DEF IInv, InInv

LEMMA InitEstablishes == Init => IInv
<1> SUFFICES ASSUME Init PROVE IInv
  OBVIOUS
<1>1. AllSaid \in Nat
  BY SizesFacts, AllSaidFacts
<1> USE DEF Init
<1>2. CallInv
  BY DEF CallInv
<1>3. Len(outBuffer) = 0 /\ Len(inBuffer) = 0 /\ Len(toServer) = 0 /\ Len(toClient) = 0
  OBVIOUS
<1>4. OutInv
  BY <1>3, SizesFacts DEF OutInv, OutShape, OutBytes, Gone, Busy
<1>5. InInv
  BY <1>1, <1>3, SizesFacts DEF InInv, InShape, InBytes
<1> QED BY <1>2, <1>4, <1>5 DEF IInv

LEMMA NextKeeps == IInv /\ [Next]_vars => IInv'
<1> SUFFICES ASSUME IInv, [Next]_vars PROVE IInv'
  OBVIOUS
<1>0. CallInv /\ OutInv /\ InInv
  BY DEF IInv
<1>1. CASE UNCHANGED vars
  <2>1. UNCHANGED outState /\ UNCHANGED inState /\ UNCHANGED <<nonblocking, result>>
    BY <1>1 DEF vars, outState, inState, outVars, inVars, callVars, netVars
  <2> QED BY <1>0, <2>1, OutputKept, InputKept DEF IInv, CallInv, outState
<1>2. ASSUME NEW n \in Nat, pqPutMsgStart \/ pqPutMsgBytes(n) PROVE IInv'
  <2>1. UNCHANGED inState /\ UNCHANGED <<open, nonblocking, result, alive>> /\ pc' \in {"idle", "building"}
    BY <1>2 DEF pqPutMsgStart, pqPutMsgBytes, inState, inVars, netVars
  <2> QED BY <1>0, <1>2, <2>1, PutKeeps, InputKept DEF IInv, CallInv
<1>3. CASE pqPutMsgEnd \/ pqFlush
  <2>1. UNCHANGED inState /\ UNCHANGED <<open, nonblocking, alive>>
    BY <1>3 DEF pqPutMsgEnd, pqFlush, inState, inVars, netVars
  <2>2. pc' \in {"idle", "sending"} /\ result' \in {-1, result}
    BY <1>3 DEF pqPutMsgEnd, pqFlush, StartSending
  <2> QED BY <1>0, <1>3, <2>1, <2>2, PutMsgEndKeeps, FlushKeeps, InputKept DEF IInv, CallInv
<1>4. CASE SendSomeWrites \/ SendSomeFails
  <2>1. InInv'
    <3>1. CASE SendSomeWrites
      <4>1. UNCHANGED inState
        BY <3>1 DEF SendSomeWrites, inState, inVars
      <4> QED BY <1>0, <4>1, InputKept
    <3>2. CASE SendSomeFails
      <4>1. UNCHANGED inState
        BY <3>2 DEF SendSomeFails, inState, inVars, netVars
      <4> QED BY <1>0, <4>1, InputKept
    <3> QED BY <1>4, <3>1, <3>2
  <2>2. CallInv'
    BY <1>0, <1>4 DEF CallInv, SendSomeWrites, SendSomeFails, Sent, netVars
  <2> QED BY <1>4, <2>1, <2>2, WritesKeep, FailsKeep DEF IInv
<1>5. CASE pqWait
  <2>1. /\ UNCHANGED inState /\ Busy /\ Busy' /\ pc' = "sending"
        /\ UNCHANGED <<open, nonblocking, result, alive>>
        /\ UNCHANGED <<outBuffer, outCount, outBufSize, committed, len, ptr, toServer, received>>
    BY <1>5 DEF pqWait, inState, inVars, outVars, netVars, Busy
  <2>2. OutInv'
    BY <1>0, <2>1 DEF OutInv, OutShape, OutBytes, Gone
  <2> QED BY <1>0, <2>1, <2>2, InputKept DEF IInv, CallInv
<1>6. CASE SendSomeReads \/ ReadInput \/ TakeMessage
  BY <1>6, SendReadsKeep, ReadInputKeeps, TakeMessageKeeps
<1>7. CASE ServerSays \/ ServerReads \/ ServerDies
  BY <1>7, SaysKeep, ServerReadsKeep, DiesKeeps
<1>8. CASE pqPutMsgStart
  <2>1. 0 \in Nat
    OBVIOUS
  <2> QED BY <1>2, <1>8, <2>1
<1>9. \A n \in Bodies : n \in Nat
  BY SizesFacts
<1> QED BY <1>1, <1>2, <1>3, <1>4, <1>5, <1>6, <1>7, <1>8, <1>9 DEF Next, SendSome, Server

LEMMA IInvHolds == Spec => []IInv
BY InitEstablishes, NextKeeps, PTL DEF Spec

-----------------------------------------------------------------------------
\* For buffers, messages and pipes of any size, nothing is written or pointed to
\* outside outBuffer and inBuffer, however they are moved and enlarged.
THEOREM StaysWithinBuffers == Spec => []WithinBuffers
<1>1. IInv => WithinBuffers
  <2> SUFFICES ASSUME IInv PROVE WithinBuffers
    OBVIOUS
  <2>1. TypeOK
    BY DEF IInv, CallInv, OutInv, OutShape, InInv, InShape, TypeOK
  <2> QED BY <2>1 DEF IInv, OutInv, OutShape, InInv, InShape, WithinBuffers
<1> QED BY <1>1, IInvHolds, PTL

LEMMA OutputIsIntact == IInv => OutputIntact
<1> SUFFICES ASSUME IInv, alive, open
             PROVE  LET unsent == SubSeq(outBuffer, (IF Busy THEN ptr + 1 ELSE 1), outCount)
                    IN  /\ IsRun(toServer \o unsent, received)
                        /\ received + Len(toServer) + Len(unsent) = committed
  BY DEF OutputIntact, Busy
<1>1. /\ OutShape /\ OutBytes /\ outBuffer \in Seq(Nat) /\ toServer \in Seq(Nat)
      /\ outCount \in Nat /\ received \in Nat /\ committed \in Nat
      /\ Len(toServer) \in Nat /\ Len(outBuffer) \in Nat /\ outCount <= Len(outBuffer)
      /\ \A i \in 1..Len(toServer) : toServer[i] = received + i
  BY DEF IInv, OutInv, OutShape, OutBytes
<1>2. PICK gone \in Nat : /\ gone = Gone /\ gone <= outCount
                          /\ (IF Busy THEN ptr + 1 ELSE 1) = gone + 1
  BY <1>1 DEF OutShape, Gone
<1>3. PICK n \in Nat : n = outCount - gone /\ gone + n = outCount
  BY <1>1, <1>2
<1> DEFINE unsent == SubSeq(outBuffer, gone + 1, gone + n)
<1>4. /\ unsent \in Seq(Nat) /\ Len(unsent) = n
      /\ \A i \in 1..n : unsent[i] = outBuffer[gone + i]
  BY <1>1, <1>2, <1>3, PartOfStream
<1>5. received + Len(toServer) + n = committed
  BY <1>1, <1>2, <1>3 DEF OutBytes
<1>6. unsent = SubSeq(outBuffer, (IF Busy THEN ptr + 1 ELSE 1), outCount)
  BY <1>2, <1>3
<1> HIDE DEF unsent
<1>7. ASSUME NEW i \in 1..n PROVE unsent[i] = received + Len(toServer) + i
  <2>1. gone + i \in 1..Len(outBuffer) /\ gone + i > gone
    BY <1>1, <1>2, <1>3
  <2>2. outBuffer[gone + i] = committed - outCount + (gone + i)
    BY <1>1, <1>2, <2>1 DEF OutBytes
  <2>3. committed - outCount + (gone + i) = received + Len(toServer) + i
    <3>1. PICK sent \in Nat : sent = Len(toServer)
      BY <1>1
    <3>2. /\ outCount \in Nat /\ received \in Nat /\ committed \in Nat
          /\ received + sent + n = committed /\ gone + n = outCount
      BY <1>1, <1>3, <1>5, <3>1
    <3>3. committed - outCount + (gone + i) = received + sent + i
      BY <1>2, <1>3, <3>2
    <3> QED BY <3>1, <3>3
  <2>4. unsent[i] = outBuffer[gone + i]
    BY <1>4
  <2> QED BY <2>2, <2>3, <2>4
<1>8. IsRun(toServer \o unsent, received)
  BY <1>1, <1>4, <1>7, RunsJoin
<1> QED BY <1>4, <1>5, <1>6, <1>8

LEMMA InputIsIntact == IInv => InputIntact
<1> SUFFICES ASSUME IInv, open PROVE IsRun(Justified \o toClient, taken)
  BY DEF InputIntact
<1>1. /\ InShape /\ InBytes /\ taken \in Nat /\ inStart \in Nat
      /\ toClient \in Seq(Nat) /\ Len(inBuffer) \in Nat /\ inStart <= Len(inBuffer)
  BY DEF IInv, InInv, InShape
<1>2. /\ Justified \in Seq(Nat) /\ Len(Justified) = Len(inBuffer) - inStart
      /\ \A i \in 1..Len(Justified) : Justified[i] = taken + i
  BY <1>1, JustifiedFacts
<1>3. ASSUME NEW i \in 1..Len(toClient) PROVE toClient[i] = taken + Len(Justified) + i
  <2>1. toClient[i] = taken + Len(inBuffer) - inStart + i
    BY <1>1 DEF InBytes
  <2> QED BY <1>1, <1>2, <2>1
<1> QED BY <1>1, <1>2, <1>3, RunsJoin

\* No byte is lost, repeated or moved past another, whichever direction it goes:
\* what the server has read, what is in the pipes and what the buffers hold are
\* the streams in order.
THEOREM NoByteLost == Spec => []BytesIntact
BY OutputIsIntact, InputIsIntact, IInvHolds, PTL DEF BytesIntact

-----------------------------------------------------------------------------
(* The results. *)

\* What pqResultAlloc relies on: there is no active block or it is a separate
\* one, which is full; or the active block is free from curOffset on.
Free(r) ==
  \/ r.spaceLeft = 0 /\ r.curOffset = 0
  \/ /\ r.cur # 0 /\ r.blocks[r.cur] = BlockSize
     /\ r.curOffset >= Pointer /\ r.curOffset + r.spaceLeft = BlockSize
     /\ \A p \in r.pieces : p.block = r.cur => p.from + p.size <= r.curOffset
Placed(r) ==
  /\ r.cur \in 0..Len(r.blocks)
  /\ \A p \in r.pieces : Within(r, p)
  /\ \A p, q \in r.pieces : p # q => Apart(p, q)
  /\ Free(r)

\* What an allocation leaves alone.
SameData(r, s) ==
  /\ s.status = r.status /\ s.attrs = r.attrs /\ s.rows = r.rows
  /\ s.tupArrSize = r.tupArrSize /\ s.events = r.events

-----------------------------------------------------------------------------
(* Arithmetic. *)

LEMMA Sizes ==
  /\ Align \in Nat /\ Align > 0 /\ Pointer \in Nat /\ Pointer > 0 /\ BlockSize \in Nat
  /\ Overhead \in Nat /\ Overhead >= Pointer /\ Overhead % Align = 0 /\ BlockSize % Align = 0
  /\ Threshold \in Nat /\ Threshold + Overhead <= BlockSize /\ 0 % Align = 0
<1>1. Threshold \in Nat
  BY ResultAssumption DEF Threshold
<1>2. 0 % Align = 0
  BY ResultAssumption
<1> QED BY <1>1, <1>2, ResultAssumption, ThresholdAssumption DEF Overhead

LEMMA Division ==
  ASSUME NEW a \in Int, NEW d \in Int, d > 0
  PROVE  a = d * (a \div d) + (a % d)
OBVIOUS

LEMMA Exact ==
  ASSUME NEW a \in Int, NEW d \in Int, d > 0, a % d = 0
  PROVE  a = (a \div d) * d
OBVIOUS

LEMMA Multiple ==
  ASSUME NEW a \in Nat, NEW q \in Nat, NEW d \in Nat, d > 0, a = q * d + d
  PROVE  a % d = 0
<1>1. a = d * (q + 1) /\ q + 1 \in Nat
  OBVIOUS
<1> QED BY <1>1

\* Products of the same factor are ordered as the others, and a factor apart.
LEMMA NextMultiple ==
  ASSUME NEW q \in Nat, NEW m \in Nat, NEW d \in Nat, d > 0, q * d < m * d
  PROVE  q * d + d <= m * d
<1>1. d * q < d * m
  OBVIOUS
<1>2. q + 1 <= m
  BY <1>1
<1>3. d * q + d <= d * m
  BY <1>2
<1> QED BY <1>3

\* An offset rounded up is aligned, and not behind the end of a block it was in.
LEMMA RoundedUp ==
  ASSUME NEW c \in Nat, NEW o, o = c % Align, o # 0, c <= BlockSize
  PROVE  /\ c + (Align - o) \in Nat /\ Align - o \in Nat
         /\ (c + (Align - o)) % Align = 0
         /\ c + (Align - o) <= BlockSize
<1> DEFINE q == c \div Align
           m == BlockSize \div Align
<1>0. Align \in Nat /\ Align > 0 /\ BlockSize \in Nat /\ BlockSize % Align = 0
  BY Sizes
<1>1. o \in 0..Align - 1 /\ q \in Nat /\ m \in Nat
  BY <1>0
<1>2. c = Align * q + o
  BY <1>0, Division
<1>3. BlockSize = m * Align
  BY <1>0, Exact
<1> HIDE DEF q, m
<1>5. q * Align \in Nat /\ m * Align \in Nat
  BY <1>0, <1>1
<1>6. q * Align < m * Align
  BY <1>0, <1>1, <1>2, <1>3, <1>5
<1>7. q * Align + Align <= m * Align
  BY <1>0, <1>1, <1>6, NextMultiple
<1>8. c + (Align - o) = q * Align + Align /\ c + (Align - o) \in Nat /\ Align - o \in Nat
  BY <1>0, <1>1, <1>2, <1>5
<1>9. (c + (Align - o)) % Align = 0
  BY <1>0, <1>1, <1>8, Multiple
<1>10. c + (Align - o) <= BlockSize
  BY <1>3, <1>7, <1>8
<1> QED BY <1>8, <1>9, <1>10

-----------------------------------------------------------------------------
(* The allocator. *)

LEMMA PaddedPlaced ==
  ASSUME NEW r \in PGresults, Placed(r), NEW b \in BOOLEAN, NEW s, s = Padded(r, b)
  PROVE  /\ s \in PGresults /\ Placed(s) /\ SameData(r, s)
         /\ b => s.curOffset % Align = 0
<1> DEFINE o == r.curOffset % Align
<1>1. /\ r.curOffset \in Nat /\ r.spaceLeft \in Nat /\ BlockSize \in Nat
      /\ Align \in Nat /\ 0 % Align = 0 /\ Pointer \in Nat
  BY Sizes DEF PGresults
<1>2. CASE ~b \/ o = 0
  BY <1>2 DEF Padded, SameData
<1>3. CASE b /\ o # 0
  <2> DEFINE c == r.curOffset + (Align - o)
             l == r.spaceLeft - (Align - o)
  <2>1. /\ r.cur # 0 /\ r.blocks[r.cur] = BlockSize
        /\ r.curOffset >= Pointer /\ r.curOffset + r.spaceLeft = BlockSize
        /\ \A p \in r.pieces : p.block = r.cur => p.from + p.size <= r.curOffset
    BY <1>1, <1>3 DEF Placed, Free
  <2>2. /\ c \in Nat /\ Align - o \in Nat /\ c % Align = 0 /\ c <= BlockSize
    BY <1>1, <1>3, <2>1, RoundedUp
  <2>3. s = [r EXCEPT !.curOffset = c, !.spaceLeft = l]
    BY <1>3 DEF Padded
  <2> HIDE DEF o
  <2>4. l \in Nat /\ c + l = BlockSize /\ c >= r.curOffset /\ c >= Pointer
    BY <1>1, <2>1, <2>2
  <2> HIDE DEF c, l
  <2>5. s \in PGresults
    BY <2>2, <2>3, <2>4 DEF PGresults
  <2>6. /\ s.curOffset = c /\ s.spaceLeft = l /\ s.cur = r.cur /\ s.blocks = r.blocks
        /\ s.pieces = r.pieces /\ SameData(r, s)
    BY <2>3 DEF PGresults, SameData
  <2>7. \A p \in r.pieces : p.from \in Nat /\ p.size \in Nat
    BY DEF PGresults, Pieces
  <2>8. Free(s)
    BY <1>1, <2>1, <2>2, <2>4, <2>6, <2>7 DEF Free
  <2>9. Placed(s)
    BY <2>6, <2>8 DEF Placed, Within
  <2> QED BY <2>2, <2>5, <2>6, <2>9
<1> QED BY <1>2, <1>3

\* A piece at the free end of the active block.
LEMMA CutPlaced ==
  ASSUME NEW r \in PGresults, Placed(r), NEW b \in BOOLEAN, b => r.curOffset % Align = 0,
         NEW n \in Nat, n > 0, n <= r.spaceLeft,
         NEW s, s = Cut(r, n, b).r
  PROVE  s \in PGresults /\ Placed(s) /\ SameData(r, s)
<1> DEFINE new == Piece(r.cur, r.curOffset, n, b)
<1>1. /\ r.cur \in Nat /\ r.curOffset \in Nat /\ r.spaceLeft \in Nat /\ Pointer \in Nat
      /\ r.blocks \in Seq(Nat) /\ r.pieces \in SUBSET Pieces /\ BlockSize \in Nat
  BY Sizes DEF PGresults
<1>2. /\ r.cur \in 1..Len(r.blocks) /\ r.blocks[r.cur] = BlockSize
      /\ r.curOffset >= Pointer /\ r.curOffset + r.spaceLeft = BlockSize
      /\ \A p \in r.pieces : p.block = r.cur => p.from + p.size <= r.curOffset
  <2>1. r.spaceLeft # 0 /\ r.cur \in 0..Len(r.blocks) /\ Free(r)
    BY <1>1 DEF Placed
  <2> QED BY <1>1, <2>1 DEF Free
<1>3. /\ new \in Pieces /\ new.block = r.cur /\ new.from = r.curOffset /\ new.size = n
      /\ new.binary = b
  BY <1>1 DEF Piece, Pieces
<1>4. s = [r EXCEPT !.pieces = @ \union {new}, !.curOffset = @ + n, !.spaceLeft = @ - n]
  BY DEF Cut, Did
<1> HIDE DEF new
<1>5. s \in PGresults
  <2>1. /\ r.pieces \union {new} \in SUBSET Pieces
        /\ r.curOffset + n \in Nat /\ r.spaceLeft - n \in Nat
    BY <1>1, <1>3
  <2> QED BY <1>4, <2>1 DEF PGresults
<1>6. /\ s.curOffset = r.curOffset + n /\ s.spaceLeft = r.spaceLeft - n /\ s.cur = r.cur
      /\ s.blocks = r.blocks /\ s.pieces = r.pieces \union {new} /\ SameData(r, s)
  BY <1>4 DEF PGresults, SameData
<1>7. \A p \in r.pieces : p.from \in Nat /\ p.size \in Nat
  BY <1>1 DEF Pieces
<1>8. Within(s, new)
  <2>1. new.block \in DOMAIN s.blocks /\ s.blocks[new.block] = BlockSize
    BY <1>1, <1>2, <1>3, <1>6
  <2>2. new.from >= Pointer /\ new.from + new.size <= BlockSize
    BY <1>1, <1>2, <1>3
  <2>3. new.binary => (new.from % Align) = 0
    BY <1>3
  <2> QED BY <2>1, <2>2, <2>3 DEF Within
<1>9. \A p \in r.pieces : Within(s, p) /\ Apart(p, new) /\ Apart(new, p)
  <2> TAKE p \in r.pieces
  <2>1. Within(s, p)
    BY <1>6 DEF Placed, Within
  <2>2. p.block = new.block => p.from + p.size <= new.from
    BY <1>2, <1>3
  <2> QED BY <2>1, <2>2 DEF Apart
<1>10. Free(s)
  <2>1. s.cur # 0 /\ s.blocks[s.cur] = BlockSize
    BY <1>1, <1>2, <1>6
  <2>2. s.curOffset >= Pointer /\ s.curOffset + s.spaceLeft = BlockSize
    BY <1>1, <1>2, <1>6
  <2>3. \A p \in r.pieces : p.block = s.cur => p.from + p.size <= s.curOffset
    <3>1. s.cur = r.cur /\ s.curOffset >= r.curOffset
      BY <1>1, <1>6
    <3>2. r.curOffset \in Nat /\ s.curOffset \in Nat
      BY <1>1, <1>6
    <3> QED BY <1>2, <1>7, <3>1, <3>2
  <2>4. new.from + new.size <= s.curOffset
    BY <1>1, <1>3, <1>6
  <2> QED BY <1>6, <2>1, <2>2, <2>3, <2>4 DEF Free
<1>11. \A p, q \in s.pieces : p # q => Apart(p, q)
  BY <1>6, <1>9 DEF Placed
<1> QED BY <1>5, <1>6, <1>8, <1>9, <1>10, <1>11 DEF Placed

\* A piece that fills a new block behind its overhead.
LEMMA SeparatePlaced ==
  ASSUME NEW r \in PGresults, Placed(r), NEW b \in BOOLEAN, NEW n \in Nat,
         NEW s, s = SeparateBlock(r, n, b).r
  PROVE  s \in PGresults /\ Placed(s) /\ SameData(r, s)
<1> DEFINE k == Len(r.blocks) + 1
           new == Piece(k, Overhead, n, b)
           blocks == Append(r.blocks, n + Overhead)
           cur == IF r.cur = 0 THEN k ELSE r.cur
           left == IF r.cur = 0 THEN 0 ELSE r.spaceLeft
<1>1. /\ r.cur \in 0..Len(r.blocks) /\ r.curOffset \in Nat /\ r.spaceLeft \in Nat
      /\ r.blocks \in Seq(Nat) /\ r.pieces \in SUBSET Pieces /\ Len(r.blocks) \in Nat
  BY DEF PGresults, Placed
<1>2. /\ Overhead \in Nat /\ Overhead >= Pointer /\ Overhead % Align = 0 /\ Pointer \in Nat
  BY Sizes
<1>3. /\ new \in Pieces /\ new.block = k /\ new.from = Overhead /\ new.size = n /\ new.binary = b
  BY <1>1, <1>2 DEF Piece, Pieces
<1>4. /\ blocks \in Seq(Nat) /\ Len(blocks) = k /\ blocks[k] = n + Overhead /\ n + Overhead \in Nat
      /\ \A i \in 1..Len(r.blocks) : blocks[i] = r.blocks[i]
  BY <1>1, <1>2
<1>5. s = [r EXCEPT !.blocks = blocks, !.pieces = @ \union {new}, !.cur = cur, !.spaceLeft = left]
  BY DEF SeparateBlock, Did
<1>6. cur \in Nat /\ cur \in 0..k /\ left \in Nat
  BY <1>1
<1> HIDE DEF new, blocks, cur, left
<1>7. s \in PGresults
  <2>1. r.pieces \union {new} \in SUBSET Pieces
    BY <1>1, <1>3
  <2> QED BY <1>4, <1>5, <1>6, <2>1 DEF PGresults
<1>8. /\ s.curOffset = r.curOffset /\ s.spaceLeft = left /\ s.cur = cur /\ s.blocks = blocks
      /\ s.pieces = r.pieces \union {new} /\ SameData(r, s)
  BY <1>5 DEF PGresults, SameData
<1>9. \A p \in r.pieces : p.block \in 1..Len(r.blocks) /\ Within(r, p)
  BY <1>1 DEF Placed, Within
<1>10. \A p \in r.pieces : Within(s, p) /\ Apart(p, new) /\ Apart(new, p)
  <2> TAKE p \in r.pieces
  <2>1. p.block # k /\ p.block \in 1..k
    BY <1>1, <1>9
  <2>2. /\ s.blocks[p.block] = r.blocks[p.block] /\ DOMAIN s.blocks = 1..k
        /\ Within(r, p)
    BY <1>4, <1>8, <1>9
  <2>3. Within(s, p)
    BY <2>1, <2>2 DEF Within
  <2> QED BY <1>3, <2>1, <2>3 DEF Apart
<1>11. Within(s, new)
  BY <1>1, <1>2, <1>3, <1>4, <1>8 DEF Within
<1>12. Free(s)
  <2>1. CASE r.spaceLeft = 0 /\ r.curOffset = 0
    BY <1>8, <2>1 DEF Free, left
  <2>2. CASE ~(r.spaceLeft = 0 /\ r.curOffset = 0)
    <3>1. /\ r.cur # 0 /\ r.blocks[r.cur] = BlockSize
          /\ r.curOffset >= Pointer /\ r.curOffset + r.spaceLeft = BlockSize
          /\ \A p \in r.pieces : p.block = r.cur => p.from + p.size <= r.curOffset
      BY <2>2 DEF Placed, Free
    <3>2. s.cur = r.cur /\ s.spaceLeft = r.spaceLeft /\ s.blocks[r.cur] = r.blocks[r.cur]
      <4>1. cur = r.cur /\ left = r.spaceLeft /\ r.cur \in 1..Len(r.blocks)
        BY <1>1, <3>1 DEF cur, left
      <4> QED BY <1>4, <1>8, <4>1
    <3>3. new.block # s.cur
      BY <1>1, <1>3, <3>2
    <3> QED BY <1>8, <3>1, <3>2, <3>3 DEF Free
  <2> QED BY <2>1, <2>2
<1>13. \A p, q \in s.pieces : p # q => Apart(p, q)
  BY <1>8, <1>10 DEF Placed
<1> QED BY <1>4, <1>6, <1>7, <1>8, <1>10, <1>11, <1>12, <1>13 DEF Placed

\* A piece at the beginning of a new active block.
LEMMA NewBlockPlaced ==
  ASSUME NEW r \in PGresults, Placed(r), NEW b \in BOOLEAN,
         NEW n \in Nat, n > 0, n < Threshold,
         NEW s, s = NewBlock(r, n, b).r
  PROVE  s \in PGresults /\ Placed(s) /\ SameData(r, s)
<1> DEFINE start == IF b THEN Overhead ELSE Pointer
           k == Len(r.blocks) + 1
           blocks == Append(r.blocks, BlockSize)
           left == BlockSize - start
           t == [r EXCEPT !.blocks = blocks, !.cur = k, !.curOffset = start, !.spaceLeft = left]
<1>1. /\ r.cur \in 0..Len(r.blocks) /\ r.blocks \in Seq(Nat) /\ r.pieces \in SUBSET Pieces
      /\ Len(r.blocks) \in Nat
  BY DEF PGresults, Placed
<1>2. /\ start \in Nat /\ start >= Pointer /\ (b => start % Align = 0) /\ left \in Nat
      /\ n <= left /\ start + left = BlockSize /\ BlockSize \in Nat
  BY Sizes
<1>3. /\ blocks \in Seq(Nat) /\ Len(blocks) = k /\ blocks[k] = BlockSize
      /\ \A i \in 1..Len(r.blocks) : blocks[i] = r.blocks[i]
  BY <1>1, <1>2
<1>4. s = Cut(t, n, b).r
  BY DEF NewBlock
<1> HIDE DEF start, blocks, left
<1>5. t \in PGresults
  <2>1. k \in Nat
    BY <1>1
  <2> QED BY <1>2, <1>3, <2>1 DEF PGresults
<1>6. /\ t.curOffset = start /\ t.spaceLeft = left /\ t.cur = k /\ t.blocks = blocks
      /\ t.pieces = r.pieces /\ SameData(r, t)
  BY DEF PGresults, SameData
<1> HIDE DEF t
<1>7. \A p \in r.pieces : p.block \in 1..Len(r.blocks) /\ Within(r, p)
  BY <1>1 DEF Placed, Within
<1>8. \A p \in t.pieces : Within(t, p) /\ p.block # t.cur
  <2> TAKE p \in t.pieces
  <2>1. p.block # k /\ p.block \in 1..k /\ Within(r, p)
    BY <1>1, <1>6, <1>7
  <2>2. DOMAIN r.blocks = 1..Len(r.blocks) /\ DOMAIN t.blocks = 1..k /\ p.block \in 1..Len(r.blocks)
    BY <1>1, <1>3, <1>6, <1>7
  <2>3. t.blocks[p.block] = r.blocks[p.block] /\ t.cur = k
    BY <1>3, <1>6, <2>2
  <2> HIDE DEF k
  <2> QED BY <2>1, <2>2, <2>3 DEF Within
<1>9. Free(t)
  BY <1>1, <1>2, <1>3, <1>6, <1>8 DEF Free
<1>10. Placed(t)
  BY <1>1, <1>3, <1>6, <1>8, <1>9 DEF Placed
<1>11. (b => t.curOffset % Align = 0) /\ n <= t.spaceLeft
  BY <1>2, <1>6
<1>12. s \in PGresults /\ Placed(s) /\ SameData(t, s)
  BY <1>4, <1>5, <1>10, <1>11, CutPlaced
<1> QED BY <1>6, <1>12 DEF SameData

\* What pqResultAlloc hands out lies in its block, aligned and apart from what it
\* handed out before, and it changes nothing but the memory.
LEMMA Allocated ==
  ASSUME NEW r \in PGresults, Placed(r), NEW n \in Nat, NEW b \in BOOLEAN,
         NEW o \in pqResultAlloc(r, n, b)
  PROVE  /\ o = [r |-> o.r, ok |-> o.ok] /\ o.ok \in BOOLEAN
         /\ o.r \in PGresults /\ Placed(o.r) /\ SameData(r, o.r)
<1> DEFINE s == Padded(r, b)
<1>1. /\ s \in PGresults /\ Placed(s) /\ SameData(r, s) /\ (b => s.curOffset % Align = 0)
  BY PaddedPlaced
<1>2. s.spaceLeft \in Nat
  BY <1>1 DEF PGresults
<1>3. CASE n = 0
  <2>1. o = Did(r)
    BY <1>3 DEF pqResultAlloc
  <2>2. o.r = r /\ o.ok = TRUE /\ o = [r |-> o.r, ok |-> o.ok]
    BY <2>1 DEF Did
  <2> QED BY <2>2 DEF SameData
<1>4. CASE n # 0 /\ Fits(n, s.spaceLeft)
  <2>1. o = Cut(s, n, b)
    BY <1>4 DEF pqResultAlloc
  <2>2. n <= s.spaceLeft /\ n > 0
    BY <1>2, <1>4 DEF Fits
  <2>3. o = [r |-> o.r, ok |-> o.ok] /\ o.ok = TRUE
    BY <2>1 DEF Cut, Did
  <2> HIDE DEF s
  <2>4. o.r \in PGresults /\ Placed(o.r) /\ SameData(s, o.r)
    BY <1>1, <2>1, <2>2, CutPlaced
  <2> QED BY <1>1, <2>3, <2>4 DEF SameData
<1>5. CASE n # 0 /\ ~Fits(n, s.spaceLeft)
  <2>1. o = Fails(s) \/ o = IF n >= Threshold THEN SeparateBlock(s, n, b) ELSE NewBlock(s, n, b)
    BY <1>5 DEF pqResultAlloc
  <2> HIDE DEF s
  <2>2. CASE o = Fails(s)
    BY <1>1, <2>2 DEF Fails
  <2>3. CASE n >= Threshold /\ o = SeparateBlock(s, n, b)
    <3>1. o = [r |-> o.r, ok |-> o.ok] /\ o.ok = TRUE
      BY <2>3 DEF SeparateBlock, Did
    <3>2. o.r \in PGresults /\ Placed(o.r) /\ SameData(s, o.r)
      BY <1>1, <2>3, SeparatePlaced
    <3> QED BY <1>1, <3>1, <3>2 DEF SameData
  <2>4. CASE n < Threshold /\ o = NewBlock(s, n, b)
    <3>1. o = [r |-> o.r, ok |-> o.ok] /\ o.ok = TRUE
      BY <2>4 DEF NewBlock, Cut, Did
    <3>2. o.r \in PGresults /\ Placed(o.r) /\ SameData(s, o.r)
      BY <1>1, <1>5, <2>4, NewBlockPlaced
    <3> QED BY <1>1, <3>1, <3>2 DEF SameData
  <2>5. n >= Threshold \/ n < Threshold
    BY Sizes
  <2> QED BY <2>1, <2>2, <2>3, <2>4, <2>5
<1> QED BY <1>3, <1>4, <1>5

-----------------------------------------------------------------------------
(* Loops that allocate.  What every step takes from J[k - 1] to J[k], the  *)
(* loop takes from J[0] to its last.  The outcomes after k steps are        *)
(* defined for every k, or else there is a first k they are not defined     *)
(* for: that is not 0, and does not follow one they are defined for.        *)

LEMMA Stepwise ==
  ASSUME NEW n \in Nat, NEW after, NEW J, after[0] \subseteq J[0],
         \A k \in 1..n : after[k - 1] \subseteq J[k - 1] => after[k] \subseteq J[k]
  PROVE  \A k \in 0..n : after[k] \subseteq J[k]
<1> DEFINE S == {k \in 0..n : ~(after[k] \subseteq J[k])}
<1>1. SUFFICES ASSUME S # {} PROVE FALSE
  OBVIOUS
<1>2. PICK k \in S : \A j \in S : k <= j
  <2>1. S \in SUBSET Nat
    OBVIOUS
  <2> HIDE DEF S
  <2> QED BY <1>1, <2>1, LeastElement
<1>3. k \in 0..n /\ ~(after[k] \subseteq J[k]) /\ k # 0
  OBVIOUS
<1>4. k \in 1..n /\ k - 1 \in 0..n /\ k - 1 \notin S
  <2> HIDE DEF S
  <2> QED BY <1>2, <1>3
<1>5. after[k - 1] \subseteq J[k - 1]
  BY <1>4
<1> QED BY <1>3, <1>4, <1>5

\* The strings of AllocEach.
LEMMA AllocEachSteps ==
  ASSUME NEW sizes \in Seq(Nat), NEW J, NEW start, start \subseteq J[0],
         \A k \in 1..Len(sizes) : \A o \in J[k - 1] :
           IF o.ok THEN pqResultAlloc(o.r, sizes[k], FALSE) \subseteq J[k] ELSE o \in J[k]
  PROVE  AllocEach(start, sizes) \subseteq J[Len(sizes)]
<1> DEFINE n == Len(sizes)
           first == start
           Step(s, k) == pqResultAlloc(s, sizes[k], FALSE)
           F(outcomes, k) == Then(outcomes, LAMBDA s : Step(s, k))
           Run(m, h) == h = [k \in 0..m |-> IF k = 0 THEN first ELSE F(h[k - 1], k)]
           after == CHOOSE h : Run(n, h)
<1>1. AllocEach(start, sizes) = after[n]
  BY DEF AllocEach, Then
<1>2. \A k \in 1..n : \A o \in J[k - 1] : IF o.ok THEN Step(o.r, k) \subseteq J[k] ELSE o \in J[k]
  OBVIOUS
<1>3. n \in Nat /\ first \subseteq J[0]
  OBVIOUS
<1> HIDE DEF Step, n, first
<1>4. \A k \in 1..n : \A outcomes : outcomes \subseteq J[k - 1] => F(outcomes, k) \subseteq J[k]
  <2> TAKE k \in 1..n
  <2> TAKE outcomes
  <2> HAVE outcomes \subseteq J[k - 1]
  <2> QED BY <1>2 DEF Then
<1> HIDE DEF F
<1>5. \A m \in Nat : \E h : Run(m, h)
  <2> DEFINE S == {m \in Nat : ~ \E h : Run(m, h)}
  <2>1. SUFFICES ASSUME S # {} PROVE FALSE
    OBVIOUS
  <2>2. PICK m \in S : \A j \in S : m <= j
    <3>1. S \in SUBSET Nat
      OBVIOUS
    <3> HIDE DEF S
    <3> QED BY <2>1, <3>1, LeastElement
  <2>3. m \in Nat
    OBVIOUS
  <2>4. CASE m = 0
    <3>1. Run(0, [k \in 0..0 |-> first])
      OBVIOUS
    <3> QED BY <2>4, <3>1
  <2>5. CASE m # 0
    <3>1. m - 1 \in Nat /\ m - 1 \notin S
      <4> HIDE DEF S
      <4> QED BY <2>2, <2>3, <2>5
    <3>2. PICK h : Run(m - 1, h)
      BY <3>1
    <3>3. Run(m, [k \in 0..m |-> IF k = m THEN F(h[m - 1], m) ELSE h[k]])
      BY <2>3, <2>5, <3>1, <3>2
    <3> QED BY <3>3
  <2> QED BY <2>4, <2>5
<1>6. Run(n, after)
  <2> HIDE DEF Run
  <2> QED BY <1>3, <1>5
<1> HIDE DEF after
<1>7. after[0] = first /\ \A k \in 1..n : after[k] = F(after[k - 1], k)
  <2>1. after = [k \in 0..n |-> IF k = 0 THEN first ELSE F(after[k - 1], k)]
    BY <1>6
  <2> QED BY <1>3, <2>1
<1> HIDE DEF Run
<1>8. \A k \in 0..n : after[k] \subseteq J[k]
  <2>1. \A k \in 1..n : after[k - 1] \subseteq J[k - 1] => after[k] \subseteq J[k]
    BY <1>4, <1>7
  <2>2. after[0] \subseteq J[0]
    BY <1>3, <1>7
  <2> QED BY <1>3, <2>1, <2>2, Stepwise
<1> QED BY <1>1, <1>3, <1>8 DEF n

\* The cells of CopyRow.
LEMMA CopyRowSteps ==
  ASSUME NEW r, NEW src, NEW t, NEW J, Did(r) \in J[0], Len(src.attrs) \in Nat,
         \A k \in 1..Len(src.attrs) : \A o \in J[k - 1] :
           IF o.ok THEN PQsetvalue(o.r, t, k, src.rows[t][k]) \subseteq J[k] ELSE o \in J[k]
  PROVE  CopyRow(r, src, t) \subseteq J[Len(src.attrs)]
<1> DEFINE n == Len(src.attrs)
           first == {Did(r)}
           Step(s, k) == PQsetvalue(s, t, k, src.rows[t][k])
           F(outcomes, k) == Then(outcomes, LAMBDA s : Step(s, k))
           Run(m, h) == h = [k \in 0..m |-> IF k = 0 THEN first ELSE F(h[k - 1], k)]
           after == CHOOSE h : Run(n, h)
<1>1. CopyRow(r, src, t) = after[n]
  BY DEF CopyRow, Then
<1>2. \A k \in 1..n : \A o \in J[k - 1] : IF o.ok THEN Step(o.r, k) \subseteq J[k] ELSE o \in J[k]
  OBVIOUS
<1>3. n \in Nat /\ first \subseteq J[0]
  OBVIOUS
<1> HIDE DEF Step, n, first
<1>4. \A k \in 1..n : \A outcomes : outcomes \subseteq J[k - 1] => F(outcomes, k) \subseteq J[k]
  <2> TAKE k \in 1..n
  <2> TAKE outcomes
  <2> HAVE outcomes \subseteq J[k - 1]
  <2> QED BY <1>2 DEF Then
<1> HIDE DEF F
<1>5. \A m \in Nat : \E h : Run(m, h)
  <2> DEFINE S == {m \in Nat : ~ \E h : Run(m, h)}
  <2>1. SUFFICES ASSUME S # {} PROVE FALSE
    OBVIOUS
  <2>2. PICK m \in S : \A j \in S : m <= j
    <3>1. S \in SUBSET Nat
      OBVIOUS
    <3> HIDE DEF S
    <3> QED BY <2>1, <3>1, LeastElement
  <2>3. m \in Nat
    OBVIOUS
  <2>4. CASE m = 0
    <3>1. Run(0, [k \in 0..0 |-> first])
      OBVIOUS
    <3> QED BY <2>4, <3>1
  <2>5. CASE m # 0
    <3>1. m - 1 \in Nat /\ m - 1 \notin S
      <4> HIDE DEF S
      <4> QED BY <2>2, <2>3, <2>5
    <3>2. PICK h : Run(m - 1, h)
      BY <3>1
    <3>3. Run(m, [k \in 0..m |-> IF k = m THEN F(h[m - 1], m) ELSE h[k]])
      BY <2>3, <2>5, <3>1, <3>2
    <3> QED BY <3>3
  <2> QED BY <2>4, <2>5
<1>6. Run(n, after)
  <2> HIDE DEF Run
  <2> QED BY <1>3, <1>5
<1> HIDE DEF after
<1>7. after[0] = first /\ \A k \in 1..n : after[k] = F(after[k - 1], k)
  <2>1. after = [k \in 0..n |-> IF k = 0 THEN first ELSE F(after[k - 1], k)]
    BY <1>6
  <2> QED BY <1>3, <2>1
<1> HIDE DEF Run
<1>8. \A k \in 0..n : after[k] \subseteq J[k]
  <2>1. \A k \in 1..n : after[k - 1] \subseteq J[k - 1] => after[k] \subseteq J[k]
    BY <1>4, <1>7
  <2>2. after[0] \subseteq J[0]
    BY <1>3, <1>7
  <2> QED BY <1>3, <2>1, <2>2, Stepwise
<1> QED BY <1>1, <1>3, <1>8 DEF n

\* The rows of CopyTuples.
LEMMA CopyTuplesSteps ==
  ASSUME NEW r, NEW src, NEW J, Did(r) \in J[0], Len(src.rows) \in Nat,
         \A k \in 1..Len(src.rows) : \A o \in J[k - 1] :
           IF o.ok THEN CopyRow(o.r, src, k) \subseteq J[k] ELSE o \in J[k]
  PROVE  CopyTuples(r, src) \subseteq J[Len(src.rows)]
<1> DEFINE n == Len(src.rows)
           first == {Did(r)}
           Step(s, k) == CopyRow(s, src, k)
           F(outcomes, k) == Then(outcomes, LAMBDA s : Step(s, k))
           Run(m, h) == h = [k \in 0..m |-> IF k = 0 THEN first ELSE F(h[k - 1], k)]
           after == CHOOSE h : Run(n, h)
<1>1. CopyTuples(r, src) = after[n]
  BY DEF CopyTuples, Then
<1>2. \A k \in 1..n : \A o \in J[k - 1] : IF o.ok THEN Step(o.r, k) \subseteq J[k] ELSE o \in J[k]
  OBVIOUS
<1>3. n \in Nat /\ first \subseteq J[0]
  OBVIOUS
<1> HIDE DEF Step, n, first
<1>4. \A k \in 1..n : \A outcomes : outcomes \subseteq J[k - 1] => F(outcomes, k) \subseteq J[k]
  <2> TAKE k \in 1..n
  <2> TAKE outcomes
  <2> HAVE outcomes \subseteq J[k - 1]
  <2> QED BY <1>2 DEF Then
<1> HIDE DEF F
<1>5. \A m \in Nat : \E h : Run(m, h)
  <2> DEFINE S == {m \in Nat : ~ \E h : Run(m, h)}
  <2>1. SUFFICES ASSUME S # {} PROVE FALSE
    OBVIOUS
  <2>2. PICK m \in S : \A j \in S : m <= j
    <3>1. S \in SUBSET Nat
      OBVIOUS
    <3> HIDE DEF S
    <3> QED BY <2>1, <3>1, LeastElement
  <2>3. m \in Nat
    OBVIOUS
  <2>4. CASE m = 0
    <3>1. Run(0, [k \in 0..0 |-> first])
      OBVIOUS
    <3> QED BY <2>4, <3>1
  <2>5. CASE m # 0
    <3>1. m - 1 \in Nat /\ m - 1 \notin S
      <4> HIDE DEF S
      <4> QED BY <2>2, <2>3, <2>5
    <3>2. PICK h : Run(m - 1, h)
      BY <3>1
    <3>3. Run(m, [k \in 0..m |-> IF k = m THEN F(h[m - 1], m) ELSE h[k]])
      BY <2>3, <2>5, <3>1, <3>2
    <3> QED BY <3>3
  <2> QED BY <2>4, <2>5
<1>6. Run(n, after)
  <2> HIDE DEF Run
  <2> QED BY <1>3, <1>5
<1> HIDE DEF after
<1>7. after[0] = first /\ \A k \in 1..n : after[k] = F(after[k - 1], k)
  <2>1. after = [k \in 0..n |-> IF k = 0 THEN first ELSE F(after[k - 1], k)]
    BY <1>6
  <2> QED BY <1>3, <2>1
<1> HIDE DEF Run
<1>8. \A k \in 0..n : after[k] \subseteq J[k]
  <2>1. \A k \in 1..n : after[k - 1] \subseteq J[k - 1] => after[k] \subseteq J[k]
    BY <1>4, <1>7
  <2>2. after[0] \subseteq J[0]
    BY <1>3, <1>7
  <2> QED BY <1>3, <2>1, <2>2, Stepwise
<1> QED BY <1>1, <1>3, <1>8 DEF n

-----------------------------------------------------------------------------
(* Making, filling and copying results. *)

Arrayed(r) == Len(r.rows) <= r.tupArrSize /\ r.tupArrSize <= MaxInt
Shaped(r) == \A t \in 1..Len(r.rows) : Len(r.rows[t]) = Len(r.attrs)

\* Results whose memory is in order, whose rows are in their array and have a
\* cell for each column.
Sound == {r \in PGresults : Placed(r) /\ Arrayed(r) /\ Shaped(r)}
Outcomes == [r : Sound, ok : BOOLEAN]
Like(r) == {o \in Outcomes : SameData(r, o.r)}

LEMMA SoundFacts ==
  ASSUME NEW r \in Sound
  PROVE  /\ r \in PGresults /\ Placed(r) /\ Arrayed(r) /\ Shaped(r)
         /\ r.attrs \in Seq(Nat) /\ r.rows \in Seq(Seq(Cells)) /\ r.tupArrSize \in Nat
         /\ r.events \in Seq(BOOLEAN) /\ Len(r.attrs) \in Nat /\ Len(r.rows) \in Nat
         /\ MaxInt \in Nat
BY ResultAssumption DEF Sound, PGresults

LEMMA Outcome ==
  ASSUME NEW r \in Sound
  PROVE  /\ Did(r) \in Like(r) /\ Did(r).r = r /\ Did(r).ok = TRUE
         /\ Fails(r) \in Like(r) /\ Fails(r).r = r /\ Fails(r).ok = FALSE
BY DEF Did, Fails, Like, Outcomes, SameData

LEMMA AllocSound ==
  ASSUME NEW r \in Sound, NEW n \in Nat, NEW b \in BOOLEAN
  PROVE  pqResultAlloc(r, n, b) \subseteq Like(r)
<1> SUFFICES ASSUME NEW o \in pqResultAlloc(r, n, b) PROVE o \in Like(r)
  OBVIOUS
<1>1. /\ o = [r |-> o.r, ok |-> o.ok] /\ o.ok \in BOOLEAN
      /\ o.r \in PGresults /\ Placed(o.r) /\ SameData(r, o.r)
  BY SoundFacts, Allocated
<1>2. Arrayed(o.r) /\ Shaped(o.r)
  BY <1>1, SoundFacts DEF SameData, Arrayed, Shaped
<1> QED BY <1>1, <1>2 DEF Like, Outcomes, Sound

\* K is what is known of the outcomes before, and lost by no allocation.
LEMMA EachKeeps ==
  ASSUME NEW K, K \subseteq Outcomes, \A o \in K : o.ok => Like(o.r) \subseteq K,
         NEW start, start \subseteq K, NEW sizes \in Seq(Nat)
  PROVE  AllocEach(start, sizes) \subseteq K
<1> DEFINE J == [k \in 0..Len(sizes) |-> K]
<1>1. ASSUME NEW k \in 1..Len(sizes), NEW o \in K
      PROVE  IF o.ok THEN pqResultAlloc(o.r, sizes[k], FALSE) \subseteq K ELSE o \in K
  <2>1. o.r \in Sound /\ sizes[k] \in Nat
    BY DEF Outcomes
  <2>2. pqResultAlloc(o.r, sizes[k], FALSE) \subseteq Like(o.r)
    BY <2>1, AllocSound
  <2> QED BY <2>2
<1>2. \A k \in 0..Len(sizes) : J[k] = K
  OBVIOUS
<1>3. Len(sizes) \in Nat
  OBVIOUS
<1> HIDE DEF J
<1>4. \A k \in 1..Len(sizes) : \A o \in J[k - 1] :
        IF o.ok THEN pqResultAlloc(o.r, sizes[k], FALSE) \subseteq J[k] ELSE o \in J[k]
  <2> TAKE k \in 1..Len(sizes)
  <2> TAKE o \in J[k - 1]
  <2>1. J[k - 1] = K /\ J[k] = K
    BY <1>2, <1>3
  <2> QED BY <1>1, <2>1
<1>5. start \subseteq J[0] /\ J[Len(sizes)] = K
  BY <1>2, <1>3
<1>6. AllocEach(start, sizes) \subseteq J[Len(sizes)]
  BY <1>4, <1>5, AllocEachSteps
<1> QED BY <1>5, <1>6

\* Other rows or columns in the same memory.
SameMemory(r, s) ==
  /\ s.cur = r.cur /\ s.blocks = r.blocks /\ s.curOffset = r.curOffset
  /\ s.spaceLeft = r.spaceLeft /\ s.pieces = r.pieces

LEMMA StaysSound ==
  ASSUME NEW r \in Sound, NEW s \in PGresults, SameMemory(r, s), Arrayed(s), Shaped(s)
  PROVE  s \in Sound
<1>1. Placed(s)
  BY DEF Sound, SameMemory, Placed, Within, Free
<1> QED BY <1>1 DEF Sound

\* The rows, the array and the events are left alone.
LEMMA AttrsSet ==
  ASSUME NEW r \in Sound, r.rows = <<>>, NEW attrs \in Seq(Nat), NEW o \in PQsetResultAttrs(r, attrs)
  PROVE  /\ o \in Outcomes /\ o.r.rows = <<>> /\ o.r.events = r.events
         /\ o.ok => r.attrs = <<>> /\ o.r.attrs = attrs
<1>1. CASE r.attrs # <<>> \/ attrs = <<>>
  <2>1. o = Fails(r) \/ (r.attrs = <<>> /\ attrs = <<>> /\ o = Did(r))
    BY <1>1 DEF PQsetResultAttrs
  <2> QED BY <2>1, Outcome DEF Like
<1>2. CASE r.attrs = <<>> /\ attrs # <<>>
  <2> DEFINE first == pqResultAlloc(r, Len(attrs) * Pointer, TRUE)
             start == Then(first, LAMBDA s : {Did([s EXCEPT !.attrs = attrs])})
             sizes == [i \in 1..Len(attrs) |-> attrs[i] + 1]
             t == [r EXCEPT !.attrs = attrs]
  <2>1. o \in AllocEach(start, sizes)
    BY <1>2 DEF PQsetResultAttrs
  <2>2. sizes \in Seq(Nat) /\ Len(attrs) * Pointer \in Nat
    BY ResultAssumption
  <2>3. first \subseteq Like(r)
    BY <2>2, AllocSound
  <2> DEFINE K == {q \in Outcomes : /\ q.r.rows = <<>> /\ q.r.events = r.events
                                    /\ q.ok => q.r.attrs = attrs}
  <2>4. ASSUME NEW q \in first
        PROVE  IF q.ok THEN Did([q.r EXCEPT !.attrs = attrs]) \in K ELSE q \in K
    <3> DEFINE s == [q.r EXCEPT !.attrs = attrs]
    <3>1. q \in Outcomes /\ q.r \in Sound /\ SameData(r, q.r) /\ q.r.rows = <<>>
      BY <2>3 DEF Like, Outcomes, SameData
    <3>2. s \in PGresults
      BY <3>1 DEF Sound, PGresults
    <3>3. /\ s.attrs = attrs /\ s.rows = <<>> /\ s.events = r.events
          /\ s.tupArrSize = q.r.tupArrSize /\ SameMemory(q.r, s)
      BY <3>1 DEF Sound, PGresults, SameData, SameMemory
    <3> HIDE DEF s
    <3>4. Arrayed(s) /\ Shaped(s)
      BY <3>1, <3>3 DEF Sound, Arrayed, Shaped
    <3>5. s \in Sound
      BY <3>1, <3>2, <3>3, <3>4, StaysSound
    <3>6. q.ok => Did(s) \in K
      BY <3>3, <3>5, Outcome DEF Like
    <3>7. ~q.ok => q \in K
      BY <3>1 DEF SameData
    <3> QED BY <3>6, <3>7 DEF s
  <2>5. start \subseteq K
    <3> HIDE DEF first, K
    <3> QED BY <2>4 DEF Then
  <2>6. \A q \in K : q.ok => Like(q.r) \subseteq K
    BY DEF Like, SameData
  <2>7. K \subseteq Outcomes
    OBVIOUS
  <2> HIDE DEF K, start, sizes
  <2>8. o \in K
    BY <2>1, <2>2, <2>5, <2>6, <2>7, EachKeeps
  <2> QED BY <1>2, <2>8 DEF K
<1> QED BY <1>1, <1>2

\* The array grows to a size an int can hold, or not at all.
LEMMA TupleAdded ==
  ASSUME NEW r \in Sound, NEW row \in Seq(Cells), Len(row) = Len(r.attrs),
         NEW o \in pqAddTuple(r, row)
  PROVE  /\ o \in Outcomes /\ o.r.attrs = r.attrs /\ o.r.events = r.events
         /\ o.ok => o.r.rows = Append(r.rows, row)
<1> DEFINE rows == Append(r.rows, row)
<1>1. /\ rows \in Seq(Seq(Cells)) /\ Len(rows) = Len(r.rows) + 1 /\ Len(r.rows) \in Nat
      /\ \A i \in 1..Len(rows) : Len(rows[i]) = Len(r.attrs)
  <2>1. r.rows \in Seq(Seq(Cells)) /\ \A i \in 1..Len(r.rows) : Len(r.rows[i]) = Len(r.attrs)
    BY SoundFacts DEF Shaped
  <2> QED BY <2>1
<1>2. /\ r.tupArrSize \in Nat /\ Len(r.rows) <= r.tupArrSize /\ r.tupArrSize <= MaxInt
      /\ MaxInt \in Nat
  BY SoundFacts DEF Arrayed
<1> DEFINE n == IF Len(r.rows) < r.tupArrSize THEN r.tupArrSize ELSE Doubled(r.tupArrSize)
           s == [r EXCEPT !.rows = rows, !.tupArrSize = n]
<1>3. o = Fails(r) \/ (o = Did(s) /\ (Len(r.rows) < r.tupArrSize \/ Doubled(r.tupArrSize) >= 0))
  <2>1. CASE Len(r.rows) < r.tupArrSize
    <3>1. o = Did([r EXCEPT !.rows = Append(@, row)])
      BY <2>1 DEF pqAddTuple
    <3>2. [r EXCEPT !.rows = Append(@, row)] = s
      BY <2>1 DEF Sound, PGresults
    <3> QED BY <2>1, <3>1, <3>2
  <2>2. CASE ~(Len(r.rows) < r.tupArrSize)
    <3>1. Doubled(r.tupArrSize) \in Int
      BY <1>2, ResultAssumption DEF Doubled
    <3>2. \/ o = Fails(r)
          \/ /\ ~(Doubled(r.tupArrSize) < 0)
             /\ o = Did([[r EXCEPT !.rows = Append(@, row)] EXCEPT !.tupArrSize = Doubled(r.tupArrSize)])
      BY <2>2 DEF pqAddTuple
    <3>3. [[r EXCEPT !.rows = Append(@, row)] EXCEPT !.tupArrSize = Doubled(r.tupArrSize)] = s
      BY <2>2 DEF Sound, PGresults
    <3> QED BY <3>1, <3>2, <3>3
  <2> QED BY <2>1, <2>2
<1>4. CASE o = Fails(r)
  BY <1>4, Outcome DEF Like
<1>5. CASE o = Did(s) /\ (Len(r.rows) < r.tupArrSize \/ Doubled(r.tupArrSize) >= 0)
  <2>1. n \in Nat /\ Len(rows) <= n /\ n <= MaxInt
    <3>1. CASE Len(r.rows) < r.tupArrSize
      BY <1>1, <1>2, <3>1
    <3>2. CASE ~(Len(r.rows) < r.tupArrSize)
      <4>1. Doubled(r.tupArrSize) >= 0 /\ n = Doubled(r.tupArrSize) /\ Len(r.rows) = r.tupArrSize
        BY <1>1, <1>2, <1>5, <3>2
      <4>2. n \in Nat /\ n > r.tupArrSize /\ n <= MaxInt
        BY <1>2, <4>1, ResultAssumption DEF Doubled
      <4> QED BY <1>1, <1>2, <4>1, <4>2
    <3> QED BY <3>1, <3>2
  <2> HIDE DEF rows, n
  <2>2. s \in Sound /\ s.rows = rows /\ s.attrs = r.attrs /\ s.events = r.events
    <3>1. s \in PGresults
      BY <1>1, <2>1 DEF Sound, PGresults
    <3>2. /\ s.rows = rows /\ s.tupArrSize = n /\ s.attrs = r.attrs /\ s.events = r.events
          /\ SameMemory(r, s)
      BY DEF Sound, PGresults, SameMemory
    <3> HIDE DEF s
    <3>3. Arrayed(s) /\ Shaped(s)
      BY <1>1, <2>1, <3>2 DEF Arrayed, Shaped
    <3> QED BY <3>1, <3>2, <3>3, StaysSound
  <2> HIDE DEF s
  <2>3. o \in Outcomes /\ o.r = s
    BY <1>5, <2>2, Outcome DEF Like
  <2> QED BY <2>2, <2>3 DEF rows
<1> QED BY <1>3, <1>4, <1>5

LEMMA Stored ==
  ASSUME NEW r \in Sound, NEW t \in 1..Len(r.rows), NEW f \in 1..Len(r.attrs), NEW v \in Cells,
         NEW o \in StoreValue(r, t, f, v)
  PROVE  /\ o \in Outcomes /\ o.r.attrs = r.attrs /\ o.r.events = r.events
         /\ Len(o.r.rows) = Len(r.rows) /\ \A i \in 1..Len(r.rows) : i # t => o.r.rows[i] = r.rows[i]
         /\ o.ok => /\ o.r.rows[t][f] = v
                    /\ \A g \in 1..Len(r.attrs) : g # f => o.r.rows[t][g] = r.rows[t][g]
<1> DEFINE first == IF v = NULL \/ v = 0 THEN {Did(r)} ELSE pqResultAlloc(r, v + 1, TRUE)
<1>1. first \subseteq Like(r)
  <2>1. CASE v = NULL \/ v = 0
    BY <2>1, Outcome
  <2>2. CASE ~(v = NULL \/ v = 0)
    <3>1. v + 1 \in Nat
      BY <2>2 DEF Cells
    <3> QED BY <2>2, <3>1, AllocSound
  <2> QED BY <2>1, <2>2
<1>2. PICK q \in first : o = IF q.ok THEN Did([q.r EXCEPT !.rows[t][f] = v]) ELSE q
  BY DEF StoreValue, Then
<1>3. q \in Outcomes /\ q.r \in Sound /\ SameData(r, q.r)
  BY <1>1 DEF Like, Outcomes
<1>4. CASE ~q.ok
  BY <1>2, <1>3, <1>4 DEF SameData
<1>5. CASE q.ok
  <2> DEFINE row == [q.r.rows[t] EXCEPT ![f] = v]
             rows == [q.r.rows EXCEPT ![t] = row]
             s == [q.r EXCEPT !.rows = rows]
  <2>1. /\ q.r.rows = r.rows /\ q.r.attrs = r.attrs /\ q.r.events = r.events
        /\ r.rows \in Seq(Seq(Cells)) /\ t \in 1..Len(q.r.rows) /\ q.r.rows[t] \in Seq(Cells)
        /\ \A i \in 1..Len(r.rows) : r.rows[i] \in Seq(Cells) /\ Len(r.rows[i]) = Len(r.attrs)
    <3>1. q.r.rows = r.rows /\ q.r.attrs = r.attrs /\ q.r.events = r.events
      BY <1>3 DEF SameData
    <3>2. r.rows \in Seq(Seq(Cells)) /\ Shaped(r)
      BY SoundFacts
    <3> QED BY <3>1, <3>2 DEF Shaped
  <2>2. /\ row \in Seq(Cells) /\ Len(row) = Len(r.attrs) /\ row[f] = v
        /\ \A g \in 1..Len(r.attrs) : g # f => row[g] = r.rows[t][g]
    BY <2>1
  <2> HIDE DEF row
  <2>3. /\ rows \in Seq(Seq(Cells)) /\ Len(rows) = Len(r.rows) /\ rows[t] = row
        /\ \A i \in 1..Len(r.rows) : i # t => rows[i] = r.rows[i]
    BY <2>1, <2>2
  <2>4. [q.r EXCEPT !.rows[t][f] = v] = s
    BY <1>3 DEF Sound, PGresults, row
  <2> HIDE DEF rows
  <2>5. s \in PGresults
    BY <1>3, <2>3 DEF Sound, PGresults
  <2>6. /\ s.rows = rows /\ s.tupArrSize = q.r.tupArrSize /\ s.attrs = r.attrs
        /\ s.events = r.events /\ SameMemory(q.r, s)
    BY <1>3, <2>1 DEF Sound, PGresults, SameMemory
  <2> HIDE DEF s
  <2>7. s \in Sound
    <3>1. Arrayed(s)
      BY <1>3, <2>1, <2>3, <2>6, SoundFacts DEF Arrayed
    <3>2. Shaped(s)
      BY <2>1, <2>2, <2>3, <2>6 DEF Shaped
    <3> QED BY <1>3, <2>5, <2>6, <3>1, <3>2, StaysSound
  <2>8. o = Did(s) /\ o \in Outcomes /\ o.r = s
    BY <1>2, <1>5, <2>4, <2>7, Outcome DEF Like
  <2> QED BY <2>2, <2>3, <2>6, <2>8
<1> QED BY <1>4, <1>5

\* The row that is stored into is there, a new one with a cell for each column.
LEMMA RowReady ==
  ASSUME NEW r \in Sound, NEW t \in 1..Len(r.rows) + 1, NEW o \in NewRow(r, t)
  PROVE  /\ o \in Outcomes /\ o.r.attrs = r.attrs /\ o.r.events = r.events
         /\ o.ok => /\ t \in 1..Len(o.r.rows)
                    /\ Len(o.r.rows) = IF t <= Len(r.rows) THEN Len(r.rows) ELSE t
                    /\ \A i \in 1..Len(r.rows) : o.r.rows[i] = r.rows[i]
<1>1. r.rows \in Seq(Seq(Cells)) /\ Len(r.rows) \in Nat /\ Len(r.attrs) \in Nat
  BY SoundFacts
<1>2. CASE t <= Len(r.rows)
  <2>1. o = Did(r)
    BY <1>2 DEF NewRow
  <2>2. o \in Outcomes /\ o.r = r
    BY <2>1, Outcome DEF Like
  <2>3. t \in 1..Len(r.rows)
    BY <1>1, <1>2
  <2> QED BY <1>2, <2>2, <2>3
<1>3. CASE ~(t <= Len(r.rows))
  <2> DEFINE row == [i \in 1..Len(r.attrs) |-> NULL]
             first == pqResultAlloc(r, Len(r.attrs) * Pointer, TRUE)
  <2>1. PICK q \in first : IF q.ok THEN o \in pqAddTuple(q.r, row) ELSE o = q
    BY <1>3 DEF NewRow, Then
  <2>2. Len(r.attrs) * Pointer \in Nat
    BY <1>1, ResultAssumption
  <2>3. q \in Outcomes /\ q.r \in Sound /\ SameData(r, q.r)
    BY <2>2, AllocSound DEF Like, Outcomes
  <2>4. row \in Seq(Cells) /\ Len(row) = Len(r.attrs)
    BY <1>1 DEF Cells
  <2> HIDE DEF row, first
  <2>5. CASE ~q.ok
    BY <2>1, <2>3, <2>5 DEF SameData
  <2>6. CASE q.ok
    <3>1. q.r.attrs = r.attrs /\ q.r.events = r.events /\ q.r.rows = r.rows
      BY <2>3 DEF SameData
    <3>2. o \in pqAddTuple(q.r, row) /\ Len(row) = Len(q.r.attrs)
      BY <2>1, <2>4, <2>6, <3>1
    <3>3. /\ o \in Outcomes /\ o.r.attrs = r.attrs /\ o.r.events = r.events
          /\ o.ok => o.r.rows = Append(r.rows, row)
      BY <2>3, <2>4, <3>1, <3>2, TupleAdded
    <3>4. /\ Len(Append(r.rows, row)) = t
          /\ \A i \in 1..Len(r.rows) : Append(r.rows, row)[i] = r.rows[i]
      <4>1. t \in Int /\ t <= Len(r.rows) + 1
        BY <1>1
      <4>5. t = Len(r.rows) + 1
        BY <1>1, <1>3, <4>1
      <4>2. Len(Append(r.rows, row)) = Len(r.rows) + 1
        BY <1>1
      <4>3. \A i \in 1..Len(r.rows) : Append(r.rows, row)[i] = r.rows[i]
        BY <1>1
      <4> QED BY <4>2, <4>3, <4>5
    <3>5. t \in 1..t
      BY <1>1
    <3>6. o.ok => /\ t \in 1..Len(o.r.rows) /\ Len(o.r.rows) = t
                  /\ \A i \in 1..Len(r.rows) : o.r.rows[i] = r.rows[i]
      BY <3>3, <3>4, <3>5
    <3> QED BY <1>3, <3>3, <3>6
  <2> QED BY <2>5, <2>6
<1> QED BY <1>2, <1>3

\* s is r with v in its cell and no other change of the rows; the row of the cell
\* is the last when it was not there before.
CellSet(r, s, t, f, v) ==
  /\ Len(s.rows) = (IF t <= Len(r.rows) THEN Len(r.rows) ELSE t)
  /\ s.rows[t][f] = v
  /\ \A i \in 1..Len(r.rows) : i # t => s.rows[i] = r.rows[i]
  /\ \A g \in 1..Len(r.attrs) : g # f /\ t <= Len(r.rows) => s.rows[t][g] = r.rows[t][g]

LEMMA ValueSet ==
  ASSUME NEW r \in Sound, NEW t \in Nat, NEW f \in Nat, NEW v \in Cells,
         NEW o \in PQsetvalue(r, t, f, v)
  PROVE  /\ o \in Outcomes /\ o.r.attrs = r.attrs /\ o.r.events = r.events
         /\ o.ok => CellSet(r, o.r, t, f, v)
<1>0. Len(r.rows) \in Nat /\ Len(r.attrs) \in Nat
  BY SoundFacts
<1>1. CASE f \notin 1..Len(r.attrs) \/ t \notin 1..Len(r.rows) + 1
  <2>1. o = Fails(r)
    BY <1>1 DEF PQsetvalue
  <2> QED BY <2>1, Outcome DEF Like
<1>2. CASE f \in 1..Len(r.attrs) /\ t \in 1..Len(r.rows) + 1
  <2>1. PICK q \in NewRow(r, t) : IF q.ok THEN o \in StoreValue(q.r, t, f, v) ELSE o = q
    BY <1>2 DEF PQsetvalue, Then
  <2>2. /\ q \in Outcomes /\ q.r \in Sound /\ q.r.attrs = r.attrs /\ q.r.events = r.events
        /\ q.ok => /\ t \in 1..Len(q.r.rows)
                   /\ Len(q.r.rows) = IF t <= Len(r.rows) THEN Len(r.rows) ELSE t
                   /\ \A i \in 1..Len(r.rows) : q.r.rows[i] = r.rows[i]
    BY <1>2, RowReady DEF Outcomes
  <2>3. CASE ~q.ok
    BY <2>1, <2>2, <2>3
  <2>4. CASE q.ok
    <3>1. o \in StoreValue(q.r, t, f, v) /\ t \in 1..Len(q.r.rows) /\ f \in 1..Len(q.r.attrs)
      BY <1>2, <2>1, <2>2, <2>4
    <3>2. /\ o \in Outcomes /\ o.r.attrs = r.attrs /\ o.r.events = r.events
          /\ Len(o.r.rows) = Len(q.r.rows)
          /\ \A i \in 1..Len(q.r.rows) : i # t => o.r.rows[i] = q.r.rows[i]
          /\ o.ok => /\ o.r.rows[t][f] = v
                     /\ \A g \in 1..Len(r.attrs) : g # f => o.r.rows[t][g] = q.r.rows[t][g]
      <4> DEFINE d == q.r
      <4>1. d \in Sound /\ o \in StoreValue(d, t, f, v) /\ t \in 1..Len(d.rows) /\ f \in 1..Len(d.attrs)
        BY <2>2, <3>1
      <4>2. d.attrs = r.attrs /\ d.events = r.events
        BY <2>2
      <4> HIDE DEF d
      <4>3. /\ o \in Outcomes /\ o.r.attrs = d.attrs /\ o.r.events = d.events
            /\ Len(o.r.rows) = Len(d.rows) /\ \A i \in 1..Len(d.rows) : i # t => o.r.rows[i] = d.rows[i]
            /\ o.ok => /\ o.r.rows[t][f] = v
                       /\ \A g \in 1..Len(d.attrs) : g # f => o.r.rows[t][g] = d.rows[t][g]
        BY <4>1, Stored
      <4> QED BY <4>2, <4>3 DEF d
    <3>3. \A i \in 1..Len(r.rows) : i \in 1..Len(q.r.rows)
      BY <1>0, <1>2, <2>2, <2>4
    <3>4. \A i \in 1..Len(r.rows) : i # t => o.r.rows[i] = r.rows[i]
      BY <2>2, <2>4, <3>2, <3>3
    <3>5. t <= Len(r.rows) => q.r.rows[t] = r.rows[t]
      BY <1>0, <1>2, <2>2, <2>4
    <3>6. Len(o.r.rows) = (IF t <= Len(r.rows) THEN Len(r.rows) ELSE t)
      BY <2>2, <2>4, <3>2
    <3> QED BY <3>2, <3>4, <3>5, <3>6 DEF CellSet
  <2> QED BY <2>3, <2>4
<1> QED BY <1>1, <1>2

LEMMA RowReceived ==
  ASSUME NEW r \in Sound, NEW row \in Seq(Cells), Len(row) = Len(r.attrs),
         NEW o \in AddRow(r, row)
  PROVE  o \in Outcomes /\ o.r.events = r.events
<1> DEFINE start == pqResultAlloc(r, Len(row) * Pointer, TRUE)
           sizes == [i \in 1..Len(row) |-> IF row[i] = NULL THEN 0 ELSE row[i] + 1]
<1>1. sizes \in Seq(Nat) /\ Len(row) * Pointer \in Nat
  <2>1. \A i \in 1..Len(row) : (IF row[i] = NULL THEN 0 ELSE row[i] + 1) \in Nat
    BY DEF Cells
  <2> QED BY <2>1, ResultAssumption
<1>2. start \subseteq Like(r)
  BY <1>1, AllocSound
<1>3. /\ Like(r) \subseteq Outcomes
      /\ \A q \in Like(r) : q.ok => Like(q.r) \subseteq Like(r)
  BY DEF Like, SameData
<1> HIDE DEF start, sizes
<1>4. AllocEach(start, sizes) \subseteq Like(r)
  BY <1>1, <1>2, <1>3, EachKeeps
<1>5. PICK q \in Like(r) : IF q.ok THEN o \in pqAddTuple(q.r, row) ELSE o = q
  <2>1. pqRowProcessor(r, row) \subseteq Like(r)
    BY <1>4 DEF pqRowProcessor, start, sizes
  <2> QED BY <2>1 DEF AddRow, Then
<1>6. q \in Outcomes /\ q.r \in Sound /\ q.r.attrs = r.attrs /\ q.r.events = r.events
  BY DEF Like, Outcomes, SameData
<1>7. CASE q.ok
  BY <1>5, <1>6, <1>7, TupleAdded
<1> QED BY <1>5, <1>6, <1>7

\* A row that was copied is the row of the source, behind the rows before it.
LEMMA RowCopied ==
  ASSUME NEW src \in Sound, NEW r \in Sound, NEW t \in 1..Len(src.rows),
         r.attrs = src.attrs, src.attrs # <<>> => Len(r.rows) = t - 1,
         NEW o \in CopyRow(r, src, t)
  PROVE  /\ o \in Outcomes /\ o.r.attrs = src.attrs /\ o.r.events = r.events
         /\ o.ok /\ src.attrs # <<>> =>
              /\ Len(o.r.rows) = t /\ o.r.rows[t] = src.rows[t]
              /\ \A i \in 1..t - 1 : o.r.rows[i] = r.rows[i]
<1> DEFINE n == Len(src.attrs)
           Filled(q, k) ==
             /\ Len(q.r.rows) = (IF k = 0 THEN t - 1 ELSE t)
             /\ \A i \in 1..t - 1 : q.r.rows[i] = r.rows[i]
             /\ \A g \in 1..k : q.r.rows[t][g] = src.rows[t][g]
           Known(q, k) ==
             /\ q.r.attrs = src.attrs /\ q.r.events = r.events
             /\ q.ok /\ n # 0 => Filled(q, k)
           J == [k \in 0..n |-> {q \in Outcomes : Known(q, k)}]
<1>1. n \in Nat /\ t \in Nat /\ t > 0 /\ (n = 0 <=> src.attrs = <<>>) /\ Len(r.rows) \in Nat
  BY SoundFacts
<1>2. /\ src.rows[t] \in Seq(Cells) /\ Len(src.rows[t]) = n
      /\ \A k \in 1..n : src.rows[t][k] \in Cells
  <2>1. src.rows \in Seq(Seq(Cells)) /\ Shaped(src)
    BY SoundFacts
  <2> QED BY <2>1 DEF Shaped
<1>3. \A k \in 0..n : J[k] = {q \in Outcomes : Known(q, k)}
  OBVIOUS
<1>0. \A k \in 1..n : k \in 0..n /\ k - 1 \in 0..n
  BY <1>1
<1> HIDE DEF J
<1>4. Did(r) \in J[0]
  <2>1. Did(r) \in Outcomes /\ Did(r).r = r
    BY Outcome DEF Like
  <2> QED BY <1>1, <1>3, <2>1
<1>5. ASSUME NEW k \in 1..n, NEW q \in J[k - 1]
      PROVE  IF q.ok THEN PQsetvalue(q.r, t, k, src.rows[t][k]) \subseteq J[k] ELSE q \in J[k]
  <2> HIDE DEF Known
  <2>4. J[k] = {p \in Outcomes : Known(p, k)} /\ J[k - 1] = {p \in Outcomes : Known(p, k - 1)}
    BY <1>0, <1>3
  <2>1. q \in Outcomes /\ q.r \in Sound /\ Known(q, k - 1) /\ k \in Nat /\ n # 0
    BY <1>1, <2>4 DEF Outcomes
  <2>2. CASE ~q.ok
    BY <2>1, <2>2, <2>4 DEF Known
  <2>3. CASE q.ok
    <3> SUFFICES ASSUME NEW e \in PQsetvalue(q.r, t, k, src.rows[t][k])
                 PROVE  e \in Outcomes /\ Known(e, k)
      BY <2>3, <2>4
    <3>1. Filled(q, k - 1) /\ q.r.attrs = src.attrs /\ q.r.events = r.events
      BY <2>1, <2>3 DEF Known
    <3>4. src.rows[t][k] \in Cells
      BY <1>2
    <3>5. k \in Nat /\ t \in Nat /\ q.r \in Sound
      BY <1>1, <2>1
    <3>6. /\ e \in Outcomes /\ e.r.attrs = q.r.attrs /\ e.r.events = q.r.events
          /\ e.ok => CellSet(q.r, e.r, t, k, src.rows[t][k])
      <4> HIDE DEF Filled, n
      <4> QED BY <3>4, <3>5, ValueSet
    <3>2. /\ e \in Outcomes /\ e.r.attrs = q.r.attrs /\ e.r.events = q.r.events
          /\ e.ok => /\ Len(e.r.rows) = (IF t <= Len(q.r.rows) THEN Len(q.r.rows) ELSE t)
                     /\ e.r.rows[t][k] = src.rows[t][k]
                     /\ \A i \in 1..Len(q.r.rows) : i # t => e.r.rows[i] = q.r.rows[i]
                     /\ \A g \in 1..Len(q.r.attrs) :
                          g # k /\ t <= Len(q.r.rows) => e.r.rows[t][g] = q.r.rows[t][g]
      BY <3>6 DEF CellSet
    <3>3. ASSUME e.ok PROVE Filled(e, k)
      <4>1. Len(e.r.rows) = t
        BY <1>1, <3>1, <3>2, <3>3
      <4>2. \A i \in 1..t - 1 : e.r.rows[i] = r.rows[i]
        <5>1. \A i \in 1..t - 1 : i \in 1..Len(q.r.rows) /\ i # t
          BY <1>1, <3>1
        <5> QED BY <3>1, <3>2, <3>3, <5>1
      <4>3. \A g \in 1..k : e.r.rows[t][g] = src.rows[t][g]
        <5> TAKE g \in 1..k
        <5>1. CASE g = k
          BY <3>2, <3>3, <5>1
        <5>2. CASE g # k
          <6>1. g \in 1..k - 1 /\ g \in 1..n /\ k - 1 # 0
            BY <1>1, <5>2
          <6>2. Len(q.r.rows) = t /\ q.r.rows[t][g] = src.rows[t][g]
            BY <3>1, <6>1
          <6>3. e.r.rows[t][g] = q.r.rows[t][g]
            BY <1>1, <3>1, <3>2, <3>3, <5>2, <6>1, <6>2
          <6> QED BY <6>2, <6>3
        <5> QED BY <5>1, <5>2
      <4>4. k # 0
        OBVIOUS
      <4> QED BY <4>1, <4>2, <4>3, <4>4
    <3> HIDE DEF Filled
    <3> QED BY <3>1, <3>2, <3>3 DEF Known
  <2> QED BY <2>2, <2>3
<1> HIDE DEF Known, Filled
<1>6. CopyRow(r, src, t) \subseteq J[n]
  BY <1>1, <1>4, <1>5, CopyRowSteps
<1>7. o \in Outcomes /\ Known(o, n)
  BY <1>1, <1>3, <1>6
<1>8. ASSUME o.ok, n # 0
      PROVE  /\ Len(o.r.rows) = t /\ o.r.rows[t] = src.rows[t]
             /\ \A i \in 1..t - 1 : o.r.rows[i] = r.rows[i]
  <2>1. /\ Len(o.r.rows) = t /\ \A i \in 1..t - 1 : o.r.rows[i] = r.rows[i]
        /\ \A g \in 1..n : o.r.rows[t][g] = src.rows[t][g]
    BY <1>7, <1>8 DEF Known, Filled
  <2>2. o.r \in Sound /\ o.r.attrs = src.attrs
    BY <1>7 DEF Outcomes, Known
  <2>3. o.r.rows[t] \in Seq(Cells) /\ Len(o.r.rows[t]) = n
    <3>1. o.r.rows \in Seq(Seq(Cells)) /\ Shaped(o.r)
      BY <2>2, SoundFacts
    <3> QED BY <1>1, <2>1, <2>2, <3>1 DEF Shaped
  <2>4. o.r.rows[t] = src.rows[t]
    <3> DEFINE a == o.r.rows[t]
               b == src.rows[t]
    <3>1. a \in Seq(Cells) /\ b \in Seq(Cells) /\ Len(a) = Len(b) /\ \A g \in 1..Len(a) : a[g] = b[g]
      BY <1>2, <2>1, <2>3
    <3> HIDE DEF a, b
    <3>2. a = b
      BY <3>1, SeqEqual
    <3> QED BY <3>2 DEF a, b
  <2> QED BY <2>1, <2>4
<1> QED BY <1>1, <1>7, <1>8 DEF Known

\* A copy of all rows has the rows of the source, whatever had to be allocated
\* for them.
LEMMA TuplesCopied ==
  ASSUME NEW src \in Sound, NEW r \in Sound, r.attrs = src.attrs, r.rows = <<>>,
         NEW o \in CopyTuples(r, src)
  PROVE  /\ o \in Outcomes /\ o.r.attrs = src.attrs /\ o.r.events = r.events
         /\ o.ok /\ src.attrs # <<>> => o.r.rows = src.rows
<1> DEFINE n == Len(src.rows)
           Known(q, k) ==
             /\ q.r.attrs = src.attrs /\ q.r.events = r.events
             /\ q.ok /\ src.attrs # <<>> =>
                  Len(q.r.rows) = k /\ \A i \in 1..k : q.r.rows[i] = src.rows[i]
           J == [k \in 0..n |-> {q \in Outcomes : Known(q, k)}]
<1>1. n \in Nat /\ src.rows \in Seq(Seq(Cells))
  BY SoundFacts
<1>2. \A k \in 0..n : J[k] = {q \in Outcomes : Known(q, k)}
  OBVIOUS
<1>0. \A k \in 1..n : k \in 0..n /\ k - 1 \in 0..n
  BY <1>1
<1> HIDE DEF J
<1>3. Did(r) \in J[0]
  <2>1. Did(r) \in Outcomes /\ Did(r).r = r /\ Len(r.rows) = 0
    BY Outcome DEF Like
  <2>2. Known(Did(r), 0)
    BY <2>1
  <2> HIDE DEF Known
  <2> QED BY <1>1, <1>2, <2>1, <2>2
<1>4. ASSUME NEW k \in 1..n, NEW q \in J[k - 1]
      PROVE  IF q.ok THEN CopyRow(q.r, src, k) \subseteq J[k] ELSE q \in J[k]
  <2> HIDE DEF Known
  <2>4. J[k] = {p \in Outcomes : Known(p, k)} /\ J[k - 1] = {p \in Outcomes : Known(p, k - 1)}
    BY <1>0, <1>2
  <2>1. q \in Outcomes /\ q.r \in Sound /\ Known(q, k - 1)
    BY <2>4 DEF Outcomes
  <2>2. CASE ~q.ok
    BY <2>1, <2>2, <2>4 DEF Known
  <2>3. CASE q.ok
    <3> SUFFICES ASSUME NEW e \in CopyRow(q.r, src, k)
                 PROVE  e \in Outcomes /\ Known(e, k)
      BY <2>3, <2>4
    <3>1. /\ q.r.attrs = src.attrs /\ q.r.events = r.events
          /\ src.attrs # <<>> =>
               Len(q.r.rows) = k - 1 /\ \A i \in 1..k - 1 : q.r.rows[i] = src.rows[i]
      BY <2>1, <2>3 DEF Known
    <3>2. /\ e \in Outcomes /\ e.r.attrs = src.attrs /\ e.r.events = q.r.events
          /\ e.ok /\ src.attrs # <<>> =>
               /\ Len(e.r.rows) = k /\ e.r.rows[k] = src.rows[k]
               /\ \A i \in 1..k - 1 : e.r.rows[i] = q.r.rows[i]
      BY <2>1, <3>1, RowCopied
    <3>3. ASSUME e.ok, src.attrs # <<>>
          PROVE  \A i \in 1..k : e.r.rows[i] = src.rows[i]
      <4> TAKE i \in 1..k
      <4>1. i = k \/ i \in 1..k - 1
        OBVIOUS
      <4> QED BY <3>1, <3>2, <3>3, <4>1
    <3> QED BY <3>1, <3>2, <3>3 DEF Known
  <2> QED BY <2>2, <2>3
<1> HIDE DEF Known
<1>5. CopyTuples(r, src) \subseteq J[n]
  BY <1>1, <1>3, <1>4, CopyTuplesSteps
<1>6. o \in Outcomes /\ Known(o, n)
  BY <1>1, <1>2, <1>5
<1>7. ASSUME o.ok, src.attrs # <<>> PROVE o.r.rows = src.rows
  <2> DEFINE a == o.r.rows
             b == src.rows
  <2>1. a \in Seq(Seq(Cells)) /\ b \in Seq(Seq(Cells))
    BY <1>1, <1>6, SoundFacts DEF Outcomes
  <2>2. Len(a) = Len(b) /\ \A i \in 1..Len(a) : a[i] = b[i]
    BY <1>6, <1>7 DEF Known
  <2> HIDE DEF a, b
  <2>3. a = b
    BY <2>1, <2>2, SeqEqual
  <2> QED BY <2>3 DEF a, b
<1> QED BY <1>6, <1>7 DEF Known


-----------------------------------------------------------------------------
(* Events. *)

\* Procedures that were told of nothing.
LEMMA NobodyTold ==
  ASSUME NEW S, NEW events \in Seq(S)
  PROVE  /\ dupEvents(events) \in Seq(BOOLEAN) /\ DOMAIN dupEvents(events) = DOMAIN events
         /\ \A i \in DOMAIN events : ~dupEvents(events)[i]
         /\ events = <<>> => dupEvents(events) = <<>>
<1> DEFINE n == Len(events)
           d == dupEvents(events)
<1>1. n \in Nat /\ DOMAIN events = 1..n
  OBVIOUS
<1>2. d = [i \in 1..n |-> FALSE]
  BY <1>1 DEF dupEvents
<1> HIDE DEF d
<1>3. d \in [1..n -> BOOLEAN]
  BY <1>2
<1> HIDE DEF n
<1>4. d \in Seq(BOOLEAN) /\ Len(d) = n
  BY <1>1, <1>3, SeqDef
<1>5. events = <<>> => d = <<>>
  BY <1>4 DEF n
<1>6. \A i \in 1..n : ~d[i]
  BY <1>2
<1> QED BY <1>1, <1>3, <1>4, <1>5, <1>6 DEF d

LEMMA EmptySound ==
  ASSUME NEW events \in Seq(BOOLEAN)
  PROVE  [Empty("TUPLES_OK") EXCEPT !.events = events] \in Sound
<1> DEFINE r == [Empty("TUPLES_OK") EXCEPT !.events = events]
<1>1. /\ r.rows = <<>> /\ r.attrs = <<>> /\ r.tupArrSize = 0 /\ r.blocks = <<>> /\ r.cur = 0
      /\ r.curOffset = 0 /\ r.spaceLeft = 0 /\ r.pieces = {}
  BY DEF Empty
<1>2. r \in PGresults
  <2>1. <<>> \in Seq(Nat) /\ <<>> \in Seq(Seq(Cells)) /\ {} \in SUBSET Pieces /\ <<>> \in Seq(BOOLEAN)
    OBVIOUS
  <2>2. Empty("TUPLES_OK") \in PGresults
    BY <2>1 DEF Empty, PGresults
  <2> QED BY <2>2 DEF PGresults
<1> HIDE DEF r
<1>3. Placed(r)
  BY <1>1 DEF Placed, Free
<1>4. Arrayed(r) /\ Shaped(r)
  BY <1>1, ResultAssumption DEF Arrayed, Shaped
<1>5. r \in Sound
  BY <1>2, <1>3, <1>4 DEF Sound
<1> QED BY <1>5 DEF r

\* Telling procedures changes no memory and no row.
LEMMA OtherEvents ==
  ASSUME NEW r \in Sound, NEW events \in Seq(BOOLEAN)
  PROVE  LET s == [r EXCEPT !.events = events]
         IN  s \in Sound /\ s.rows = r.rows /\ s.attrs = r.attrs /\ s.events = events
<1> DEFINE s == [r EXCEPT !.events = events]
<1>1. /\ s \in PGresults /\ SameMemory(r, s) /\ s.rows = r.rows /\ s.attrs = r.attrs
      /\ s.tupArrSize = r.tupArrSize /\ s.events = events
  BY DEF Sound, PGresults, SameMemory
<1> HIDE DEF s
<1>2. Arrayed(s) /\ Shaped(s)
  BY <1>1, SoundFacts DEF Arrayed, Shaped
<1>3. s \in Sound
  BY <1>1, <1>2, StaysSound
<1> QED BY <1>1, <1>3 DEF s

\* Likewise when it makes an error of the result.
LEMMA OtherStatus ==
  ASSUME NEW r \in Sound, NEW status \in {"TUPLES_OK", "FATAL_ERROR"}
  PROVE  LET s == [r EXCEPT !.status = status] IN s \in Sound /\ s.events = r.events
<1> DEFINE s == [r EXCEPT !.status = status]
<1>1. /\ s \in PGresults /\ SameMemory(r, s) /\ s.rows = r.rows /\ s.attrs = r.attrs
      /\ s.tupArrSize = r.tupArrSize /\ s.events = r.events
  BY DEF Sound, PGresults, SameMemory
<1> HIDE DEF s
<1>2. Arrayed(s) /\ Shaped(s)
  BY <1>1, SoundFacts DEF Arrayed, Shaped
<1>3. s \in Sound
  BY <1>1, <1>2, StaysSound
<1> QED BY <1>1, <1>3 DEF s

\* What PQcopyResult has when all went well: a result in order with the columns
\* and the rows it was asked for, and procedures that were told of nothing.
LEMMA CopiesSound ==
  ASSUME NEW src \in Sound, NEW flags \in Flags, NEW o \in Copies(src, flags), o.ok
  PROVE  /\ o.r \in Sound
         /\ o.r.events = <<>> \/ o.r.events = dupEvents(src.events)
         /\ "TUPLES" \in flags /\ src.attrs # <<>> => o.r.rows = src.rows /\ o.r.attrs = src.attrs
<1> DEFINE WithAttrs(r) == IF flags \intersect {"ATTRS", "TUPLES"} = {} THEN {Did(r)}
                           ELSE PQsetResultAttrs(r, src.attrs)
           WithTuples(r) == IF "TUPLES" \in flags THEN CopyTuples(r, src) ELSE {Did(r)}
           WithEvents(r) == IF "EVENTS" \in flags /\ src.events # <<>>
                              THEN {Fails(r), Did([r EXCEPT !.events = dupEvents(src.events)])}
                              ELSE {Did(r)}
<1>1. PICK q \in Then(Then(PQmakeEmptyPGresult("TUPLES_OK", <<>>), WithAttrs), WithTuples) :
        IF q.ok THEN o \in WithEvents(q.r) ELSE o = q
  BY DEF Copies, Then
<1>2. PICK p \in Then(PQmakeEmptyPGresult("TUPLES_OK", <<>>), WithAttrs) :
        IF p.ok THEN q \in WithTuples(p.r) ELSE q = p
  BY DEF Then
<1>3. PICK e \in PQmakeEmptyPGresult("TUPLES_OK", <<>>) :
        IF e.ok THEN p \in WithAttrs(e.r) ELSE p = e
  BY DEF Then
<1>4. q.ok /\ p.ok /\ e.ok
  BY <1>1, <1>2, <1>3
<1>5. o \in WithEvents(q.r) /\ q \in WithTuples(p.r) /\ p \in WithAttrs(e.r)
  BY <1>1, <1>2, <1>3, <1>4
<1>6. e.r \in Sound /\ e.r.rows = <<>> /\ e.r.attrs = <<>> /\ e.r.events = <<>>
  <2>1. <<>> \in Seq(BOOLEAN) /\ dupEvents(<<>>) = <<>>
    <3>1. <<>> \in Seq(BOOLEAN)
      BY EmptySeq
    <3> QED BY <3>1, NobodyTold
  <2>3. e = Did([Empty("TUPLES_OK") EXCEPT !.events = dupEvents(<<>>)])
    <3>1. ~Fails(NULL).ok
      BY DEF Fails
    <3> QED BY <1>4, <3>1 DEF PQmakeEmptyPGresult
  <2>2. e.r = [Empty("TUPLES_OK") EXCEPT !.events = <<>>]
    BY <2>1, <2>3 DEF Did
  <2> QED BY <2>1, <2>2, EmptySound DEF Empty
<1>7. /\ p.r \in Sound /\ p.r.rows = <<>> /\ p.r.events = <<>>
      /\ "TUPLES" \in flags => p.r.attrs = src.attrs
  <2>1. CASE flags \intersect {"ATTRS", "TUPLES"} = {}
    BY <1>5, <1>6, <2>1, Outcome
  <2>2. CASE flags \intersect {"ATTRS", "TUPLES"} # {}
    <3>1. p \in PQsetResultAttrs(e.r, src.attrs) /\ src.attrs \in Seq(Nat)
      BY <1>5, <2>2, SoundFacts
    <3>2. /\ p \in Outcomes /\ p.r.rows = <<>> /\ p.r.events = e.r.events
          /\ p.ok => p.r.attrs = src.attrs
      BY <1>6, <3>1, AttrsSet
    <3>3. p.ok
      BY <1>4
    <3> QED BY <1>6, <3>2, <3>3 DEF Outcomes
  <2> QED BY <2>1, <2>2
<1>8. /\ q.r \in Sound /\ q.r.events = <<>>
      /\ "TUPLES" \in flags /\ src.attrs # <<>> => q.r.rows = src.rows /\ q.r.attrs = src.attrs
  <2>1. CASE "TUPLES" \notin flags
    BY <1>5, <1>7, <2>1, Outcome
  <2>2. CASE "TUPLES" \in flags
    <3>1. q \in CopyTuples(p.r, src)
      BY <1>5, <2>2
    <3> QED BY <1>4, <1>7, <2>2, <3>1, TuplesCopied DEF Outcomes
  <2> QED BY <2>1, <2>2
<1>9. CASE "EVENTS" \in flags /\ src.events # <<>>
  <2> DEFINE s == [q.r EXCEPT !.events = dupEvents(src.events)]
  <2>1. o = Did(s)
    <3>1. o \in {Fails(q.r), Did(s)}
      BY <1>5, <1>9
    <3>2. ~Fails(q.r).ok
      BY DEF Fails
    <3> QED BY <3>1, <3>2
  <2>2. dupEvents(src.events) \in Seq(BOOLEAN)
    BY SoundFacts, NobodyTold
  <2>3. s \in Sound /\ s.rows = q.r.rows /\ s.attrs = q.r.attrs /\ s.events = dupEvents(src.events)
    BY <1>8, <2>2, OtherEvents
  <2> HIDE DEF s
  <2> QED BY <1>8, <2>1, <2>3 DEF Did
<1>10. CASE ~("EVENTS" \in flags /\ src.events # <<>>)
  BY <1>5, <1>8, <1>10, Outcome
<1> QED BY <1>9, <1>10

-----------------------------------------------------------------------------
(* The inductive invariant. *)

\* Each variable is NULL or a result in order, whose procedures are those of
\* the connection, and they were told of exactly what they know.
ResultInv ==
  /\ results \in [Results -> Sound \union {NULL}]
  /\ told \in [1..Procs -> Int]
  /\ \A x \in Live : DOMAIN results[x].events \subseteq 1..Procs
  /\ IsFiniteSet(Live)
  /\ EventsPaired

ResultTypeOK == results \in [Results -> PGresults \union {NULL}] /\ told \in [1..Procs -> Int]

LEMMA NullIsNoResult == NULL \notin Sound
BY NullAssumption DEF Sound

Knows(r, p) == r # NULL /\ p \in Believers(r)
Learned(old, new, p) == (IF Knows(new, p) THEN 1 ELSE 0) - (IF Knows(old, p) THEN 1 ELSE 0)

\* A step that puts a result or NULL into a variable and tells each procedure
\* what it learns or forgets by that.
LEMMA Replaced ==
  ASSUME ResultInv, NEW x \in Results, NEW s \in Sound \union {NULL},
         results' = [results EXCEPT ![x] = s],
         s # NULL => DOMAIN s.events \subseteq 1..Procs,
         told' \in [1..Procs -> Int],
         \A p \in 1..Procs : told'[p] = told[p] + Learned(results[x], s, p)
  PROVE  ResultInv'
<1>1. /\ results \in [Results -> Sound \union {NULL}] /\ told \in [1..Procs -> Int]
      /\ IsFiniteSet(Live) /\ NULL \notin Sound /\ x \in Results
  BY NullIsNoResult DEF ResultInv
<1>2. results' \in [Results -> Sound \union {NULL}]
  BY <1>1
<1>3. results'[x] = s /\ \A y \in Results : y # x => results'[y] = results[y]
  BY <1>1
<1>4. Live' = IF s = NULL THEN Live \ {x} ELSE Live \union {x}
  BY <1>3 DEF Live
<1>5. IsFiniteSet(Live')
  BY <1>1, <1>4, FS_AddElement, FS_RemoveElement
<1>6. \A y \in Live' : DOMAIN results'[y].events \subseteq 1..Procs
  BY <1>3 DEF ResultInv, Live
<1>7. EventsPaired'
  <2> SUFFICES ASSUME NEW p \in 1..Procs
               PROVE  told'[p] = Cardinality({y \in Live : p \in Believers(results[y])}')
    BY DEF EventsPaired
  <2> DEFINE A == {y \in Live : p \in Believers(results[y])}
             B == {y \in Live' : p \in Believers(results'[y])}
  <2>1. A = {y \in Results : Knows(results[y], p)} /\ B = {y \in Results : Knows(results'[y], p)}
    BY DEF Live, Knows
  <2>2. IsFiniteSet(A) /\ told[p] = Cardinality(A) /\ told[p] \in Int
    <3>1. A \subseteq Live
      OBVIOUS
    <3>2. told[p] = Cardinality(A)
      BY DEF ResultInv, EventsPaired
    <3> QED BY <1>1, <3>1, <3>2, FS_Subset
  <2>3. B = IF Knows(s, p) THEN A \union {x} ELSE A \ {x}
    BY <1>3, <2>1
  <2>4. x \in A <=> Knows(results[x], p)
    BY <1>1, <2>1
  <2> HIDE DEF A, B
  <2>5. Cardinality(A \union {x}) = IF x \in A THEN Cardinality(A) ELSE Cardinality(A) + 1
    BY <2>2, FS_AddElement
  <2>6. Cardinality(A \ {x}) = IF x \in A THEN Cardinality(A) - 1 ELSE Cardinality(A)
    BY <2>2, FS_RemoveElement
  <2>7. told'[p] = told[p] + Learned(results[x], s, p)
    OBVIOUS
  <2>8. told'[p] = Cardinality(B)
    <3>1. CASE Knows(s, p) /\ x \in A
      BY <2>2, <2>3, <2>4, <2>5, <2>7, <3>1 DEF Learned
    <3>2. CASE Knows(s, p) /\ x \notin A
      BY <2>2, <2>3, <2>4, <2>5, <2>7, <3>2 DEF Learned
    <3>3. CASE ~Knows(s, p) /\ x \in A
      BY <2>2, <2>3, <2>4, <2>6, <2>7, <3>3 DEF Learned
    <3>4. CASE ~Knows(s, p) /\ x \notin A
      BY <2>2, <2>3, <2>4, <2>6, <2>7, <3>4 DEF Learned
    <3> QED BY <3>1, <3>2, <3>3, <3>4
  <2> QED BY <2>8 DEF B
<1> QED BY <1>2, <1>5, <1>6, <1>7 DEF ResultInv

\* Nothing is told of a result whose procedures stay as they were.
LEMMA SameEvents ==
  ASSUME ResultInv, NEW x \in Results, results[x] # NULL, NEW s \in Sound,
         results' = [results EXCEPT ![x] = s], told' = told, s.events = results[x].events
  PROVE  ResultInv'
<1>1. results[x] \in Sound /\ told \in [1..Procs -> Int] /\ x \in Live
  BY DEF ResultInv, Live
<1>2. DOMAIN s.events \subseteq 1..Procs
  BY <1>1 DEF ResultInv
<1>3. s # NULL
  BY NullIsNoResult
<1>4. \A p \in 1..Procs : told'[p] = told[p] + Learned(results[x], s, p)
  <2> TAKE p \in 1..Procs
  <2>1. Knows(s, p) <=> Knows(results[x], p)
    BY <1>3 DEF Knows, Believers
  <2>2. Learned(results[x], s, p) = 0 /\ told[p] \in Int
    BY <1>1, <2>1 DEF Learned
  <2> QED BY <2>2
<1> QED BY <1>1, <1>2, <1>4, Replaced

LEMMA InitGood == ResultInit => ResultInv
<1> SUFFICES ASSUME ResultInit PROVE ResultInv
  OBVIOUS
<1>1. Live = {}
  BY DEF ResultInit, Live
<1>2. IsFiniteSet({}) /\ Cardinality({}) = 0
  BY FS_EmptySet
<1>3. results \in [Results -> Sound \union {NULL}] /\ told \in [1..Procs -> Int]
  BY DEF ResultInit
<1>4. EventsPaired
  <2>1. \A p \in 1..Procs : {x \in Live : p \in Believers(results[x])} = {} /\ told[p] = 0
    BY <1>1 DEF ResultInit
  <2> QED BY <1>2, <2>1 DEF EventsPaired
<1> QED BY <1>1, <1>2, <1>3, <1>4 DEF ResultInv

LEMMA MakeEmptyKeeps ==
  ASSUME ResultInv, NEW x \in Results, MakeEmpty(x)
  PROVE  ResultInv'
<1> DEFINE none == [p \in 1..Procs |-> FALSE]
<1>1. PICK o \in PQmakeEmptyPGresult("TUPLES_OK", none) :
        results' = [results EXCEPT ![x] = o.r] /\ told' = told
  BY DEF MakeEmpty, Becomes
<1>2. results[x] = NULL /\ told \in [1..Procs -> Int] /\ Procs \in Nat
  BY ResultAssumption DEF MakeEmpty, ResultInv
<1>3. none \in [1..Procs -> BOOLEAN]
  OBVIOUS
<1> HIDE DEF none
<1>4. none \in Seq(BOOLEAN) /\ DOMAIN none = 1..Procs
  BY <1>2, <1>3, SeqDef
<1> DEFINE s == [Empty("TUPLES_OK") EXCEPT !.events = dupEvents(none)]
<1>5. /\ dupEvents(none) \in Seq(BOOLEAN) /\ DOMAIN dupEvents(none) = 1..Procs
      /\ \A i \in 1..Procs : ~dupEvents(none)[i]
  BY <1>4, NobodyTold
<1>6. s \in Sound /\ s.events = dupEvents(none)
  BY <1>5, EmptySound DEF Empty
<1>7. o.r = s \/ o.r = NULL
  BY <1>1 DEF PQmakeEmptyPGresult, Did, Fails
<1> HIDE DEF s
<1>8. \A p \in 1..Procs : ~Knows(o.r, p) /\ ~Knows(results[x], p)
  BY <1>2, <1>5, <1>6, <1>7 DEF Knows, Believers
<1>9. \A p \in 1..Procs : told'[p] = told[p] + Learned(results[x], o.r, p)
  BY <1>1, <1>2, <1>8 DEF Learned
<1>10. o.r # NULL => DOMAIN o.r.events \subseteq 1..Procs
  BY <1>5, <1>6, <1>7
<1>11. o.r \in Sound \union {NULL} /\ told' \in [1..Procs -> Int]
  BY <1>1, <1>2, <1>6, <1>7
<1> QED BY <1>1, <1>9, <1>10, <1>11, Replaced

\* SetAttrs, SetValue and ReceiveRow, whatever the outcome.
LEMMA FillingKeeps ==
  ASSUME ResultInv, NEW x \in Results, SetAttrs(x) \/ SetValue(x) \/ ReceiveRow(x)
  PROVE  ResultInv'
<1>1. results[x] # NULL /\ results[x] \in Sound
  BY DEF SetAttrs, SetValue, ReceiveRow, ResultInv
<1> SUFFICES \E o \in Outcomes : /\ results' = [results EXCEPT ![x] = o.r] /\ told' = told
                                 /\ o.r.events = results[x].events
  BY <1>1, SameEvents DEF Outcomes
<1>2. Lengths \subseteq Nat /\ Columns \subseteq Nat
  BY ResultAssumption
<1>3. results[x].attrs \in Seq(Nat) /\ Len(results[x].attrs) \in Nat
  BY <1>1, SoundFacts
<1>4. CASE SetAttrs(x)
  <2>0. PICK width \in Columns : \E attrs \in [1..width -> Lengths] :
          Becomes(x, PQsetResultAttrs(results[x], attrs))
    BY <1>4 DEF SetAttrs
  <2>1. PICK attrs \in [1..width -> Lengths] : Becomes(x, PQsetResultAttrs(results[x], attrs))
    BY <2>0
  <2>2. PICK o \in PQsetResultAttrs(results[x], attrs) :
          results' = [results EXCEPT ![x] = o.r] /\ told' = told
    BY <2>1 DEF Becomes
  <2>3. attrs \in Seq(Nat)
    <3>1. width \in Nat /\ attrs \in [1..width -> Nat]
      BY <1>2
    <3> QED BY <3>1, SeqDef
  <2>4. results[x].rows = <<>>
    BY <1>4 DEF SetAttrs
  <2>5. o \in Outcomes /\ o.r.events = results[x].events
    BY <1>1, <2>2, <2>3, <2>4, AttrsSet
  <2> QED BY <2>2, <2>5
<1>5. CASE SetValue(x)
  <2>1. PICK t \in 1..MaxRows, f \in 1..Len(results[x].attrs) + 1, v \in Lengths \union {NULL} :
          Becomes(x, PQsetvalue(results[x], t, f, v))
    BY <1>5 DEF SetValue
  <2>2. PICK o \in PQsetvalue(results[x], t, f, v) :
          results' = [results EXCEPT ![x] = o.r] /\ told' = told
    BY <2>1 DEF Becomes
  <2>3. t \in Nat /\ f \in Nat /\ v \in Cells
    BY <1>2, <1>3 DEF Cells
  <2>4. o \in Outcomes /\ o.r.events = results[x].events
    BY <1>1, <2>2, <2>3, ValueSet
  <2> QED BY <2>2, <2>4
<1>6. CASE ReceiveRow(x)
  <2>1. PICK row \in [DOMAIN results[x].attrs -> Lengths \union {NULL}] :
          Becomes(x, AddRow(results[x], row))
    BY <1>6 DEF ReceiveRow
  <2>2. PICK o \in AddRow(results[x], row) :
          results' = [results EXCEPT ![x] = o.r] /\ told' = told
    BY <2>1 DEF Becomes
  <2>3. row \in Seq(Cells) /\ Len(row) = Len(results[x].attrs)
    <3> DEFINE n == Len(results[x].attrs)
    <3>1. DOMAIN results[x].attrs = 1..n /\ n \in Nat
      BY <1>3
    <3> HIDE DEF n
    <3>2. row \in [1..n -> Cells]
      BY <1>2, <3>1 DEF Cells
    <3>3. row \in Seq(Cells) /\ Len(row) = n
      BY <3>1, <3>2, SeqDef
    <3> QED BY <3>3 DEF n
  <2>4. o \in Outcomes /\ o.r.events = results[x].events
    BY <1>1, <2>2, <2>3, RowReceived
  <2> QED BY <2>2, <2>4
<1> QED BY <1>4, <1>5, <1>6

\* Procedures that agree know the result afterwards.
LEMMA Agreement ==
  ASSUME NEW r \in Sound, NEW agreed \in SUBSET DOMAIN r.events
  PROVE  /\ Initialized(r, agreed) \in Sound
         /\ DOMAIN Initialized(r, agreed).events = DOMAIN r.events
         /\ Believers(Initialized(r, agreed)) = Believers(r) \union agreed
         /\ Initialized(r, agreed).rows = r.rows /\ Initialized(r, agreed).attrs = r.attrs
<1> DEFINE n == Len(r.events)
           e == [p \in DOMAIN r.events |-> r.events[p] \/ p \in agreed]
           s == [r EXCEPT !.events = e]
<1>1. n \in Nat /\ DOMAIN r.events = 1..n /\ r.events \in Seq(BOOLEAN)
  BY SoundFacts
<1>2. e \in [1..n -> BOOLEAN]
  BY <1>1
<1>3. DOMAIN e = DOMAIN r.events /\ \A p \in DOMAIN e : e[p] <=> r.events[p] \/ p \in agreed
  OBVIOUS
<1>4. Initialized(r, agreed) = s
  BY SoundFacts DEF Initialized, PGresults
<1> HIDE DEF e, n
<1>5. e \in Seq(BOOLEAN)
  BY <1>1, <1>2, SeqDef
<1>6. s \in Sound /\ s.rows = r.rows /\ s.attrs = r.attrs /\ s.events = e
  BY <1>5, OtherEvents
<1> HIDE DEF s
<1>7. Believers(s) = Believers(r) \union agreed
  BY <1>3, <1>6 DEF Believers
<1> QED BY <1>3, <1>4, <1>6, <1>7

LEMMA FireCreateKeeps ==
  ASSUME ResultInv, NEW x \in Results, FireCreate(x)
  PROVE  ResultInv'
<1> DEFINE r == results[x]
           asked == DOMAIN r.events \ Believers(r)
<1>1. r # NULL /\ r \in Sound /\ DOMAIN r.events \subseteq 1..Procs /\ told \in [1..Procs -> Int]
  BY DEF FireCreate, ResultInv, Live
<1>2. PICK refuses \in {0} \union asked :
        /\ results' = [results EXCEPT ![x] =
             [Initialized(r, Agreed(r, asked, refuses)) EXCEPT
                !.status = IF refuses = 0 THEN @ ELSE "FATAL_ERROR"]]
        /\ Tells(Agreed(r, asked, refuses), 1)
  BY DEF FireCreate
<1> DEFINE agreed == Agreed(r, asked, refuses)
           i == Initialized(r, agreed)
           s == [i EXCEPT !.status = IF refuses = 0 THEN @ ELSE "FATAL_ERROR"]
<1>3. agreed \in SUBSET DOMAIN r.events /\ agreed \intersect Believers(r) = {}
  BY DEF Agreed
<1> HIDE DEF agreed, r
<1>4. /\ i \in Sound /\ DOMAIN i.events = DOMAIN r.events
      /\ Believers(i) = Believers(r) \union agreed
  BY <1>1, <1>3, Agreement
<1> DEFINE status == IF refuses = 0 THEN i.status ELSE "FATAL_ERROR"
<1>5. status \in {"TUPLES_OK", "FATAL_ERROR"} /\ s = [i EXCEPT !.status = status]
  BY <1>4 DEF Sound, PGresults
<1> HIDE DEF status, i
<1>6. s \in Sound /\ s.events = i.events
  BY <1>4, <1>5, OtherStatus
<1>7. results' = [results EXCEPT ![x] = s] /\ Tells(agreed, 1)
  BY <1>2 DEF agreed, i, r
<1> HIDE DEF s
<1>8. Believers(s) = Believers(r) \union agreed /\ s # NULL /\ DOMAIN s.events \subseteq 1..Procs
  BY <1>1, <1>4, <1>6, NullIsNoResult DEF Believers
<1>9. ASSUME NEW p \in 1..Procs PROVE told'[p] = told[p] + Learned(r, s, p)
  <2>1. told'[p] = told[p] + (IF p \in agreed THEN 1 ELSE 0) /\ told[p] \in Int
    BY <1>1, <1>7 DEF Tells
  <2>2. Learned(r, s, p) = IF p \in agreed THEN 1 ELSE 0
    BY <1>1, <1>3, <1>8 DEF Learned, Knows
  <2> QED BY <2>1, <2>2
<1>10. told' \in [1..Procs -> Int]
  BY <1>1, <1>7 DEF Tells
<1> QED BY <1>6, <1>7, <1>8, <1>9, <1>10, Replaced DEF r

LEMMA ClearKeeps ==
  ASSUME ResultInv, NEW x \in Results, Clear(x)
  PROVE  ResultInv'
<1>1. /\ results[x] # NULL /\ Tells(Believers(results[x]), -1)
      /\ results' = [results EXCEPT ![x] = NULL] /\ told \in [1..Procs -> Int]
  BY DEF Clear, ResultInv
<1>2. ASSUME NEW p \in 1..Procs PROVE told'[p] = told[p] + Learned(results[x], NULL, p)
  <2>1. /\ told'[p] = told[p] + (IF p \in Believers(results[x]) THEN -1 ELSE 0)
        /\ told[p] \in Int
    BY <1>1 DEF Tells
  <2>2. Learned(results[x], NULL, p) = IF p \in Believers(results[x]) THEN -1 ELSE 0
    BY <1>1 DEF Learned, Knows
  <2> QED BY <2>1, <2>2
<1>3. told' \in [1..Procs -> Int]
  BY <1>1 DEF Tells
<1> QED BY <1>1, <1>2, <1>3, Replaced

\* What the copy of a result holds when it is returned.
LEMMA CopyMade ==
  ASSUME ResultInv, NEW src \in Results, NEW y \in Results, NEW flags \in Flags, CopyTo(src, y, flags)
  PROVE  \/ results' = results /\ told' = told
         \/ \E s \in Sound, asked \in SUBSET (1..Procs) :
              /\ results' = [results EXCEPT ![y] = s] /\ Tells(asked, 1)
              /\ DOMAIN s.events \subseteq 1..Procs /\ Believers(s) = asked
              /\ "TUPLES" \in flags /\ results[src].attrs # <<>> =>
                   s.rows = results[src].rows /\ s.attrs = results[src].attrs
<1> DEFINE r == results[src]
<1>1. r # NULL /\ r \in Sound /\ DOMAIN r.events \subseteq 1..Procs
  BY DEF CopyTo, ResultInv, Live
<1>2. PICK o \in Copies(r, flags) :
        IF ~o.ok THEN results' = results /\ told' = told
        ELSE LET asked == DOMAIN o.r.events \intersect Believers(r)
             IN  \E refuses \in {0} \union asked :
                   IF refuses # 0 THEN results' = results /\ told' = told
                   ELSE /\ results' = [results EXCEPT ![y] = Initialized(o.r, asked)]
                        /\ Tells(asked, 1)
  BY DEF CopyTo
<1> HIDE DEF r
<1>3. CASE ~o.ok
  BY <1>2, <1>3
<1>4. CASE o.ok
  <2> DEFINE asked == DOMAIN o.r.events \intersect Believers(r)
             s == Initialized(o.r, asked)
  <2>1. CASE results' = results /\ told' = told
    BY <2>1
  <2>2. CASE results' = [results EXCEPT ![y] = s] /\ Tells(asked, 1)
    <3>1. /\ o.r \in Sound
          /\ o.r.events = <<>> \/ o.r.events = dupEvents(r.events)
          /\ "TUPLES" \in flags /\ r.attrs # <<>> => o.r.rows = r.rows /\ o.r.attrs = r.attrs
      BY <1>1, <1>2, <1>4, CopiesSound
    <3>2. DOMAIN o.r.events \subseteq 1..Procs /\ Believers(o.r) = {}
      <4>1. r.events \in Seq(BOOLEAN)
        BY <1>1, SoundFacts
      <4>2. CASE o.r.events = <<>>
        <5>1. DOMAIN o.r.events = {}
          BY <4>2
        <5> QED BY <5>1 DEF Believers
      <4>3. CASE o.r.events = dupEvents(r.events)
        BY <1>1, <4>1, <4>3, NobodyTold DEF Believers
      <4> QED BY <3>1, <4>2, <4>3
    <3>3. asked \in SUBSET DOMAIN o.r.events /\ asked \in SUBSET (1..Procs)
      BY <3>2
    <3> HIDE DEF asked
    <3>4. o.r \in Sound
      BY <3>1
    <3>5. /\ s \in Sound /\ DOMAIN s.events = DOMAIN o.r.events
          /\ Believers(s) = Believers(o.r) \union asked
          /\ s.rows = o.r.rows /\ s.attrs = o.r.attrs
      BY <3>3, <3>4, Agreement
    <3> HIDE DEF s
    <3>6. Believers(s) = asked /\ DOMAIN s.events \subseteq 1..Procs
      BY <3>2, <3>5
    <3> QED BY <2>2, <3>1, <3>3, <3>5, <3>6 DEF r
  <2> QED BY <1>2, <1>4, <2>1, <2>2
<1> QED BY <1>3, <1>4

LEMMA CopyKeeps ==
  ASSUME ResultInv, NEW src \in Results, NEW y \in Results, NEW flags \in Flags, CopyTo(src, y, flags)
  PROVE  ResultInv'
<1>1. CASE results' = results /\ told' = told
  BY <1>1 DEF ResultInv, EventsPaired, Live
<1>2. ASSUME NEW s \in Sound, NEW asked \in SUBSET (1..Procs),
             results' = [results EXCEPT ![y] = s], Tells(asked, 1),
             DOMAIN s.events \subseteq 1..Procs, Believers(s) = asked
      PROVE  ResultInv'
  <2>1. results[y] = NULL /\ s # NULL /\ told \in [1..Procs -> Int]
    BY NullIsNoResult DEF CopyTo, ResultInv
  <2>2. ASSUME NEW p \in 1..Procs PROVE told'[p] = told[p] + Learned(results[y], s, p)
    <3>1. told'[p] = told[p] + (IF p \in asked THEN 1 ELSE 0) /\ told[p] \in Int
      BY <1>2, <2>1 DEF Tells
    <3>2. Learned(results[y], s, p) = IF p \in asked THEN 1 ELSE 0
      BY <1>2, <2>1 DEF Learned, Knows
    <3> QED BY <3>1, <3>2
  <2>3. told' \in [1..Procs -> Int]
    BY <1>2, <2>1 DEF Tells
  <2> QED BY <1>2, <2>2, <2>3, Replaced
<1> QED BY <1>1, <1>2, CopyMade

LEMMA ResultNextKeeps == ResultInv /\ [ResultNext]_resultVars => ResultInv'
<1> SUFFICES ASSUME ResultInv, [ResultNext]_resultVars PROVE ResultInv'
  OBVIOUS
<1>1. ASSUME NEW x \in Results, MakeEmpty(x) PROVE ResultInv'
  BY <1>1, MakeEmptyKeeps
<1>2. ASSUME NEW x \in Results, FireCreate(x) PROVE ResultInv'
  BY <1>2, FireCreateKeeps
<1>3. ASSUME NEW x \in Results, SetAttrs(x) \/ SetValue(x) \/ ReceiveRow(x) PROVE ResultInv'
  BY <1>3, FillingKeeps
<1>4. ASSUME NEW x \in Results, Clear(x) PROVE ResultInv'
  BY <1>4, ClearKeeps
<1>5. CASE Copy
  BY <1>5, CopyKeeps DEF Copy
<1>6. CASE UNCHANGED resultVars
  BY <1>6 DEF resultVars, ResultInv, EventsPaired, Live
<1> QED BY <1>1, <1>2, <1>3, <1>4, <1>5, <1>6 DEF ResultNext

THEOREM Inductive == ResultSpec => []ResultInv
BY InitGood, ResultNextKeeps, PTL DEF ResultSpec

-----------------------------------------------------------------------------
\* The variables hold results whose fields are what their C types say.
THEOREM TypeCorrect == ResultSpec => []ResultTypeOK
<1>1. ResultInv => ResultTypeOK
  BY DEF ResultInv, ResultTypeOK, Sound
<1> QED BY <1>1, Inductive, PTL

\* Every piece pqResultAlloc hands out lies in its block, aligned, apart from all
\* others, and the rows are in their array: for every block size, every sequence
\* of calls and whatever malloc refuses.
THEOREM MemoryIsInBounds == ResultSpec => []MemoryInBounds
<1>1. ResultInv => MemoryInBounds
  <2> SUFFICES ASSUME ResultInv, NEW x \in Live
               PROVE  /\ \A p \in results[x].pieces :
                           /\ Within(results[x], p)
                           /\ \A q \in results[x].pieces \ {p} : Apart(p, q)
                      /\ Len(results[x].rows) <= results[x].tupArrSize
    BY DEF MemoryInBounds
  <2>1. results[x] \in Sound
    BY DEF ResultInv, Live
  <2> QED BY <2>1 DEF Sound, Placed, Arrayed
<1> QED BY <1>1, Inductive, PTL

\* Each event procedure was told of the end of exactly the results it agreed to
\* know, and of each once.
THEOREM EventsArePaired == ResultSpec => []EventsPaired
<1>1. ResultInv => EventsPaired
  BY DEF ResultInv
<1> QED BY <1>1, Inductive, PTL

\* A copy with tuples that PQcopyResult returns has the rows and columns of its
\* source, whatever allocation failed on the way.
THEOREM CopiesAlwaysAgree == ResultSpec => CopiesAgree
<1> DEFINE A == \A src, y \in Results, flags \in Flags :
                  /\ results[y] = NULL /\ results'[y] # NULL /\ "TUPLES" \in flags
                  /\ results[src] # NULL /\ results[src].attrs # <<>>
                  /\ CopyTo(src, y, flags)
                  => /\ results'[y].rows = results[src].rows
                     /\ results'[y].attrs = results[src].attrs
<1>1. ResultInv /\ [ResultNext]_resultVars => [A]_resultVars
  <2> SUFFICES ASSUME ResultInv, NEW src \in Results, NEW y \in Results, NEW flags \in Flags,
                      results[y] = NULL, results'[y] # NULL, "TUPLES" \in flags,
                      results[src].attrs # <<>>, CopyTo(src, y, flags)
               PROVE  /\ results'[y].rows = results[src].rows
                      /\ results'[y].attrs = results[src].attrs
    OBVIOUS
  <2>1. results' # results
    OBVIOUS
  <2>2. PICK s \in Sound : /\ results' = [results EXCEPT ![y] = s]
                           /\ s.rows = results[src].rows /\ s.attrs = results[src].attrs
    BY <2>1, CopyMade
  <2>3. results'[y] = s
    BY <2>2 DEF ResultInv
  <2> QED BY <2>2, <2>3
<1> HIDE DEF A
<1>2. ResultSpec => [][A]_resultVars
  BY <1>1, Inductive, PTL DEF ResultSpec
<1> QED BY <1>2 DEF A, CopiesAgree
=============================================================================

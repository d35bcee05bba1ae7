-------------------------------- MODULE Wire --------------------------------
(***************************************************************************)
(* The buffers of a PGconn between its caller and the socket, fe-misc.c:   *)
(* messages are built in outBuffer and become eligible to be sent when     *)
(* they are complete; pqSendSome writes as much as the socket takes and    *)
(* reads what the server says meanwhile; pqReadData moves, enlarges and    *)
(* fills inBuffer, from which the parser takes whole messages.             *)
(*                                                                         *)
(* Each byte of a stream is its number in the stream, and a buffer is the  *)
(* sequence of the bytes in it, so that a byte moved to the wrong place,   *)
(* sent twice or lost is seen.  The server is a process that reads, talks  *)
(* and blocks when the pipe to the client is full, and may die.            *)
(***************************************************************************)
EXTENDS Integers, Sequences

CONSTANTS
  Chunk,       \* 8192, the size of a pipe buffer
  MinRoom,     \* 100, the room without which reading is hopeless
  InitialSize, \* 16384
  MaxMem,      \* bound: the largest buffer realloc grants
  Header,      \* bytes of a type and a length word
  PipeSize,    \* bytes the kernel holds in each direction
  Bodies,      \* sizes of the pieces a message is built of
  MaxOut,      \* bound: bytes the caller writes
  Ends,        \* where the messages of the server end in its stream
  Talk         \* bytes it says for each byte it has read

ASSUME SizesAssumption ==
  /\ {Chunk, MinRoom, InitialSize, MaxMem, Header, PipeSize} \subseteq Nat \ {0}
  /\ Bodies \subseteq Nat \ {0} /\ MaxOut \in Nat /\ Ends \subseteq Nat /\ Talk \in Nat
  /\ Header <= InitialSize /\ InitialSize <= MaxMem /\ Chunk <= InitialSize
ASSUME EndsAssumption == \E e \in Ends : \A f \in Ends : f <= e

VARIABLES
  \* the PGconn
  open,        \* sock is valid
  nonblocking,
  outBuffer,   \* its bytes up to outMsgEnd
  outCount,    \* those of complete messages
  outBufSize,
  inBuffer,    \* its bytes up to inEnd
  inStart, inCursor, inBufSize,
  \* where its caller is
  pc,          \* "idle", "building", "sending", "reading" (in pqSendSome), "waiting"
  len, ptr,    \* of pqSendSome: still to send, start of what is left
  result,      \* of the last pqSendSome: 0, 1 or -1
  \* the other side
  alive,       \* the server
  toServer, toClient,
  \* history
  committed,   \* bytes of complete messages put so far
  received,    \* bytes the server has read
  said,        \* bytes the server has said
  taken        \* bytes the parser has consumed

outVars == <<outBuffer, outCount, outBufSize, committed>>
inVars == <<inBuffer, inStart, inCursor, inBufSize, taken>>
callVars == <<pc, len, ptr, result>>
netVars == <<alive, toServer, toClient, received, said>>
vars == <<open, nonblocking, outVars, inVars, callVars, netVars>>

Init ==
  /\ open = TRUE /\ nonblocking \in BOOLEAN
  /\ outBuffer = <<>> /\ outCount = 0 /\ outBufSize = InitialSize /\ committed = 0
  /\ inBuffer = <<>> /\ inStart = 0 /\ inCursor = 0 /\ inBufSize = InitialSize /\ taken = 0
  /\ pc = "idle" /\ len = 0 /\ ptr = 0 /\ result = 0
  /\ alive = TRUE /\ toServer = <<>> /\ toClient = <<>> /\ received = 0 /\ said = 0

Lesser(a, b) == IF a < b THEN a ELSE b

\* The size a buffer of the given size is enlarged to so that it holds needed
\* bytes: doubled until it does if realloc grants that, else enlarged by
\* multiples of Chunk.  None if neither is granted.
NewSizes(size, needed) ==
  LET doubled == {s \in needed..MaxMem : \E k \in 1..needed : s = size * 2^k}
      stepped == {s \in needed..MaxMem : \E k \in 1..needed : s = size + k * Chunk}
      least(S) == {s \in S : \A t \in S : s <= t}
  IN  IF doubled # {} THEN least(doubled) ELSE least(stepped)

-----------------------------------------------------------------------------
(* Output. *)

\* Mutant: the room for one byte is not asked for.
RoomOut_OneShort(needed) ==
  IF needed <= outBufSize + 1 THEN outBufSize' = outBufSize
  ELSE \E size \in NewSizes(outBufSize, needed) : outBufSize' = size

\* pqCheckOutBufferSpace: there is room for needed bytes.
RoomOut(needed) ==
  IF needed <= outBufSize THEN outBufSize' = outBufSize
  ELSE \E size \in NewSizes(outBufSize, needed) : outBufSize' = size

NoRoomOut(needed) == needed > outBufSize /\ NewSizes(outBufSize, needed) = {}

\* The next n bytes of the stream, put behind s.
Extended(s, n) == s \o [i \in 1..n |-> committed + (Len(s) - outCount) + i]

\* A message begins behind the complete ones; one begun before and never
\* finished is forgotten.
pqPutMsgStart ==
  /\ pc \in {"idle", "building"} /\ committed + Header <= MaxOut
  /\ LET complete == SubSeq(outBuffer, 1, outCount)
     IN  \/ /\ RoomOut(outCount + Header)
            /\ outBuffer' = Extended(complete, Header) /\ pc' = "building"
         \/ /\ NoRoomOut(outCount + Header)
            /\ outBuffer' = complete /\ pc' = "idle" /\ UNCHANGED outBufSize
  /\ UNCHANGED <<open, nonblocking, outCount, committed, inVars, len, ptr, result, netVars>>

\* When there is no room, the caller gives the message up.
pqPutMsgBytes(n) ==
  /\ pc = "building" /\ committed + (Len(outBuffer) - outCount) + n <= MaxOut
  /\ \/ /\ RoomOut(Len(outBuffer) + n)
        /\ outBuffer' = Extended(outBuffer, n) /\ UNCHANGED pc
     \/ /\ NoRoomOut(Len(outBuffer) + n)
        /\ pc' = "idle" /\ UNCHANGED <<outBuffer, outBufSize>>
  /\ UNCHANGED <<open, nonblocking, outCount, committed, inVars, len, ptr, result, netVars>>

\* pqSendSome is entered to send n of the count complete bytes.
StartSending(n, count) ==
  IF open
    THEN pc' = "sending" /\ len' = n /\ ptr' = 0 /\ outCount' = count /\ UNCHANGED result
    ELSE pc' = "idle" /\ result' = -1 /\ outCount' = 0 /\ UNCHANGED <<len, ptr>>

\* The message is eligible to be sent; whole chunks are, at once.
pqPutMsgEnd ==
  /\ pc = "building"
  /\ committed' = committed + (Len(outBuffer) - outCount)
  /\ LET count == Len(outBuffer)
     IN  IF count >= Chunk THEN StartSending(count - (count % Chunk), count)
         ELSE pc' = "idle" /\ outCount' = count /\ UNCHANGED <<len, ptr, result>>
  /\ outBuffer' = IF Len(outBuffer) >= Chunk /\ ~open THEN <<>> ELSE outBuffer
  /\ UNCHANGED <<open, nonblocking, outBufSize, inVars, netVars>>

pqFlush ==
  /\ pc = "idle" /\ outCount > 0
  /\ StartSending(outCount, outCount)
  /\ outBuffer' = IF open THEN SubSeq(outBuffer, 1, outCount) ELSE <<>>
  /\ UNCHANGED <<open, nonblocking, outBufSize, committed, inVars, netVars>>

\* Mutant: what is left is not moved to the front.
Sent_NotMoved(r) ==
  /\ outBuffer' = SubSeq(outBuffer, 1, Len(outBuffer) - ptr')
  /\ outCount' = outCount - ptr'
  /\ pc' = "idle" /\ result' = r

\* pqSendSome returns r: what is left moves to the front of the buffer.
Sent(r) ==
  /\ outBuffer' = SubSeq(outBuffer, ptr' + 1, Len(outBuffer))
  /\ outCount' = outCount - ptr'
  /\ pc' = "idle" /\ result' = r

\* send() takes some bytes, or the socket would block.
SendSomeWrites ==
  /\ pc = "sending" /\ alive
  /\ \E n \in 0..Lesser(len, PipeSize - Len(toServer)) :
       /\ n = 0 => Len(toServer) = PipeSize
       /\ toServer' = toServer \o SubSeq(outBuffer, ptr + 1, ptr + n)
       /\ ptr' = ptr + n /\ len' = len - n
       /\ IF len' = 0 THEN Sent(0) ELSE pc' = "reading" /\ UNCHANGED <<outBuffer, outCount, result>>
  /\ UNCHANGED <<open, nonblocking, outBufSize, committed, inVars, alive, toClient, received, said>>

\* send() fails for good: the output is given up, the socket stays open for
\* what there may be to read.
SendSomeFails ==
  /\ pc = "sending" /\ ~alive
  /\ outBuffer' = <<>> /\ outCount' = 0 /\ pc' = "idle" /\ result' = -1
  /\ UNCHANGED <<open, nonblocking, outBufSize, committed, inVars, len, ptr, netVars>>

-----------------------------------------------------------------------------
(* Input. *)

\* The buffer left-justified: what is before inStart goes.
Justified == SubSeq(inBuffer, inStart + 1, Len(inBuffer))

\* Room for one more chunk is made if it can be.
SizesForReading ==
  LET needed == Len(Justified) + Chunk
  IN  IF inBufSize >= needed \/ NewSizes(inBufSize, needed) = {} THEN {inBufSize}
      ELSE NewSizes(inBufSize, needed)

\* pqReadData with the answer it gives: 1, some bytes were loaded; 0, there
\* are none; -1, the buffer is full, or the connection is closed and dropped,
\* what was read before still wanted.
pqReadData(answer) ==
  \/ ~open /\ answer = -1 /\ UNCHANGED <<open, inVars, toClient>>
  \/ /\ open
     /\ \E size \in SizesForReading, n \in 0..Len(toClient) :
          LET room == size - Len(Justified)
          IN  /\ inBufSize' = size
              /\ inBuffer' = Justified \o SubSeq(toClient, 1, n)
              /\ toClient' = SubSeq(toClient, n + 1, Len(toClient))
              /\ \/ room < MinRoom /\ n = 0 /\ answer = -1 /\ open' = open
                 \/ room >= MinRoom /\ n \in 1..room /\ answer = 1 /\ open' = open
                 \/ /\ room >= MinRoom /\ toClient = <<>>
                    /\ answer = (IF alive THEN 0 ELSE -1) /\ open' = alive
     /\ inStart' = 0 /\ inCursor' = (IF Justified = <<>> THEN 0 ELSE inCursor - inStart)
     /\ UNCHANGED taken

\* Mutant: a blocking connection only waits until it can write again.
SendSomeReads_Blocking ==
  /\ pc = "reading" /\ Len(toServer) < PipeSize
  /\ pc' = "sending"
  /\ UNCHANGED <<open, nonblocking, outVars, inVars, len, ptr, result, netVars>>

\* Not all was sent: accept what the server says, lest both wait for ever; a
\* blocking connection then waits for either direction.
SendSomeReads ==
  /\ pc = "reading" /\ UNCHANGED ptr
  /\ \E answer \in {-1, 0, 1} :
       /\ pqReadData(answer)
       /\ IF answer < 0 THEN Sent(-1)
          ELSE IF nonblocking THEN Sent(1)
          ELSE pc' = "waiting" /\ UNCHANGED <<outBuffer, outCount, result>>
  /\ UNCHANGED <<nonblocking, outBufSize, committed, len, alive, toServer, received, said>>

pqWait ==
  /\ pc = "waiting"
  /\ toClient # <<>> \/ Len(toServer) < PipeSize \/ ~alive
  /\ pc' = "sending"
  /\ UNCHANGED <<open, nonblocking, outVars, inVars, len, ptr, result, netVars>>

\* The caller reads when the socket has something (PQconsumeInput).
ReadInput ==
  /\ pc = "idle" /\ open
  /\ toClient # <<>> \/ ~alive
  /\ \E answer \in {-1, 0, 1} : pqReadData(answer)
  /\ outBuffer' = IF open' THEN outBuffer ELSE <<>>
  /\ outCount' = IF open' THEN outCount ELSE 0
  /\ UNCHANGED <<nonblocking, outBufSize, committed, callVars, alive, toServer, received, said>>

\* pqCheckInBufferSpace: what is left of inStart goes before the buffer is
\* enlarged.
pqCheckInBufferSpace(needed) ==
  IF needed <= inBufSize THEN UNCHANGED <<inBuffer, inStart, inCursor, inBufSize>>
  ELSE /\ inBuffer' = Justified /\ inStart' = 0 /\ inCursor' = inCursor - inStart
       /\ IF needed - inStart <= inBufSize THEN UNCHANGED inBufSize
          ELSE inBufSize' \in NewSizes(inBufSize, needed - inStart)
CannotHold(needed) ==
  needed - inStart > inBufSize /\ NewSizes(inBufSize, needed - inStart) = {}

\* The length of the message that begins at inStart.
NextEnd == CHOOSE e \in Ends : e > taken /\ \A f \in Ends : f > taken => e <= f
MessageLength == NextEnd - taken

\* The parser takes a message that is there as a whole.  If its header is
\* there, it makes room for the rest, or gives the connection up.
TakeMessage ==
  /\ pc = "idle" /\ Len(Justified) >= Header
  /\ IF Len(Justified) >= MessageLength
       THEN /\ inStart' = inStart + MessageLength /\ inCursor' = inStart'
            /\ taken' = taken + MessageLength
            /\ UNCHANGED <<open, inBuffer, inBufSize, outBuffer, outCount>>
       ELSE IF CannotHold(inStart + MessageLength)
       THEN /\ open' = FALSE /\ inBuffer' = <<>> /\ inStart' = 0 /\ inCursor' = 0
            /\ outBuffer' = <<>> /\ outCount' = 0 /\ UNCHANGED <<inBufSize, taken>>
       ELSE /\ pqCheckInBufferSpace(inStart + MessageLength)
            /\ UNCHANGED <<open, taken, outBuffer, outCount>>
  /\ UNCHANGED <<nonblocking, outBufSize, committed, callVars, netVars>>

-----------------------------------------------------------------------------
(* The server.  It answers what it reads and cannot read on before it has  *)
(* said what it has to say.                                                *)

AllSaid == CHOOSE e \in Ends : \A f \in Ends : f <= e
ToSay == Lesser(AllSaid, Talk * (received + 1))

ServerSays ==
  /\ alive /\ said < ToSay /\ Len(toClient) < PipeSize
  /\ said' = said + 1 /\ toClient' = Append(toClient, said + 1)
  /\ UNCHANGED <<open, nonblocking, outVars, inVars, callVars, alive, toServer, received>>

ServerReads ==
  /\ alive /\ said = ToSay /\ toServer # <<>>
  /\ received' = received + 1 /\ toServer' = Tail(toServer)
  /\ UNCHANGED <<open, nonblocking, outVars, inVars, callVars, alive, toClient, said>>

\* It dies; what it has said may be lost.
ServerDies ==
  /\ alive
  /\ alive' = FALSE /\ toServer' = <<>>
  /\ toClient' \in {toClient, <<>>}
  /\ UNCHANGED <<open, nonblocking, outVars, inVars, callVars, received, said>>

-----------------------------------------------------------------------------
SendSome == SendSomeWrites \/ SendSomeFails \/ SendSomeReads \/ pqWait
Server == ServerSays \/ ServerReads

Next ==
  \/ pqPutMsgStart \/ pqPutMsgEnd \/ pqFlush
  \/ \E n \in Bodies : pqPutMsgBytes(n)
  \/ SendSome \/ ReadInput \/ TakeMessage
  \/ Server \/ ServerDies

Spec == Init /\ [][Next]_vars

\* A call into the library runs on, and a server that lives works.
FairSpec == Spec /\ WF_vars(SendSome) /\ WF_vars(Server)

-----------------------------------------------------------------------------
(* Properties. *)

IsRun(s, start) == \A i \in DOMAIN s : s[i] = start + i

\* The shape of every variable.
TypeOK ==
  /\ {open, nonblocking, alive} \subseteq BOOLEAN /\ result \in {-1, 0, 1}
  /\ pc \in {"idle", "building", "sending", "reading", "waiting"}
  /\ {outCount, outBufSize, committed, inStart, inCursor, inBufSize, taken,
      len, ptr, received, said} \subseteq Nat
  /\ {outBuffer, inBuffer, toServer, toClient} \subseteq Seq(Nat)

\* No step writes or points outside the buffers, however they are moved and
\* enlarged (pqCheckOutBufferSpace, pqCheckInBufferSpace, pqReadData).
WithinBuffers ==
  /\ TypeOK
  /\ outCount <= Len(outBuffer) /\ Len(outBuffer) <= outBufSize /\ outBufSize <= MaxMem
  /\ 0 <= inStart /\ inStart <= inCursor /\ inCursor <= Len(inBuffer)
  /\ Len(inBuffer) <= inBufSize /\ inBufSize <= MaxMem

\* What the server has read, what the kernel holds and what is left of
\* outCount are together the bytes of the complete messages, in order, each
\* once; no byte of an unfinished message has left.
OutputIntact ==
  alive /\ open =>
    LET unsent == SubSeq(outBuffer, IF pc \in {"sending", "reading", "waiting"} THEN ptr + 1 ELSE 1, outCount)
    IN  IsRun(toServer \o unsent, received)
        /\ received + Len(toServer) + Len(unsent) = committed

\* The unread part of inBuffer and what the kernel holds continue what the
\* parser has taken, across every move of the buffer.
InputIntact == open => IsRun(Justified \o toClient, taken)

\* No byte is lost, repeated or moved past another in either direction.
BytesIntact == OutputIntact /\ InputIntact

\* Sending returns although both pipes may be full at once: the client reads
\* while it cannot write.
SendReturns == pc \in {"sending", "reading", "waiting"} ~> pc \in {"idle", "building"}
=============================================================================

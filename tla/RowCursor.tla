----------------------------- MODULE RowCursor ------------------------------
(***************************************************************************)
(* What fetch() promises its caller: the rows of a result come out in      *)
(* order, as many per call as were asked for, each of them once.  A batch  *)
(* that was taken is either given to the caller or, if it cannot be turned *)
(* into a data frame, dropped.                                             *)
(***************************************************************************)
EXTENDS Integers

CONSTANTS
  Requests,     \* the counts a caller asks for: negative is "all"
  DefaultRec    \* rows of a call that asks for 0

VARIABLES
  total,        \* rows of the result
  pos,          \* rows taken so far
  done,         \* whether a call ran into the end
  batch,        \* rows taken by the last call and not yet given or dropped
  given         \* rows the caller has been given

cursorVars == <<total, pos, done, batch, given>>

\* How many rows a call that asks for n takes when left rows are there.
Share(n, left) ==
  LET limit == IF n = 0 THEN DefaultRec ELSE n
  IN  IF n < 0 \/ left <= limit THEN left ELSE limit

Init ==
  /\ total \in Nat /\ pos = 0 /\ done = FALSE /\ batch = {} /\ given = {}

Take(n) ==
  /\ batch = {}
  /\ pos' = pos + Share(n, total - pos)
  /\ done' = (pos' = total)
  /\ batch' = pos..(pos' - 1)
  /\ UNCHANGED <<total, given>>

Give == given' = given \cup batch /\ batch' = {} /\ UNCHANGED <<total, pos, done>>

Drop == batch' = {} /\ UNCHANGED <<total, pos, done, given>>

Next == (\E n \in Requests : Take(n)) \/ Give \/ Drop

Spec == Init /\ [][Next]_cursorVars
=============================================================================

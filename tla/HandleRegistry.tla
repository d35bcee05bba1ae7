--------------------------- MODULE HandleRegistry ---------------------------
(***************************************************************************)
(* What the connection handles of RPostgreSQL promise to the R programmer, *)
(* told without tables, slots or counters.  A handle is issued for one     *)
(* session, denotes that session until it is retired, and once retired is  *)
(* never issued again: a stale handle can fail, but cannot reach somebody  *)
(* else's session.  RS-DBI.c claims it where it keeps the counter across   *)
(* reloads ("we make sure we don't recycle connection Ids").               *)
(***************************************************************************)
EXTENDS Functions

CONSTANTS Ids, Sessions

VARIABLES
  live,     \* the session each live handle denotes
  retired   \* the handles issued once and dead for good

vars == <<live, retired>>

Init == live = [id \in {} |-> {}] /\ retired = {}

\* dbConnect(): a fresh id for a session no live handle denotes.
Issue(id, s) ==
  /\ id \notin retired \cup DOMAIN live
  /\ \A other \in DOMAIN live : live[other] # s
  /\ live' = [h \in DOMAIN live \cup {id} |-> IF h = id THEN s ELSE live[h]]
  /\ UNCHANGED retired

\* dbDisconnect() retires one handle, a forced reload all of them.
Retire(ids) ==
  /\ ids # {}
  /\ live' = Restrict(live, DOMAIN live \ ids)
  /\ retired' = retired \cup ids

Next ==
  \/ \E id \in Ids, s \in Sessions : Issue(id, s)
  \/ \E id \in DOMAIN live : Retire({id})
  \/ Retire(DOMAIN live)

Spec == Init /\ [][Next]_vars
=============================================================================

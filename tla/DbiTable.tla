------------------------------ MODULE DbiTable ------------------------------
(***************************************************************************)
(* The object-id tables of RS-DBI.c ("very simple objectId (mapping)       *)
(* table"): an int array in which a cell holds the id of an object or the  *)
(* empty value.  The manager keeps one for its connections and every       *)
(* connection keeps one for its result sets.  As in the C code, finding a  *)
(* free cell does not claim it: the caller writes the id itself.           *)
(***************************************************************************)
EXTENDS Integers, FiniteSets

\* empty_val in RS_DBI_newEntry and RS_DBI_freeEntry.
EmptyVal == -1

\* A table of len cells, all empty.
NewTable(len) == [i \in 0..len-1 |-> EmptyVal]

\* Tables of len cells over the ids in Ids.
Tables(len, Ids) == [0..len-1 -> Ids \cup {EmptyVal}]

SlotsHolding(table, id) == {i \in DOMAIN table : table[i] = id}

UsedSlots(table) == {i \in DOMAIN table : table[i] # EmptyVal}

UsedIds(table) == {table[i] : i \in UsedSlots(table)}

\* Where an ascending scan of the cells stops.
First(slots) == CHOOSE i \in slots : \A j \in slots : i <= j

\* The scan both RS_DBI_newEntry and RS_DBI_lookup make: the first cell that
\* holds id, or -1 when the loop runs off the end.
FirstHolding(table, id) ==
  IF SlotsHolding(table, id) = {} THEN -1 ELSE First(SlotsHolding(table, id))

NewEntry(table) == FirstHolding(table, EmptyVal)

Lookup(table, id) == FirstHolding(table, id)

\* The write by which the caller of RS_DBI_newEntry claims the cell it found.
ClaimEntry(table, indx, id) == [table EXCEPT ![indx] = id]

FreeEntry(table, indx) == [table EXCEPT ![indx] = EmptyVal]

\* The head of what RS_DBI_listEntries reports of a table that is not empty: it
\* lists the used cells in ascending order.
FirstListed(table) == table[First(UsedSlots(table))]

=============================================================================

--------------------------- MODULE MCCallRecords ---------------------------
(***************************************************************************)
(* Instance of CallRecords: one agent, listed under two companies, and one *)
(* call: the map is keyed by uuid, and its events are handled one by one.  *)
(***************************************************************************)
EXTENDS CallRecords

CONSTANT a1

MCCallerOf == [c \in Call |-> a1]

Row(number, company) == [agent |-> a1, group |-> number, group_id |-> company]

\* Row i is company i's; in the second table it is not, and company 2 is past its end.
MCTables == { <<Row(10, 0), Row(11, 1)>>, <<Row(12, 2), Row(10, 0)>> }

=============================================================================

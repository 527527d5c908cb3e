---------------------------- MODULE MCWsSession ----------------------------
(***************************************************************************)
(* Instance of WsSession: two desks of one user.  A row can hold the empty *)
(* name besides, so that the map has up to two entries.                    *)
(***************************************************************************)
EXTENDS WsSession, TLC

MCUserOf == [d \in Desk |-> 1]

MCSymmetry == Permutations(Desk)

=============================================================================

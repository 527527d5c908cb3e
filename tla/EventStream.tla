---------------------------- MODULE EventStream ----------------------------
(***************************************************************************)
(* What process_event may rely on: the events FreeSWITCH sends are numbered *)
(* 1, 2, ... and the Inbound_Init thread disposes of them one by one in    *)
(* that order, none twice and none out of turn.  As long as nobody else    *)
(* uses the event thread's connection, every one is processed; from then   *)
(* on an event whose turn it is may be missed: dropped, or read from freed *)
(* memory.                                                                 *)
(***************************************************************************)
EXTENDS Naturals

VARIABLES
    sent,    \* events FreeSWITCH has sent
    done,    \* events the thread has disposed of
    missed,  \* those of them that were not processed from intact memory
    shared   \* another thread has used the connection

vars == <<sent, done, missed, shared>>

Init == sent = 0 /\ done = 0 /\ missed = {} /\ shared = FALSE

Send == sent' = sent + 1 /\ UNCHANGED <<done, missed, shared>>

Share == shared' = TRUE /\ UNCHANGED <<sent, done, missed>>

Process ==
    /\ done < sent
    /\ done' = done + 1
    /\ UNCHANGED <<sent, missed, shared>>

Miss ==
    /\ shared
    /\ done < sent
    /\ done' = done + 1
    /\ missed' = missed \cup {done'}
    /\ UNCHANGED <<sent, shared>>

\* CHANNEL_DESTROY reads one more header after it has written the call record.
MissTheRest ==
    /\ shared
    /\ done > 0
    /\ missed' = missed \cup {done}
    /\ UNCHANGED <<sent, done, shared>>

Next == Send \/ Share \/ Process \/ Miss \/ MissTheRest

Spec == Init /\ [][Next]_vars

=============================================================================

----------------------------- MODULE AcdService -----------------------------
(***************************************************************************)
(* What the ACD thread promises to callers, agents left out: the call that *)
(* began first is taken first, one call at a time; a call taken is         *)
(* connected once or lost; and only a crash takes calls from the queue out *)
(* of their turn, all of them.  Times are in whole seconds, and calls that *)
(* began in the same second may be taken in any order.                     *)
(***************************************************************************)
EXTENDS Integers

CONSTANTS
    Call,
    Stamp      \* Call -> the second the call began

VARIABLES
    waiting,   \* calls in the queue
    taken,     \* the call an agent is looked for
    connected, \* calls that have been given to an agent's phone
    lost       \* calls that were given up

vars == <<waiting, taken, connected, lost>>

Init == waiting = {} /\ taken = {} /\ connected = {} /\ lost = {}

Unknown(c) == c \notin waiting \cup taken \cup connected \cup lost

Ask(c) ==
    /\ Unknown(c)
    /\ waiting' = waiting \cup {c}
    /\ UNCHANGED <<taken, connected, lost>>

Take(c) ==
    /\ taken = {}
    /\ c \in waiting
    /\ \A b \in waiting : Stamp[c] <= Stamp[b]
    /\ waiting' = waiting \ {c}
    /\ taken' = {c}
    /\ UNCHANGED <<connected, lost>>

Connect(c) ==
    /\ c \in taken
    /\ taken' = taken \ {c}
    /\ connected' = connected \cup {c}
    /\ UNCHANGED <<waiting, lost>>

Lose(c) ==
    /\ c \in taken
    /\ taken' = taken \ {c}
    /\ lost' = lost \cup {c}
    /\ UNCHANGED <<waiting, connected>>

\* A call that somebody makes to an agent's phone never waits.
Bypass(c) ==
    /\ Unknown(c)
    /\ connected' = connected \cup {c}
    /\ UNCHANGED <<waiting, taken, lost>>

Crash ==
    /\ lost' = lost \cup waiting \cup taken
    /\ waiting' = {} /\ taken' = {}
    /\ UNCHANGED connected

Next ==
    \/ \E c \in Call : Ask(c) \/ Take(c) \/ Connect(c) \/ Lose(c) \/ Bypass(c)
    \/ Crash

Spec == Init /\ [][Next]_vars

=============================================================================

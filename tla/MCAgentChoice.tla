--------------------------- MODULE MCAgentChoice ---------------------------
(* Small instances of AgentChoice for TLC. *)
EXTENDS AgentChoice

MCNoGarbage == {}
\* Below and above the limit the two counting rules start from.
MCGarbage == {0, 1000000}

============================================================================

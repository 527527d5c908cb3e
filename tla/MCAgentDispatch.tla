-------------------------- MODULE MCAgentDispatch --------------------------
(* Small instances of AgentDispatch for TLC. *)
EXTENDS AgentDispatch, TLC

\* DN 3 is not in the route table: it cannot sign in, but it can be dialled.
MCRoute == [d \in DN |-> IF d = 3 THEN NoCompany ELSE "c1"]
MCCallCompany == [c \in Call |-> "c1"]
MCStamp == [c \in Call |-> 0]

\* The server starts with every routed agent in sqlite.
MCAllRows == {[strdn |-> d, m_commpanyid |-> "c1", by |-> "ws"] : d \in DN \ {3}}

MCBest == [c \in Company |-> "best"]

\* Two companies: c1 has a rule this server does not know, c2 has none and uses
\* the rule the last call left behind.
MCMixedRules == [c \in Company |-> IF c = "c1" THEN "other" ELSE "none"]
MCMixedCompany == [c \in Call |-> IF c = "a" THEN "c1" ELSE "c2"]
MCMixedRoute == [d \in DN |-> "c2"]
MCMixedStamp == [c \in Call |-> IF c = "a" THEN 1 ELSE 0]
MCMixedRows == {[strdn |-> d, m_commpanyid |-> "c2", by |-> "ws"] : d \in DN}

MCSymmetry == Permutations(Call)

============================================================================

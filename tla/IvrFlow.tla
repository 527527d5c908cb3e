------------------------------ MODULE IvrFlow ------------------------------
(***************************************************************************)
(* The voice menus (src/IVRmanager.cpp): Initivrflow builds                *)
(* m_IVRnodetable and m_flowtable from the rows of ivr_node_flow_tbl, and  *)
(* Getnodeinfo finds the node a key leads to.                              *)
(*                                                                         *)
(* A row is [company, node, keys, plays]: keys is user_word after parsing, *)
(* a function from keys to node ids (empty when the JSON does not parse),  *)
(* and plays is "agent" when recordfile is IVR_AGNET_MSG, else "voice".    *)
(* The query has no ORDER BY: rows come in any order.                      *)
(***************************************************************************)
EXTENDS Integers, Sequences

CONSTANT Key        \* keys a caller may press

IVR_AGENT_FLOW_INDEX == 9999
IVR_ANS_DFTM == "-1"

NoKeys == [k \in {} |-> 0]
NoNode == [company |-> 0, node |-> 0, keys |-> NoKeys, plays |-> "none"]

\* The virtual node by which a call is given to an agent.
AgentNode(c) ==
    [company |-> c, node |-> IVR_AGENT_FLOW_INDEX, keys |-> NoKeys, plays |-> "agent"]

\* m[k] = v of a std::map.
Put(m, k, v) == [x \in DOMAIN m \cup {k} |-> IF x = k THEN v ELSE m[x]]

NewTable(c) == [n \in {IVR_AGENT_FLOW_INDEX} |-> AgentNode(c)]

\* Mutant: the table of a company is started anew for every row.
LoadRow_EachRow(table, rows, i) ==
    LET r == rows[i] IN Put(table, r.company, Put(NewTable(r.company), r.node, r))

\* The i-th row joins the table of its company.  A run of rows of one company makes
\* a table of its own, and the assignment drops what an earlier run has made.
LoadRow(table, rows, i) ==
    LET r == rows[i]
        soFar == IF i = 1 \/ rows[i - 1].company # r.company
                 THEN NewTable(r.company) ELSE table[r.company]
    IN Put(table, r.company, Put(soFar, r.node, r))

\* m_IVRnodetable: company -> node id -> row; made[i] is the table after i rows.
Initivrflow(rows) ==
    LET made[i \in Nat] == IF i = 0 THEN <<>> ELSE LoadRow(made[i - 1], rows, i)
    IN made[Len(rows)]

\* Mutant: "0" is followed to the node its entry names, like the other keys.
FlowNext_ZeroNotSpecial(nodes, n) ==
    LET keys == nodes[n].keys
    IN [k \in {k \in DOMAIN keys : keys[k] \in DOMAIN nodes} |-> nodes[keys[k]]]

\* m_flowtable[company_node].next: "0" leads to the virtual node whatever node its
\* entry names; another key is dropped when its node does not exist.
FlowNext(nodes, n) ==
    LET keys == nodes[n].keys
    IN [k \in {k \in DOMAIN keys : k = "0" \/ keys[k] \in DOMAIN nodes} |->
          IF k = "0" THEN nodes[IVR_AGENT_FLOW_INDEX] ELSE nodes[keys[k]]]

\* Mutant: the node id is taken from the entry of the key, not from the node found.
Getnodeinfo_EntryId(table, c, n, dtmf) ==
    IF c \notin DOMAIN table \/ n \notin DOMAIN table[c] THEN NoNode
    ELSE IF dtmf = IVR_ANS_DFTM THEN table[c][n]
    ELSE LET next == FlowNext(table[c], n)
             k == IF dtmf = "#" THEN "" ELSE dtmf
         IN IF k \in DOMAIN next THEN [next[k] EXCEPT !.node = table[c][n].keys[k]]
            ELSE NoNode

\* The node to go to, NoNode for NULL.  "#" looks up the empty key.
Getnodeinfo(table, c, n, dtmf) ==
    IF c \notin DOMAIN table \/ n \notin DOMAIN table[c] THEN NoNode
    ELSE IF dtmf = IVR_ANS_DFTM THEN table[c][n]
    ELSE LET next == FlowNext(table[c], n)
             k == IF dtmf = "#" THEN "" ELSE dtmf
         IN IF k \in DOMAIN next THEN next[k] ELSE NoNode

============================================================================

----------------------------- MODULE IvrTables -----------------------------
(***************************************************************************)
(* The life of the menu tables: rows are stored in ivr_node_flow_tbl, the  *)
(* server loads them at the start and on a reload message (Init, Reload),  *)
(* and a caller who is in a menu goes on with the tables of the moment.    *)
(***************************************************************************)
EXTENDS IvrFlow, SequencesExt

CONSTANTS
    StoredRow,      \* rows that may be stored
    MaxRows         \* bound: rows in the table

ASSUME IvrTablesAssumption == MaxRows \in Nat

VARIABLES
    rows,           \* ivr_node_flow_tbl, in the order the query returns it
    loaded,         \* history: the rows the tables were made from
    m_IVRnodetable,
    caller          \* m_companyid and m_currentnodeid of a session

tablesVars == <<rows, loaded, m_IVRnodetable, caller>>

Companies == {r.company : r \in StoredRow}

\* A session starts at node 1.
TablesInit ==
    /\ rows = <<>> /\ loaded = <<>>
    /\ m_IVRnodetable = Initivrflow(<<>>)
    /\ caller \in [company : Companies, node : {1}]

\* A row is stored; the query may return it at any place.
Store(r, i) ==
    /\ Len(rows) < MaxRows
    /\ rows' = InsertAt(rows, i, r)
    /\ UNCHANGED <<loaded, m_IVRnodetable, caller>>

Delete(i) ==
    /\ rows' = RemoveAt(rows, i)
    /\ UNCHANGED <<loaded, m_IVRnodetable, caller>>

\* Both tables are cleared and made anew; m_flowtable follows from m_IVRnodetable.
Reload ==
    /\ loaded' = rows
    /\ m_IVRnodetable' = Initivrflow(rows)
    /\ UNCHANGED <<rows, caller>>

\* DTMF: the session moves to the node found, or stays.
Press(key) ==
    LET next == Getnodeinfo(m_IVRnodetable, caller.company, caller.node, key) IN
    /\ next # NoNode
    /\ caller' = [caller EXCEPT !.node = next.node]
    /\ UNCHANGED <<rows, loaded, m_IVRnodetable>>

TablesNext ==
    \/ \E r \in StoredRow, i \in 1..(Len(rows) + 1) : Store(r, i)
    \/ \E i \in 1..Len(rows) : Delete(i)
    \/ Reload
    \/ \E key \in Key : Press(key)

TablesSpec == TablesInit /\ [][TablesNext]_tablesVars

----------------------------------------------------------------------------
(* Properties *)

PlacesOf(c) == {i \in 1..Len(loaded) : loaded[i].company = c}

\* The rows of the company follow each other.
Grouped(c) == \A i, j \in PlacesOf(c) : i..j \subseteq PlacesOf(c)

\* The tables hold what was stored: for a company whose rows follow each other,
\* every stored node and the virtual one, each with the row that came last.
LoadedAsStored ==
    \A c \in Companies :
        (PlacesOf(c) # {} /\ Grouped(c)) =>
            /\ c \in DOMAIN m_IVRnodetable
            /\ LET table == m_IVRnodetable[c]
                   stored == {loaded[i].node : i \in PlacesOf(c)} IN
               /\ DOMAIN table = stored \cup {IVR_AGENT_FLOW_INDEX}
               /\ \A i \in PlacesOf(c) :
                     (\A j \in PlacesOf(c) : j > i => loaded[j].node # loaded[i].node) =>
                        table[loaded[i].node] = loaded[i]

\* A key never leads out of the tables: the node found is a node of the caller's
\* company that the next key is looked up from, also after a reload.
KeysStayInMenu ==
    \A c \in DOMAIN m_IVRnodetable : \A n \in DOMAIN m_IVRnodetable[c], key \in Key :
        LET next == Getnodeinfo(m_IVRnodetable, c, n, key) IN
        next # NoNode =>
            /\ next.company = c
            /\ Getnodeinfo(m_IVRnodetable, c, next.node, IVR_ANS_DFTM) = next

\* Where "0" is offered it leads to an agent, whatever node its entry names, unless
\* the company has stored a node with the number of the virtual one.
ZeroReachesAgent ==
    \A c \in DOMAIN m_IVRnodetable : \A n \in DOMAIN m_IVRnodetable[c] :
        ("0" \in DOMAIN m_IVRnodetable[c][n].keys
           /\ \A i \in PlacesOf(c) : loaded[i].node # IVR_AGENT_FLOW_INDEX) =>
            Getnodeinfo(m_IVRnodetable, c, n, "0").plays = "agent"

============================================================================

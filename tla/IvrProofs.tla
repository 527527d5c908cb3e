------------------------------ MODULE IvrProofs ------------------------------
(***************************************************************************)
(* The voice menus and the calls in them.                                  *)
(*                                                                         *)
(* What Initivrflow makes of any rows, by induction over them; with it the *)
(* three invariants of IvrTables, for any rows and any keys.               *)
(*                                                                         *)
(* The life of the ESL handles of calls in the menus and the queue of      *)
(* calls for the agents (IvrCalls), for any set of calls, any rows and any *)
(* number of keys: no path leaks a handle, a fault of a handle needs a     *)
(* key, and a call waits once.  These are invariants per call, so each     *)
(* action is split into what it does to its own call and a frame for the   *)
(* others.                                                                 *)
(***************************************************************************)
EXTENDS IvrCalls, IvrTables, FiniteSetTheorems, SequenceTheorems,
        WellFoundedInduction, TLAPS

----------------------------------------------------------------------------
(* The menu tables *)

\* A set of numbers with 0 and with the successor of every member is all of them.
LEMMA SetInduction ==
    ASSUME NEW T \in SUBSET Nat, 0 \in T, \A n \in T : n + 1 \in T
    PROVE  T = Nat
<1> SUFFICES ASSUME T # Nat PROVE FALSE
  OBVIOUS
<1> DEFINE C == Nat \ T
           R == {ss \in Nat \X Nat : ss[1] < ss[2]}
<1>1. IsWellFoundedOn(R, Nat)
  BY NatLessThanWellFounded DEF OpToRel
<1>2. C \in SUBSET Nat /\ C # {}
  OBVIOUS
<1>3. PICK m \in C : \A k \in C : ~ (<<k, m>> \in R)
  <2> HIDE DEF R, C
  <2> QED
    BY <1>1, <1>2, WFMin
<1>4. m \in Nat /\ m # 0 /\ m - 1 \in Nat /\ m - 1 < m
  BY <1>3
<1>5. m - 1 \notin C
  BY <1>3, <1>4
<1>6. m - 1 \in T /\ m - 1 + 1 = m
  BY <1>4, <1>5
<1> QED
  BY <1>3, <1>6

\* Initivrflow takes the rows one by one.
LEMMA TableEquation ==
    ASSUME NEW T
    PROVE  \E made : /\ made[0] = <<>>
                     /\ \A i \in Nat \ {0} : made[i] = LoadRow(made[i - 1], T, i)
                     /\ Initivrflow(T) = made[Len(T)]
<1> DEFINE Approx(n, g) == /\ g[0] = <<>>
                           /\ \A i \in 1..n : g[i] = LoadRow(g[i - 1], T, i)
           N == {n \in Nat : \E g : Approx(n, g)}
           G(n) == CHOOSE g : Approx(n, g)
           f == [n \in Nat |-> G(n)[n]]
<1>1. N = Nat
  <2>1. 0 \in N
    <3>1. Approx(0, [i \in {0} |-> <<>>])
      OBVIOUS
    <3> QED
      BY <3>1
  <2>2. ASSUME NEW n \in N PROVE n + 1 \in N
    <3>1. PICK g : Approx(n, g)
      OBVIOUS
    <3> DEFINE h == [i \in 0..n + 1 |-> IF i <= n THEN g[i] ELSE LoadRow(g[n], T, n + 1)]
    <3>2. n \in Nat
      OBVIOUS
    <3>3. h[0] = <<>>
      BY <3>1, <3>2
    <3>4. ASSUME NEW i \in 1..n + 1 PROVE h[i] = LoadRow(h[i - 1], T, i)
      <4>1. CASE i <= n
        <5>1. i \in 1..n /\ i - 1 <= n /\ i \in 0..n + 1 /\ i - 1 \in 0..n + 1
          BY <3>2, <4>1
        <5>2. g[i] = LoadRow(g[i - 1], T, i)
          BY <3>1, <5>1
        <5> QED
          BY <4>1, <5>1, <5>2
      <4>2. CASE ~(i <= n)
        <5>1. i = n + 1 /\ i - 1 = n /\ i \in 0..n + 1 /\ i - 1 \in 0..n + 1 /\ n <= n
          BY <3>2, <4>2
        <5> QED
          BY <4>2, <5>1
      <4> QED
        BY <4>1, <4>2
    <3>5. Approx(n + 1, h)
      BY <3>3, <3>4
    <3> HIDE DEF h
    <3> QED
      BY <3>2, <3>5
  <2> HIDE DEF N
  <2>3. N \in SUBSET Nat
    BY DEF N
  <2> QED
    BY <2>1, <2>2, <2>3, SetInduction
<1>2. ASSUME NEW n \in Nat, NEW g, NEW h, Approx(n, g), Approx(n, h)
      PROVE  g[n] = h[n]
  <2> DEFINE U == {i \in Nat : i <= n => g[i] = h[i]}
  <2>1. 0 \in U
    BY <1>2
  <2>2. ASSUME NEW i \in U PROVE i + 1 \in U
    <3> SUFFICES ASSUME i + 1 <= n PROVE g[i + 1] = h[i + 1]
      BY <2>2
    <3>1. i \in Nat /\ i + 1 \in 1..n /\ i + 1 - 1 = i /\ i <= n
      BY <1>2
    <3>2. g[i] = h[i]
      BY <3>1
    <3>3. g[i + 1] = LoadRow(g[i], T, i + 1) /\ h[i + 1] = LoadRow(h[i], T, i + 1)
      BY <1>2, <3>1
    <3> QED
      BY <3>2, <3>3
  <2>3. U = Nat
    <3>1. U \in SUBSET Nat
      OBVIOUS
    <3> HIDE DEF U
    <3> QED
      BY <2>1, <2>2, <3>1, SetInduction
  <2> QED
    BY <1>2, <2>3
<1>3. \A n \in Nat : Approx(n, G(n))
  <2> SUFFICES ASSUME NEW n \in Nat PROVE Approx(n, G(n))
    OBVIOUS
  <2>1. \E g : Approx(n, g)
    BY <1>1
  <2> HIDE DEF Approx
  <2> QED
    BY <2>1
<1>4. f[0] = <<>>
  BY <1>3
<1>5. ASSUME NEW i \in Nat, i # 0 PROVE f[i] = LoadRow(f[i - 1], T, i)
  <2>1. i - 1 \in Nat /\ i \in 1..i /\ \A j \in 1..i - 1 : j \in 1..i
    BY <1>5
  <2>2. Approx(i, G(i)) /\ Approx(i - 1, G(i - 1))
    BY <1>3, <2>1
  <2>3. Approx(i - 1, G(i))
    BY <2>1, <2>2
  <2>4. G(i)[i - 1] = G(i - 1)[i - 1]
    <3> HIDE DEF Approx, G
    <3> QED
      BY <1>2, <2>1, <2>2, <2>3
  <2>5. G(i)[i] = LoadRow(G(i)[i - 1], T, i)
    BY <2>1, <2>2
  <2> HIDE DEF G
  <2> QED
    BY <2>1, <2>4, <2>5
<1>6. f = [i \in Nat |-> IF i = 0 THEN <<>> ELSE LoadRow(f[i - 1], T, i)]
  <2>1. f = [i \in Nat |-> f[i]]
    OBVIOUS
  <2> HIDE DEF f
  <2>2. \A i \in Nat : f[i] = IF i = 0 THEN <<>> ELSE LoadRow(f[i - 1], T, i)
    BY <1>4, <1>5
  <2> QED
    BY <2>1, <2>2
<1> HIDE DEF f
<1>7. PICK made : /\ made = [i \in Nat |-> IF i = 0 THEN <<>>
                                           ELSE LoadRow(made[i - 1], T, i)]
                  /\ Initivrflow(T) = made[Len(T)]
  BY <1>6, Zenon DEF Initivrflow
<1>8. \A i \in Nat : made[i] = IF i = 0 THEN <<>> ELSE LoadRow(made[i - 1], T, i)
  BY <1>7
<1> QED
  BY <1>7, <1>8

\* The rows of a company among the first i, and whether one of them came last for its
\* node.
Places(T, i, c) == {j \in 1..i : T[j].company = c}
CameLast(T, i, c, j) == \A k \in Places(T, i, c) : k > j => T[k].node # T[j].node

\* The nodes of a company stand under their own ids with the virtual one among them,
\* which is the one Initivrflow makes unless a row has its number.
NodesSound(nodes, T, i, c) ==
    /\ IVR_AGENT_FLOW_INDEX \in DOMAIN nodes
    /\ \A n \in DOMAIN nodes : nodes[n].node = n /\ nodes[n].company = c
    /\ \/ nodes[IVR_AGENT_FLOW_INDEX] = AgentNode(c)
       \/ \E j \in Places(T, i, c) : T[j].node = IVR_AGENT_FLOW_INDEX

\* The nodes are those stored for the company, each with the row that came last.
NodesStored(nodes, T, i, c) ==
    /\ DOMAIN nodes = {T[j].node : j \in Places(T, i, c)} \cup {IVR_AGENT_FLOW_INDEX}
    /\ \A j \in Places(T, i, c) : CameLast(T, i, c, j) => nodes[T[j].node] = T[j]

\* The table after i rows.
TableSound(table, T, i) == \A c \in DOMAIN table : NodesSound(table[c], T, i, c)

\* The rows of the company follow each other.
Together(T, c) == \A i, j \in Places(T, Len(T), c) : i..j \subseteq Places(T, Len(T), c)

TableStored(table, T, i) ==
    \A c : (Places(T, i, c) # {} /\ Together(T, c)) =>
              c \in DOMAIN table /\ NodesStored(table[c], T, i, c)

\* A row that joins the nodes of its company takes its place among them.
LEMMA RowJoins ==
    ASSUME NEW T, NEW i \in Nat, NEW nodes
    PROVE  LET r == T[i + 1]
               more == Put(nodes, r.node, r)
           IN /\ NodesSound(nodes, T, i, r.company) => NodesSound(more, T, i + 1, r.company)
              /\ NodesStored(nodes, T, i, r.company) => NodesStored(more, T, i + 1, r.company)
<1> DEFINE r == T[i + 1]
           c == r.company
           more == Put(nodes, r.node, r)
<1>1. Places(T, i + 1, c) = Places(T, i, c) \cup {i + 1}
  BY DEF Places
<1>2. \A j \in Places(T, i, c) : j \in Nat /\ j <= i /\ i + 1 > j
  BY DEF Places
<1>3. /\ DOMAIN more = DOMAIN nodes \cup {r.node}
      /\ \A n \in DOMAIN more : more[n] = IF n = r.node THEN r ELSE nodes[n]
  BY DEF Put
<1>4. ASSUME NodesSound(nodes, T, i, c) PROVE NodesSound(more, T, i + 1, c)
  <2>1. IVR_AGENT_FLOW_INDEX \in DOMAIN more
    BY <1>3, <1>4 DEF NodesSound
  <2>2. ASSUME NEW n \in DOMAIN more PROVE more[n].node = n /\ more[n].company = c
    <3>1. CASE n = r.node
      BY <1>3, <3>1
    <3>2. CASE n # r.node
      BY <1>3, <1>4, <3>2 DEF NodesSound
    <3> QED
      BY <3>1, <3>2
  <2>3. CASE r.node = IVR_AGENT_FLOW_INDEX
    <3>1. \E j \in Places(T, i + 1, c) : T[j].node = IVR_AGENT_FLOW_INDEX
      BY <1>1, <2>3
    <3> QED
      BY <2>1, <2>2, <3>1 DEF NodesSound
  <2>4. CASE r.node # IVR_AGENT_FLOW_INDEX
    <3>1. more[IVR_AGENT_FLOW_INDEX] = nodes[IVR_AGENT_FLOW_INDEX]
      BY <1>3, <2>1, <2>4
    <3> HIDE DEF more
    <3> QED
      BY <1>1, <1>4, <2>1, <2>2, <3>1 DEF NodesSound
  <2> QED
    BY <2>3, <2>4
<1>5. ASSUME NodesStored(nodes, T, i, c) PROVE NodesStored(more, T, i + 1, c)
  <2>1. DOMAIN more = {T[j].node : j \in Places(T, i + 1, c)} \cup {IVR_AGENT_FLOW_INDEX}
    BY <1>1, <1>3, <1>5 DEF NodesStored
  <2>2. ASSUME NEW j \in Places(T, i + 1, c), CameLast(T, i + 1, c, j)
        PROVE  more[T[j].node] = T[j]
    <3>1. CASE j = i + 1
      BY <1>3, <3>1
    <3>2. CASE j # i + 1
      <4>1. j \in Places(T, i, c)
        BY <1>1, <3>2
      <4>2. CameLast(T, i, c, j)
        BY <1>1, <2>2 DEF CameLast
      <4>3. T[j].node # r.node
        BY <1>1, <1>2, <2>2, <4>1 DEF CameLast
      <4>4. nodes[T[j].node] = T[j] /\ T[j].node \in DOMAIN nodes
        BY <1>5, <4>1, <4>2 DEF NodesStored
      <4> QED
        BY <1>3, <4>3, <4>4
    <3> QED
      BY <3>1, <3>2
  <2> HIDE DEF more
  <2> QED
    BY <2>1, <2>2 DEF NodesStored
<1> QED
  BY <1>4, <1>5

\* A row of another company leaves the nodes of a company as they are.
LEMMA RowAside ==
    ASSUME NEW T, NEW i \in Nat, NEW nodes, NEW c, T[i + 1].company # c
    PROVE  /\ Places(T, i + 1, c) = Places(T, i, c)
           /\ NodesSound(nodes, T, i, c) => NodesSound(nodes, T, i + 1, c)
           /\ NodesStored(nodes, T, i, c) => NodesStored(nodes, T, i + 1, c)
<1>1. Places(T, i + 1, c) = Places(T, i, c)
  BY DEF Places
<1> QED
  BY <1>1 DEF NodesSound, NodesStored, CameLast

\* The table a company starts with.
LEMMA NewTableFacts ==
    ASSUME NEW T, NEW i, NEW c
    PROVE  /\ NodesSound(NewTable(c), T, i, c)
           /\ Places(T, i, c) = {} => NodesStored(NewTable(c), T, i, c)
<1>1. NodesSound(NewTable(c), T, i, c)
  BY DEF NewTable, AgentNode, NodesSound
<1>2. ASSUME Places(T, i, c) = {} PROVE NodesStored(NewTable(c), T, i, c)
  BY <1>2 DEF NewTable, NodesStored
<1> QED
  BY <1>1, <1>2

\* One row more keeps what the table says of the rows before it.
LEMMA RowLoads ==
    ASSUME NEW T, Len(T) \in Nat, NEW i \in Nat, i + 1 <= Len(T), NEW table,
           TableSound(table, T, i), TableStored(table, T, i),
           i # 0 => T[i].company \in DOMAIN table
    PROVE  /\ TableSound(LoadRow(table, T, i + 1), T, i + 1)
           /\ TableStored(LoadRow(table, T, i + 1), T, i + 1)
           /\ T[i + 1].company \in DOMAIN LoadRow(table, T, i + 1)
<1> DEFINE r == T[i + 1]
           soFar == IF i + 1 = 1 \/ T[i].company # r.company
                    THEN NewTable(r.company) ELSE table[r.company]
           joined == Put(soFar, r.node, r)
           more == Put(table, r.company, joined)
<1>1. LoadRow(table, T, i + 1) = more
  BY DEF LoadRow
<1>2. /\ DOMAIN more = DOMAIN table \cup {r.company}
      /\ \A c \in DOMAIN more : more[c] = IF c = r.company THEN joined ELSE table[c]
  BY DEF Put
<1>3. NodesSound(soFar, T, i, r.company)
  <2>1. CASE i + 1 = 1 \/ T[i].company # r.company
    BY <2>1, NewTableFacts
  <2>2. CASE ~(i + 1 = 1 \/ T[i].company # r.company)
    BY <2>2 DEF TableSound
  <2> QED
    BY <2>1, <2>2
<1>4. ASSUME Together(T, r.company) PROVE NodesStored(soFar, T, i, r.company)
  <2>1. CASE i + 1 = 1 \/ T[i].company # r.company
    <3>1. Places(T, i, r.company) = {}
      <4> SUFFICES ASSUME NEW j \in Places(T, i, r.company) PROVE FALSE
        OBVIOUS
      <4>1. j \in 1..i /\ i \in j..i + 1 /\ i # 0
        BY DEF Places
      <4>2. j \in Places(T, Len(T), r.company) /\ i + 1 \in Places(T, Len(T), r.company)
        BY <4>1 DEF Places
      <4>3. i \in Places(T, Len(T), r.company)
        BY <1>4, <4>1, <4>2 DEF Together
      <4> QED
        BY <2>1, <4>1, <4>3 DEF Places
    <3> QED
      BY <2>1, <3>1, NewTableFacts
  <2>2. CASE ~(i + 1 = 1 \/ T[i].company # r.company)
    <3>1. i \in Places(T, i, r.company)
      BY <2>2 DEF Places
    <3> QED
      BY <1>4, <2>2, <3>1 DEF TableStored
  <2> QED
    BY <2>1, <2>2
<1> HIDE DEF soFar
<1>5. /\ NodesSound(joined, T, i + 1, r.company)
      /\ Together(T, r.company) => NodesStored(joined, T, i + 1, r.company)
  BY <1>3, <1>4, RowJoins
<1> HIDE DEF joined, more
<1>6. ASSUME NEW c \in DOMAIN more PROVE NodesSound(more[c], T, i + 1, c)
  <2>1. CASE c = r.company
    BY <1>2, <1>5, <2>1
  <2>2. CASE c # r.company
    <3>1. more[c] = table[c] /\ NodesSound(table[c], T, i, c)
      BY <1>2, <2>2 DEF TableSound
    <3> QED
      BY <2>2, <3>1, RowAside
  <2> QED
    BY <2>1, <2>2
<1>7. ASSUME NEW c, Places(T, i + 1, c) # {}, Together(T, c)
      PROVE  c \in DOMAIN more /\ NodesStored(more[c], T, i + 1, c)
  <2>1. CASE c = r.company
    BY <1>2, <1>5, <1>7, <2>1
  <2>2. CASE c # r.company
    <3>1. Places(T, i, c) # {}
      BY <1>7, <2>2, RowAside
    <3>2. c \in DOMAIN table /\ NodesStored(table[c], T, i, c)
      BY <1>7, <3>1 DEF TableStored
    <3>3. c \in DOMAIN more /\ more[c] = table[c]
      BY <1>2, <2>2, <3>2
    <3> QED
      BY <2>2, <3>2, <3>3, RowAside
  <2> QED
    BY <2>1, <2>2
<1>8. r.company \in DOMAIN more
  BY <1>2
<1> QED
  BY <1>1, <1>6, <1>7, <1>8 DEF TableSound, TableStored

\* What Initivrflow makes of any rows: under every company its own nodes, each under its
\* own id, and for a company whose rows follow each other all the nodes stored.
THEOREM TableBuilt ==
    ASSUME NEW T, Len(T) \in Nat
    PROVE  /\ TableSound(Initivrflow(T), T, Len(T))
           /\ TableStored(Initivrflow(T), T, Len(T))
<1>1. PICK made : /\ made[0] = <<>>
                  /\ \A i \in Nat \ {0} : made[i] = LoadRow(made[i - 1], T, i)
                  /\ Initivrflow(T) = made[Len(T)]
  BY TableEquation
<1> DEFINE Good(i) == /\ TableSound(made[i], T, i) /\ TableStored(made[i], T, i)
                      /\ i # 0 => T[i].company \in DOMAIN made[i]
           N == {i \in Nat : i <= Len(T) => Good(i)}
<1>2. 0 \in N
  BY <1>1 DEF TableSound, TableStored, Places
<1>3. ASSUME NEW i \in N PROVE i + 1 \in N
  <2> SUFFICES ASSUME i + 1 <= Len(T) PROVE Good(i + 1)
    OBVIOUS
  <2>1. i \in Nat /\ i + 1 \in Nat \ {0} /\ i + 1 - 1 = i /\ Good(i)
    OBVIOUS
  <2>2. made[i + 1] = LoadRow(made[i], T, i + 1)
    BY <1>1, <2>1
  <2> QED
    BY <2>1, <2>2, RowLoads
<1>4. N = Nat
  <2>1. N \in SUBSET Nat
    OBVIOUS
  <2> HIDE DEF N
  <2> QED
    BY <1>2, <1>3, <2>1, SetInduction
<1>5. Good(Len(T))
  BY <1>4
<1> QED
  BY <1>1, <1>5

\* In the table of the calls every company has the virtual node, and a node is found
\* under its own id.
LEMMA TableFacts ==
    \A co \in DOMAIN Table :
        /\ IVR_AGENT_FLOW_INDEX \in DOMAIN Table[co]
        /\ \A n \in DOMAIN Table[co] : Table[co][n].node = n
  BY TableBuilt, IvrCallsAssumption DEF Table, TableSound, NodesSound

----------------------------------------------------------------------------
(* The inductive invariant *)

NodeId == {0, 1} \cup UNION {DOMAIN Table[co] : co \in DOMAIN Table}
Pointer == {"none", "set", "NULL"}
Session == [call : Call, m_handle : {"own", "inbound"}, newhandle : Pointer]

\* The types of what the three properties speak of.
CallTypes ==
    /\ at \in [Call -> {"new", "attached", "inserted", "started", "done"}]
    /\ handle \in [Call -> {"none", "live", "freed"}]
    /\ frees \in [Call -> Nat]
    /\ m_ivrmap \in [Call -> [node : NodeId, newhandle : Pointer]]
    /\ queue \in Seq(Session)
    /\ acd \in Session \cup {Idle}

InQueue(c) == \E i \in 1..Len(queue) : queue[i].call = c
Offered(c) == acd # Idle /\ acd.call = c
Waits(c) == InQueue(c) \/ Offered(c)

\* One session of the call waits, at most.
Sole(c) ==
    /\ \A i, j \in 1..Len(queue) : queue[i].call = c /\ queue[j].call = c => i = j
    /\ Offered(c) => ~InQueue(c)

\* A session that waits will have the handle of the call deleted.
WillDelete(c) ==
    \/ \E i \in 1..Len(queue) : queue[i].call = c /\ queue[i].newhandle = "set"
    \/ Offered(c) /\ acd.newhandle = "set"

\* The handle of a call whose thread has ended is left to the acd thread, or deleted.
Owned(c) == at[c] = "done" /\ handle[c] # "freed" => WillDelete(c)

\* Without a key the call is queued by its own thread only, as its last step, with a
\* handle nobody has deleted.
Unkeyed(c) ==
    /\ frees[c] <= 1 /\ c \notin usedFreed
    /\ Sole(c)
    /\ at[c] # "done" \/ Waits(c) => frees[c] = 0 /\ handle[c] # "freed"
    /\ at[c] # "done" => ~Waits(c)

\* What the node a session has reached plays.
PlaysAt(c, n) == Getnodeinfo(Table, CompanyOf[c], n, IVR_ANS_DFTM).plays

\* A session that waits has reached a node for the agents, from which no key leads
\* on; a thread that may still queue its call finds the session at the start node.
Once(c) ==
    /\ Sole(c)
    /\ Waits(c) => PlaysAt(c, m_ivrmap[c].node) = "agent"
    /\ at[c] \in {"new", "attached"} => m_ivrmap[c] = NoSession /\ ~Waits(c)
    /\ at[c] = "inserted" => m_ivrmap[c].node = 1 /\ ~Waits(c)
    /\ at[c] = "started" /\ PlaysAt(c, 1) = "agent" => m_ivrmap[c].node = 1 /\ ~Waits(c)

CallInv(c) ==
    /\ c \in Inbound => Owned(c)
    /\ c \in Inbound /\ c \notin byKey => Unkeyed(c)
    /\ c \notin raced /\ AgentNodesEnd(c) => Once(c)

IvrInv == CallTypes /\ \A c \in Call : CallInv(c)

----------------------------------------------------------------------------
(* The queue *)

\* What is left of a queue without its i-th element.
LEMMA RemoveAtFacts ==
    ASSUME NEW S, NEW s \in Seq(S), NEW i \in 1..Len(s)
    PROVE  /\ RemoveAt(s, i) \in Seq(S)
           /\ Len(RemoveAt(s, i)) = Len(s) - 1
           /\ \A j \in 1..Len(s) - 1 : RemoveAt(s, i)[j] = IF j < i THEN s[j] ELSE s[j + 1]
<1> DEFINE a == SubSeq(s, 1, i - 1)
           b == SubSeq(s, i + 1, Len(s))
<1>1. Len(s) \in Nat /\ i \in Nat /\ i >= 1 /\ i <= Len(s)
  OBVIOUS
<1>2. a \in Seq(S) /\ Len(a) = i - 1 /\ \A j \in 1..i - 1 : a[j] = s[j]
  BY <1>1
<1>3. b \in Seq(S) /\ Len(b) = Len(s) - i /\ \A j \in 1..Len(s) - i : b[j] = s[i + j]
  BY <1>1
<1>4. RemoveAt(s, i) = a \o b
  BY DEF RemoveAt
<1> HIDE DEF a, b
<1>5. /\ a \o b \in Seq(S) /\ Len(a \o b) = Len(a) + Len(b)
      /\ \A j \in 1..Len(a) + Len(b) :
            (a \o b)[j] = IF j <= Len(a) THEN a[j] ELSE b[j - Len(a)]
  BY <1>2, <1>3, ConcatProperties
<1>6. Len(a) + Len(b) = Len(s) - 1
  BY <1>1, <1>2, <1>3
<1>7. ASSUME NEW j \in 1..Len(s) - 1 PROVE (a \o b)[j] = IF j < i THEN s[j] ELSE s[j + 1]
  <2>1. (a \o b)[j] = IF j <= Len(a) THEN a[j] ELSE b[j - Len(a)]
    BY <1>5, <1>6
  <2>2. CASE j < i
    <3>1. j <= Len(a) /\ j \in 1..i - 1
      BY <1>1, <1>2, <2>2
    <3> QED
      BY <1>2, <2>1, <2>2, <3>1
  <2>3. CASE ~(j < i)
    <3>1. ~(j <= Len(a)) /\ j - Len(a) \in 1..Len(s) - i /\ i + (j - Len(a)) = j + 1
      BY <1>1, <1>2, <2>3
    <3> QED
      BY <1>3, <2>1, <2>3, <3>1
  <2> QED
    BY <2>2, <2>3
<1> QED
  BY <1>4, <1>5, <1>6, <1>7

\* A session put at the end of the queue is one more of its call and none of others.
LEMMA Appended ==
    ASSUME CallTypes, NEW e \in Session, queue' = Append(queue, e), acd' = acd, NEW c \in Call
    PROVE  /\ c # e.call => /\ Waits(c)' <=> Waits(c)
                            /\ Sole(c) => Sole(c)'
                            /\ WillDelete(c)' <=> WillDelete(c)
           /\ c = e.call => /\ ~Waits(c) => Sole(c)'
                            /\ Waits(c)'
                            /\ WillDelete(c) \/ e.newhandle = "set" => WillDelete(c)'
<1>1. queue \in Seq(Session) /\ Len(queue) \in Nat
  BY DEF CallTypes
<1>2. /\ Len(queue') = Len(queue) + 1 /\ queue'[Len(queue) + 1] = e
      /\ \A i \in 1..Len(queue) : queue'[i] = queue[i]
  BY <1>1
<1>3. /\ \A i \in 1..Len(queue') : i \in 1..Len(queue) \/ i = Len(queue) + 1
      /\ \A i \in 1..Len(queue) : i \in 1..Len(queue')
      /\ Len(queue) + 1 \in 1..Len(queue')
  BY <1>1, <1>2
<1>4. Offered(c)' <=> Offered(c)
  BY DEF Offered
<1>5. ASSUME c # e.call
      PROVE  /\ Waits(c)' <=> Waits(c)
             /\ Sole(c) => Sole(c)'
             /\ WillDelete(c)' <=> WillDelete(c)
  <2>1. InQueue(c)' <=> InQueue(c)
    BY <1>2, <1>3, <1>5 DEF InQueue
  <2>2. Waits(c)' <=> Waits(c)
    BY <1>4, <2>1 DEF Waits
  <2>3. Sole(c) => Sole(c)'
    BY <1>2, <1>3, <1>4, <1>5, <2>1 DEF Sole
  <2>4. WillDelete(c)' <=> WillDelete(c)
    BY <1>2, <1>3, <1>4, <1>5 DEF WillDelete
  <2> QED
    BY <2>2, <2>3, <2>4
<1>6. ASSUME c = e.call
      PROVE  /\ ~Waits(c) => Sole(c)'
             /\ Waits(c)'
             /\ WillDelete(c) \/ e.newhandle = "set" => WillDelete(c)'
  <2>1. InQueue(c)'
    BY <1>2, <1>3, <1>6 DEF InQueue
  <2>2. ASSUME ~Waits(c) PROVE Sole(c)'
    <3>1. ~Offered(c)' /\ \A i \in 1..Len(queue) : queue[i].call # c
      BY <1>4, <2>2 DEF Waits, InQueue
    <3>2. \A i \in 1..Len(queue') : queue'[i].call = c => i = Len(queue) + 1
      BY <1>2, <1>3, <3>1
    <3> QED
      BY <3>1, <3>2 DEF Sole
  <2>3. WillDelete(c) \/ e.newhandle = "set" => WillDelete(c)'
    BY <1>2, <1>3, <1>4, <1>6 DEF WillDelete
  <2> QED
    BY <2>1, <2>2, <2>3 DEF Waits
<1> QED
  BY <1>5, <1>6

\* Get moves a session from the queue to the acd thread; who waits stays the same.
LEMMA Taken ==
    ASSUME CallTypes, NEW i \in 1..Len(queue), acd = Idle, acd' = queue[i],
           queue' = RemoveAt(queue, i), NEW c \in Call
    PROVE  /\ Waits(c)' <=> Waits(c)
           /\ Sole(c) => Sole(c)'
           /\ WillDelete(c)' <=> WillDelete(c)
<1>1. /\ queue \in Seq(Session) /\ Len(queue) \in Nat /\ i \in Nat
      /\ queue[i] \in Session
  BY DEF CallTypes
<1>2. /\ Len(queue') = Len(queue) - 1
      /\ \A j \in 1..Len(queue) - 1 : queue'[j] = IF j < i THEN queue[j] ELSE queue[j + 1]
  BY <1>1, RemoveAtFacts
<1>3. queue[i] # Idle
  BY <1>1, IvrCallsAssumption DEF Session, Idle, Entry
<1>4. \A j \in 1..Len(queue') : \E k \in 1..Len(queue) : k # i /\ queue'[j] = queue[k]
  <2> SUFFICES ASSUME NEW j \in 1..Len(queue')
               PROVE  \E k \in 1..Len(queue) : k # i /\ queue'[j] = queue[k]
    OBVIOUS
  <2>1. CASE j < i
    BY <1>1, <1>2, <2>1
  <2>2. CASE j >= i
    <3>1. j + 1 \in 1..Len(queue) /\ j + 1 # i /\ queue'[j] = queue[j + 1]
      BY <1>1, <1>2, <2>2
    <3> QED
      BY <3>1
  <2> QED
    BY <1>1, <1>2, <2>1, <2>2
<1>5. \A k \in 1..Len(queue) : k # i => \E j \in 1..Len(queue') : queue'[j] = queue[k]
  <2> SUFFICES ASSUME NEW k \in 1..Len(queue), k # i
               PROVE  \E j \in 1..Len(queue') : queue'[j] = queue[k]
    OBVIOUS
  <2>1. CASE k < i
    <3>1. k \in 1..Len(queue') /\ queue'[k] = queue[k]
      BY <1>1, <1>2, <2>1
    <3> QED
      BY <3>1
  <2>2. CASE k > i
    <3>1. k - 1 \in 1..Len(queue') /\ ~(k - 1 < i) /\ k - 1 + 1 = k
      BY <1>1, <1>2, <2>2
    <3>2. queue'[k - 1] = queue[k]
      BY <1>2, <3>1
    <3> QED
      BY <3>1, <3>2
  <2> QED
    BY <1>1, <2>1, <2>2
<1>6. Offered(c)' <=> queue[i].call = c
  BY <1>3 DEF Offered
<1>7. ~Offered(c)
  BY DEF Offered
<1>8. Waits(c)' <=> Waits(c)
  <2>1. Waits(c)' <=> (queue[i].call = c \/ \E j \in 1..Len(queue') : queue'[j].call = c)
    BY <1>6 DEF Waits, InQueue
  <2>2. Waits(c) <=> \E k \in 1..Len(queue) : queue[k].call = c
    BY <1>7 DEF Waits, InQueue
  <2>3. ASSUME NEW k \in 1..Len(queue), queue[k].call = c
        PROVE  queue[i].call = c \/ \E j \in 1..Len(queue') : queue'[j].call = c
    BY <1>5, <2>3
  <2>4. ASSUME NEW j \in 1..Len(queue'), queue'[j].call = c
        PROVE  \E k \in 1..Len(queue) : queue[k].call = c
    BY <1>4, <2>4
  <2> QED
    BY <2>1, <2>2, <2>3, <2>4
<1>9. WillDelete(c)' <=> WillDelete(c)
  <2> DEFINE D(e) == e.call = c /\ e.newhandle = "set"
  <2>1. WillDelete(c)' <=> (D(queue[i]) \/ \E j \in 1..Len(queue') : D(queue'[j]))
    BY <1>6 DEF WillDelete
  <2>2. WillDelete(c) <=> \E k \in 1..Len(queue) : D(queue[k])
    BY <1>7 DEF WillDelete
  <2>3. ASSUME NEW k \in 1..Len(queue), D(queue[k])
        PROVE  D(queue[i]) \/ \E j \in 1..Len(queue') : D(queue'[j])
    BY <1>5, <2>3
  <2>4. ASSUME NEW j \in 1..Len(queue'), D(queue'[j])
        PROVE  \E k \in 1..Len(queue) : D(queue[k])
    BY <1>4, <2>4
  <2> QED
    BY <2>1, <2>2, <2>3, <2>4
<1>10. ASSUME Sole(c) PROVE Sole(c)'
  <2>1. ASSUME NEW j \in 1..Len(queue'), NEW k \in 1..Len(queue'), j < k,
               queue'[j].call = c, queue'[k].call = c
        PROVE  FALSE
    <3>1. PICK m \in 1..Len(queue), n \in 1..Len(queue) :
             m < n /\ queue'[j] = queue[m] /\ queue'[k] = queue[n]
      <4>1. CASE k < i
        <5>1. j \in 1..Len(queue) /\ k \in 1..Len(queue) /\ j < i
              /\ queue'[j] = queue[j] /\ queue'[k] = queue[k]
          BY <1>1, <1>2, <2>1, <4>1
        <5> QED
          BY <2>1, <5>1
      <4>2. CASE k >= i /\ j < i
        <5>1. j \in 1..Len(queue) /\ k + 1 \in 1..Len(queue) /\ j < k + 1
              /\ queue'[j] = queue[j] /\ queue'[k] = queue[k + 1]
          BY <1>1, <1>2, <2>1, <4>2
        <5> QED
          BY <5>1
      <4>3. CASE j >= i
        <5>1. j + 1 \in 1..Len(queue) /\ k + 1 \in 1..Len(queue) /\ j + 1 < k + 1
              /\ queue'[j] = queue[j + 1] /\ queue'[k] = queue[k + 1]
          BY <1>1, <1>2, <2>1, <4>3
        <5> QED
          BY <5>1
      <4> QED
        BY <1>1, <1>2, <4>1, <4>2, <4>3
    <3> QED
      BY <1>10, <2>1, <3>1 DEF Sole
  <2>2. \A j, k \in 1..Len(queue') : queue'[j].call = c /\ queue'[k].call = c => j = k
    <3>1. \A j, k \in 1..Len(queue') : j < k \/ k < j \/ j = k
      BY <1>1, <1>2
    <3> QED
      BY <2>1, <3>1
  <2>3. Offered(c)' => ~InQueue(c)'
    BY <1>4, <1>6, <1>10 DEF Sole, InQueue
  <2> QED
    BY <2>2, <2>3 DEF Sole
<1> QED
  BY <1>8, <1>9, <1>10

\* The acd thread is done with a session: a call that waited once waits no more.
LEMMA Dropped ==
    ASSUME CallTypes, acd # Idle, acd' = Idle, queue' = queue, NEW c \in Call
    PROVE  /\ c # acd.call => /\ Waits(c)' <=> Waits(c)
                              /\ WillDelete(c)' <=> WillDelete(c)
           /\ Sole(c) => Sole(c)'
           /\ c = acd.call => /\ Sole(c) => ~Waits(c)'
                              /\ Waits(c)
                              /\ (WillDelete(c) /\ acd.newhandle # "set") => WillDelete(c)'
  BY DEF Waits, Sole, WillDelete, InQueue, Offered

\* Steps that leave the queue and the acd thread alone.
LEMMA QueueKept ==
    ASSUME UNCHANGED <<queue, acd>>, NEW c
    PROVE  /\ Waits(c)' <=> Waits(c)
           /\ Sole(c)' <=> Sole(c)
           /\ WillDelete(c)' <=> WillDelete(c)
  BY DEF Waits, Sole, WillDelete, InQueue, Offered

\* What holds of a call survives a step that concerns other calls.
LEMMA CallFrame ==
    ASSUME NEW c \in Call, CallInv(c),
           at'[c] = at[c], handle'[c] = handle[c], frees'[c] = frees[c],
           m_ivrmap'[c] = m_ivrmap[c],
           c \in usedFreed' <=> c \in usedFreed,
           c \in byKey' <=> c \in byKey, c \in raced' <=> c \in raced,
           Waits(c)' <=> Waits(c), Sole(c) => Sole(c)', WillDelete(c)' <=> WillDelete(c)
    PROVE  CallInv(c)'
<1>1. c \in Inbound => Owned(c)'
  BY DEF CallInv, Owned
<1>2. c \in Inbound /\ c \notin byKey' => Unkeyed(c)'
  BY DEF CallInv, Unkeyed
<1>3. c \notin raced' /\ AgentNodesEnd(c) => Once(c)'
  BY DEF CallInv, Once
<1> QED
  BY <1>1, <1>2, <1>3 DEF CallInv

----------------------------------------------------------------------------
(* The menus *)

\* Getnodeinfo finds one of the company's nodes.
LEMMA FoundInTable ==
    ASSUME NEW table, NEW c, NEW n, NEW key, Getnodeinfo(table, c, n, key) # NoNode,
           c \in DOMAIN table => IVR_AGENT_FLOW_INDEX \in DOMAIN table[c]
    PROVE  /\ c \in DOMAIN table /\ n \in DOMAIN table[c]
           /\ \E m \in DOMAIN table[c] : Getnodeinfo(table, c, n, key) = table[c][m]
<1> DEFINE x == Getnodeinfo(table, c, n, key)
<1>1. c \in DOMAIN table /\ n \in DOMAIN table[c]
  BY DEF Getnodeinfo
<1>2. CASE key = IVR_ANS_DFTM
  BY <1>1, <1>2 DEF Getnodeinfo
<1>3. CASE key # IVR_ANS_DFTM
  <2> DEFINE k == IF key = "#" THEN "" ELSE key
             next == FlowNext(table[c], n)
  <2>1. k \in DOMAIN next /\ x = next[k]
    BY <1>1, <1>3 DEF Getnodeinfo
  <2> HIDE DEF k, x
  <2>2. \E m \in DOMAIN table[c] : x = table[c][m]
    BY <1>1, <2>1 DEF FlowNext
  <2> QED
    BY <1>1, <2>2 DEF x
<1> QED
  BY <1>2, <1>3

\* A node Getnodeinfo finds is one of the company's table, under its own id.
LEMMA NodeFound ==
    ASSUME NEW c, NEW n, NEW key, Getnodeinfo(Table, CompanyOf[c], n, key) # NoNode
    PROVE  LET x == Getnodeinfo(Table, CompanyOf[c], n, key) IN
           x.node \in NodeId /\ PlaysAt(c, x.node) = x.plays
<1> DEFINE co == CompanyOf[c]
           x == Getnodeinfo(Table, co, n, key)
<1>1. co \in DOMAIN Table /\ \E m \in DOMAIN Table[co] : x = Table[co][m]
  BY FoundInTable, TableFacts
<1>2. PICK m \in DOMAIN Table[co] : x = Table[co][m]
  BY <1>1
<1>3. x.node = m
  BY <1>1, <1>2, TableFacts
<1>4. m \in NodeId
  BY <1>1, <1>2 DEF NodeId
<1>5. Getnodeinfo(Table, co, m, IVR_ANS_DFTM) = Table[co][m]
  BY <1>1 DEF Getnodeinfo
<1> QED
  BY <1>2, <1>3, <1>4, <1>5 DEF PlaysAt

\* No key leads on from a node for the agents, where the table keeps to that.
LEMMA NoWayOn ==
    ASSUME NEW c, AgentNodesEnd(c), NEW n, PlaysAt(c, n) = "agent", NEW key \in Key
    PROVE  Getnodeinfo(Table, CompanyOf[c], n, key) = NoNode
<1>1. n \in Node(c)
  BY DEF PlaysAt, Getnodeinfo, NoNode, Node
<1> QED
  BY <1>1 DEF AgentNodesEnd, PlaysAt

----------------------------------------------------------------------------
(* The steps *)

\* A step of one call, whatever it does to the queue for that call.
LEMMA OneCallStep ==
    ASSUME IvrInv, CallTypes', NEW c \in Call, CallInv(c)',
           \A d \in Call \ {c} :
              /\ at'[d] = at[d] /\ handle'[d] = handle[d] /\ frees'[d] = frees[d]
              /\ m_ivrmap'[d] = m_ivrmap[d]
              /\ (d \in usedFreed' <=> d \in usedFreed)
              /\ (d \in byKey' <=> d \in byKey) /\ (d \in raced' <=> d \in raced),
           \A d \in Call \ {c} :
              /\ Waits(d)' <=> Waits(d)
              /\ Sole(d) => Sole(d)'
              /\ WillDelete(d)' <=> WillDelete(d)
    PROVE  IvrInv'
<1>1. ASSUME NEW d \in Call, d # c PROVE CallInv(d)'
  <2>1. CallInv(d)
    BY DEF IvrInv
  <2> QED
    BY <1>1, <2>1, CallFrame
<1>2. \A d \in Call : CallInv(d)'
  BY <1>1
<1> QED
  BY <1>2 DEF IvrInv

\* The thread of an inbound call: the queue changes only where it transfers the call.
LEMMA CallbackStep ==
    ASSUME IvrInv, NEW c \in Call, Callback(c)
    PROVE  IvrInv'
<1>1. CallTypes /\ CallInv(c)
  BY DEF IvrInv
<1> USE DEF DeleteHandle, history
<1>2. ASSUME UNCHANGED <<queue, acd, usedFreed, byKey, raced>>
      PROVE  \A d \in Call :
                /\ Waits(d)' <=> Waits(d)
                /\ Sole(d)' <=> Sole(d)
                /\ WillDelete(d)' <=> WillDelete(d)
  BY <1>2, QueueKept
<1>3. CASE Accept(c)
  <2>1. /\ at' = [at EXCEPT ![c] = "attached"] /\ handle' = [handle EXCEPT ![c] = "live"]
        /\ UNCHANGED <<queue, acd, usedFreed, byKey, raced, frees, m_ivrmap>>
        /\ at[c] = "new"
    BY <1>3 DEF Accept
  <2>2. CallTypes' /\ at'[c] = "attached" /\ handle'[c] = "live"
    BY <1>1, <2>1 DEF CallTypes
  <2>3. CallInv(c)'
    BY <1>1, <1>2, <2>1, <2>2 DEF CallInv, Owned, Unkeyed, Once
  <2> QED
    BY <1>1, <1>2, <2>1, <2>2, <2>3, OneCallStep DEF CallTypes
<1>4. CASE AttachFails(c) \/ NoStartNode(c) \/ StartPlayback(c)
  <2>1. /\ at' = [at EXCEPT ![c] = "done"] /\ handle' = [handle EXCEPT ![c] = "freed"]
        /\ frees' = [frees EXCEPT ![c] = frees[c] + 1]
        /\ UNCHANGED <<queue, acd, usedFreed, byKey, raced, m_ivrmap>>
        /\ at[c] \in {"attached", "inserted", "started"}
    BY <1>4 DEF AttachFails, NoStartNode, StartPlayback
  <2>2. CallTypes' /\ at'[c] = "done" /\ handle'[c] = "freed" /\ frees'[c] = frees[c] + 1
    BY <1>1, <2>1 DEF CallTypes
  <2>3. CallInv(c)'
    <3>1. c \in Inbound => Owned(c)'
      BY <2>2 DEF Owned
    <3>2. c \in Inbound /\ c \notin byKey' => Unkeyed(c)'
      BY <1>1, <1>2, <2>1, <2>2 DEF CallInv, Unkeyed
    <3>3. c \notin raced' /\ AgentNodesEnd(c) => Once(c)'
      BY <1>1, <1>2, <2>1, <2>2 DEF CallInv, Once
    <3> QED
      BY <3>1, <3>2, <3>3 DEF CallInv
  <2> QED
    BY <1>1, <1>2, <2>1, <2>2, <2>3, OneCallStep DEF CallTypes
<1>5. CASE InsertSession(c)
  <2>1. /\ at' = [at EXCEPT ![c] = "inserted"]
        /\ m_ivrmap' = [m_ivrmap EXCEPT ![c] = [node |-> 1, newhandle |-> "set"]]
        /\ UNCHANGED <<queue, acd, usedFreed, byKey, raced, handle, frees>>
        /\ at[c] = "attached"
    BY <1>5 DEF InsertSession
  <2>2. CallTypes' /\ at'[c] = "inserted" /\ m_ivrmap'[c].node = 1
    BY <1>1, <2>1 DEF CallTypes, NodeId, Pointer
  <2>3. CallInv(c)'
    BY <1>1, <1>2, <2>1, <2>2 DEF CallInv, Owned, Unkeyed, Once
  <2> QED
    BY <1>1, <1>2, <2>1, <2>2, <2>3, OneCallStep DEF CallTypes
<1>6. CASE SetCurrentNode(c)
  <2>1. /\ at' = [at EXCEPT ![c] = "started"]
        /\ m_ivrmap' = [m_ivrmap EXCEPT ![c].node = StartNode(c).node]
        /\ UNCHANGED <<queue, acd, usedFreed, byKey, raced, handle, frees>>
        /\ at[c] = "inserted" /\ StartNode(c) # NoNode
    BY <1>6 DEF SetCurrentNode
  <2>2. StartNode(c).node = 1
    BY <2>1, TableFacts DEF StartNode, Getnodeinfo
  <2>3. CallTypes' /\ at'[c] = "started" /\ m_ivrmap'[c].node = 1
    BY <1>1, <2>1, <2>2 DEF CallTypes, NodeId
  <2>4. CallInv(c)'
    BY <1>1, <1>2, <2>1, <2>3 DEF CallInv, Owned, Unkeyed, Once
  <2> QED
    BY <1>1, <1>2, <2>1, <2>3, <2>4, OneCallStep DEF CallTypes
<1>7. CASE StartTransfer(c)
  <2> DEFINE e == Entry(c, "own", "set")
  <2>1. /\ at' = [at EXCEPT ![c] = "done"] /\ queue' = Append(queue, e)
        /\ UNCHANGED <<acd, usedFreed, byKey, raced, handle, frees, m_ivrmap>>
        /\ at[c] = "started" /\ StartNode(c).plays = "agent"
    BY <1>7 DEF StartTransfer
  <2>2. e \in Session /\ e.call = c /\ e.newhandle = "set"
    BY DEF Entry, Session, Pointer
  <2> HIDE DEF e
  <2>3. CallTypes' /\ at'[c] = "done"
    BY <1>1, <2>1, <2>2 DEF CallTypes
  <2>4. /\ Waits(c)' /\ WillDelete(c)' /\ (~Waits(c) => Sole(c)')
    BY <1>1, <2>1, <2>2, Appended
  <2>5. \A d \in Call \ {c} : /\ Waits(d)' <=> Waits(d)
                              /\ Sole(d) => Sole(d)'
                              /\ WillDelete(d)' <=> WillDelete(d)
    BY <1>1, <2>1, <2>2, Appended
  <2>6. PlaysAt(c, 1) = "agent"
    BY <2>1 DEF PlaysAt, StartNode
  <2>7. CallInv(c)'
    BY <1>1, <2>1, <2>3, <2>4, <2>6 DEF CallInv, Owned, Unkeyed, Once
  <2> QED
    BY <1>1, <2>1, <2>3, <2>5, <2>7, OneCallStep DEF CallTypes
<1> QED
  BY <1>3, <1>4, <1>5, <1>6, <1>7 DEF Callback

\* CHANNEL_ANSWER of a task's call.
LEMMA AnswerStep ==
    ASSUME IvrInv, NEW c \in Call, AnswerTask(c)
    PROVE  IvrInv'
<1> DEFINE e == Entry(c, "inbound", "NULL")
<1>1. CallTypes /\ CallInv(c)
  BY DEF IvrInv
<1>2. /\ at' = [at EXCEPT ![c] = "done"]
      /\ m_ivrmap' = [m_ivrmap EXCEPT ![c] = [node |-> 1, newhandle |-> "NULL"]]
      /\ UNCHANGED <<acd, usedFreed, byKey, raced, handle, frees>>
      /\ at[c] = "new" /\ c \notin Inbound
  BY IvrCallsAssumption DEF AnswerTask, history
<1>3. /\ at'[c] = "done" /\ m_ivrmap'[c].node = 1
  BY <1>1, <1>2 DEF CallTypes
<1>4. e \in Session /\ e.call = c
  BY DEF Entry, Session, Pointer
<1> HIDE DEF e
<1>5. CASE PlaysAt(c, 1) = "agent"
  <2>1. queue' = Append(queue, e)
    BY <1>5 DEF AnswerTask, PlaysAt, StartNode, e
  <2>2. CallTypes'
    BY <1>1, <1>2, <1>4, <2>1 DEF CallTypes, NodeId, Pointer
  <2>3. ~Waits(c) => Sole(c)'
    BY <1>1, <1>2, <1>4, <2>1, Appended
  <2>4. \A d \in Call \ {c} : /\ Waits(d)' <=> Waits(d)
                              /\ Sole(d) => Sole(d)'
                              /\ WillDelete(d)' <=> WillDelete(d)
    BY <1>1, <1>2, <1>4, <2>1, Appended
  <2>5. CallInv(c)'
    BY <1>1, <1>2, <1>3, <1>5, <2>3 DEF CallInv, Once
  <2> QED
    BY <1>1, <1>2, <2>2, <2>4, <2>5, OneCallStep DEF CallTypes
<1>6. CASE PlaysAt(c, 1) # "agent"
  <2>1. queue' = queue
    BY <1>6 DEF AnswerTask, PlaysAt, StartNode
  <2>2. CallTypes'
    BY <1>1, <1>2, <2>1 DEF CallTypes, NodeId, Pointer
  <2>3. \A d \in Call : /\ Waits(d)' <=> Waits(d)
                        /\ Sole(d)' <=> Sole(d)
                        /\ WillDelete(d)' <=> WillDelete(d)
    BY <1>2, <2>1, QueueKept
  <2>4. CallInv(c)'
    BY <1>1, <1>2, <1>3, <2>3 DEF CallInv, Once
  <2> QED
    BY <1>1, <1>2, <2>2, <2>3, <2>4, OneCallStep DEF CallTypes
<1> QED
  BY <1>5, <1>6

\* A key moves the session on, and queues the call where the node found is for the
\* agents: it does not lead on from a node that has queued the call.
LEMMA DtmfStep ==
    ASSUME IvrInv, NEW c \in Call, NEW key \in Key, Dtmf(c, key)
    PROVE  IvrInv'
<1> DEFINE s == m_ivrmap[c]
           next == Getnodeinfo(Table, CompanyOf[c], s.node, key)
           e == Entry(c, "inbound", s.newhandle)
<1>1. CallTypes /\ CallInv(c)
  BY DEF IvrInv
<1>2. /\ s # NoSession /\ next # NoNode
      /\ m_ivrmap' = [m_ivrmap EXCEPT ![c].node = next.node]
      /\ raced' = IF at[c] = "inserted" THEN raced \cup {c} ELSE raced
      /\ UNCHANGED <<at, acd, handle, frees, usedFreed>>
  BY DEF Dtmf
<1>3. next.node \in NodeId /\ PlaysAt(c, next.node) = next.plays
  BY <1>2, NodeFound
<1>4. e \in Session /\ e.call = c
  BY <1>1 DEF CallTypes, Entry, Session
<1>5. ASSUME c \notin raced', AgentNodesEnd(c)
      PROVE  /\ Once(c) /\ ~Waits(c) /\ at[c] \in {"started", "done"}
             /\ at[c] = "started" => PlaysAt(c, 1) # "agent"
  <2>1. Once(c) /\ at[c] # "inserted"
    BY <1>1, <1>2, <1>5 DEF CallInv
  <2>2. PlaysAt(c, s.node) # "agent"
    BY <1>2, <1>5, NoWayOn
  <2> QED
    BY <1>1, <1>2, <2>1, <2>2 DEF Once, CallTypes
<1>6. m_ivrmap'[c].node = next.node
  BY <1>1, <1>2 DEF CallTypes
<1>7. CASE next.plays = "agent"
  <2>1. queue' = Append(queue, e) /\ byKey' = byKey \cup {c}
    BY <1>7 DEF Dtmf
  <2> HIDE DEF e, next
  <2>2. CallTypes'
    <3>1. m_ivrmap' \in [Call -> [node : NodeId, newhandle : Pointer]]
      BY <1>1, <1>2, <1>3 DEF CallTypes
    <3> QED
      BY <1>1, <1>2, <1>4, <2>1, <3>1 DEF CallTypes
  <2>3. (~Waits(c) => Sole(c)') /\ (WillDelete(c) => WillDelete(c)')
    BY <1>1, <1>2, <1>4, <2>1, Appended
  <2>4. \A d \in Call \ {c} : /\ Waits(d)' <=> Waits(d)
                              /\ Sole(d) => Sole(d)'
                              /\ WillDelete(d)' <=> WillDelete(d)
    BY <1>1, <1>2, <1>4, <2>1, Appended
  <2>5. c \notin raced' /\ AgentNodesEnd(c) => Once(c)'
    BY <1>2, <1>3, <1>5, <1>6, <1>7, <2>3 DEF Once
  <2>6. CallInv(c)'
    BY <1>1, <1>2, <2>1, <2>3, <2>5 DEF CallInv, Owned
  <2> QED
    BY <1>1, <1>2, <2>1, <2>2, <2>4, <2>6, OneCallStep DEF CallTypes
<1>8. CASE next.plays # "agent"
  <2>1. UNCHANGED <<queue, byKey>>
    BY <1>8 DEF Dtmf
  <2> HIDE DEF e, next
  <2>2. CallTypes'
    <3>1. m_ivrmap' \in [Call -> [node : NodeId, newhandle : Pointer]]
      BY <1>1, <1>2, <1>3 DEF CallTypes
    <3> QED
      BY <1>1, <1>2, <2>1, <3>1 DEF CallTypes
  <2>3. \A d \in Call : /\ Waits(d)' <=> Waits(d)
                        /\ Sole(d)' <=> Sole(d)
                        /\ WillDelete(d)' <=> WillDelete(d)
    BY <1>2, <2>1, QueueKept
  <2>4. c \notin raced' /\ AgentNodesEnd(c) => Once(c)'
    BY <1>2, <1>5, <2>3 DEF Once
  <2>5. CallInv(c)'
    BY <1>1, <1>2, <2>1, <2>3, <2>4 DEF CallInv, Owned, Unkeyed
  <2> QED
    BY <1>1, <1>2, <2>1, <2>2, <2>3, <2>5, OneCallStep DEF CallTypes
<1> QED
  BY <1>7, <1>8

\* The acd thread takes a session, and later deletes the handle it names.
LEMMA AcdStep ==
    ASSUME IvrInv, AcdThread
    PROVE  IvrInv'
<1>1. CallTypes /\ \A c \in Call : CallInv(c)
  BY DEF IvrInv
<1>2. ASSUME NEW i \in 1..Len(queue), Get(i) PROVE IvrInv'
  <2>1. /\ acd = Idle /\ acd' = queue[i] /\ queue' = RemoveAt(queue, i)
        /\ UNCHANGED <<at, m_ivrmap, handle, frees, usedFreed, byKey, raced>>
    BY <1>2 DEF Get, history
  <2>2. CallTypes'
    <3>1. queue' \in Seq(Session) /\ queue[i] \in Session
      BY <1>1, <2>1, RemoveAtFacts DEF CallTypes
    <3> QED
      BY <1>1, <2>1, <3>1 DEF CallTypes
  <2>3. ASSUME NEW c \in Call PROVE CallInv(c)'
    <3>1. /\ Waits(c)' <=> Waits(c)
          /\ Sole(c) => Sole(c)'
          /\ WillDelete(c)' <=> WillDelete(c)
      BY <1>1, <2>1, Taken
    <3> QED
      BY <1>1, <2>1, <3>1, CallFrame
  <2> QED
    BY <2>2, <2>3 DEF IvrInv
<1>3. CASE TransformAgent
  <2>1. /\ acd # Idle /\ acd' = Idle /\ queue' = queue
        /\ UNCHANGED <<at, m_ivrmap, byKey, raced>>
        /\ usedFreed' = IF acd.m_handle = "own" /\ handle[acd.call] = "freed"
                        THEN usedFreed \cup {acd.call} ELSE usedFreed
    BY <1>3 DEF TransformAgent
  <2>2. PICK c \in Call : c = acd.call
    BY <1>1, <2>1 DEF CallTypes, Session
  <2>3. \/ /\ acd.newhandle = "set"
           /\ handle' = [handle EXCEPT ![c] = "freed"]
           /\ frees' = [frees EXCEPT ![c] = frees[c] + 1]
        \/ /\ acd.newhandle # "set"
           /\ UNCHANGED <<handle, frees>>
    BY <1>3, <2>2 DEF TransformAgent, DeleteHandle
  <2>4. CallTypes'
    BY <1>1, <2>1, <2>3 DEF CallTypes
  <2>5. /\ Sole(c) => Sole(c)' /\ ~Waits(c)'
        /\ Waits(c)
        /\ (WillDelete(c) /\ acd.newhandle # "set") => WillDelete(c)'
    BY <1>1, <2>1, <2>2, Dropped
  <2>6. \A d \in Call \ {c} : /\ Waits(d)' <=> Waits(d)
                              /\ Sole(d) => Sole(d)'
                              /\ WillDelete(d)' <=> WillDelete(d)
    BY <1>1, <2>1, <2>2, Dropped
  <2>7. CallInv(c)'
    <3>1. c \in Inbound => Owned(c)'
      BY <1>1, <2>1, <2>3, <2>5 DEF CallInv, Owned, CallTypes
    <3>2. c \in Inbound /\ c \notin byKey' => Unkeyed(c)'
      <4> SUFFICES ASSUME c \in Inbound, c \notin byKey PROVE Unkeyed(c)'
        BY <2>1
      <4>1. Unkeyed(c)
        BY <1>1 DEF CallInv
      <4>2. frees[c] = 0 /\ handle[c] # "freed" /\ at[c] = "done"
        BY <2>5, <4>1 DEF Unkeyed
      <4>3. usedFreed' = usedFreed
        BY <2>1, <2>2, <4>2
      <4>4. frees'[c] <= 1
        BY <1>1, <2>3, <4>2 DEF CallTypes
      <4> QED
        BY <2>1, <2>5, <4>1, <4>2, <4>3, <4>4 DEF Unkeyed
    <3>3. c \notin raced' /\ AgentNodesEnd(c) => Once(c)'
      BY <1>1, <2>1, <2>5 DEF CallInv, Once
    <3> QED
      BY <3>1, <3>2, <3>3 DEF CallInv
  <2> QED
    BY <1>1, <2>1, <2>2, <2>3, <2>4, <2>6, <2>7, OneCallStep DEF CallTypes
<1> QED
  BY <1>2, <1>3 DEF AcdThread

\* At first no call has a session, a handle or a place in the queue.
LEMMA IvrInit == Init => IvrInv
<1> SUFFICES ASSUME Init PROVE IvrInv
  OBVIOUS
<1>1. CallTypes
  BY DEF Init, CallTypes, NoSession, NodeId, Pointer
<1>2. ASSUME NEW c \in Call PROVE CallInv(c)
  <2>1. /\ at[c] = "new" /\ handle[c] = "none" /\ frees[c] = 0 /\ m_ivrmap[c] = NoSession
        /\ usedFreed = {} /\ queue = <<>> /\ acd = Idle
    BY DEF Init
  <2>2. ~Waits(c) /\ Sole(c)
    BY <2>1 DEF Waits, Sole, InQueue, Offered
  <2> QED
    BY <2>1, <2>2 DEF CallInv, Owned, Unkeyed, Once
<1> QED
  BY <1>1, <1>2 DEF IvrInv

\* Every step keeps the invariant.
LEMMA IvrNext == IvrInv /\ [Next]_vars => IvrInv'
<1> SUFFICES ASSUME IvrInv, [Next]_vars PROVE IvrInv'
  OBVIOUS
<1>1. CASE UNCHANGED vars
  <2>1. CallTypes' /\ UNCHANGED <<queue, acd>>
    BY <1>1 DEF vars, IvrInv, CallTypes
  <2>2. ASSUME NEW c \in Call PROVE CallInv(c)'
    <3>1. CallInv(c)
      BY DEF IvrInv
    <3> QED
      BY <1>1, <2>1, <3>1, CallFrame, QueueKept DEF vars
  <2> QED
    BY <2>1, <2>2 DEF IvrInv
<1>2. CASE Next
  BY <1>2, CallbackStep, AnswerStep, DtmfStep, AcdStep DEF Next, Events
<1> QED
  BY <1>1, <1>2

\* The invariant is one of the specification.
LEMMA IvrHolds == Spec => []IvrInv
  BY IvrInit, IvrNext, PTL DEF Spec

----------------------------------------------------------------------------
(* The theorems *)

\* No path of nwaycc_callback or of the acd thread leaks the handle of a call: a
\* thread that ends leaves it to a session that waits, or has deleted it.
THEOREM HandlesAreReleased == Spec => []HandleReleased
<1>1. IvrInv => HandleReleased
  <2> SUFFICES ASSUME IvrInv, NEW c \in Inbound, at[c] = "done", ~Waiting(c)
               PROVE  handle[c] = "freed"
    BY DEF HandleReleased
  <2>1. Owned(c)
    BY DEF IvrInv, CallInv, Call
  <2>2. ~WillDelete(c)
    BY DEF WillDelete, Waiting, Held, Offered
  <2> QED
    BY <2>1, <2>2 DEF Owned
<1> QED
  BY <1>1, IvrHolds, PTL

\* A handle is deleted twice, or used after it was deleted, only for a call that a key
\* has transferred.
THEOREM FaultsNeedKeys == Spec => []HandleFaultNeedsKey
<1>1. IvrInv => HandleFaultNeedsKey
  <2> SUFFICES ASSUME IvrInv, NEW c \in Inbound, c \notin byKey
               PROVE  ~(frees[c] > 1) /\ c \notin usedFreed
    BY DEF HandleFaultNeedsKey
  <2>1. Unkeyed(c) /\ frees[c] \in Nat
    BY DEF IvrInv, CallInv, CallTypes, Call
  <2> QED
    BY <2>1 DEF Unkeyed
<1> QED
  BY <1>1, IvrHolds, PTL

\* A call waits for an agent, or is offered, at most once at a time, if no key raced
\* its thread and its company's nodes for the agents have no keys of their own.
THEOREM CallsQueueOnce == Spec => []QueuedOnce
<1>1. IvrInv => QueuedOnce
  <2> SUFFICES ASSUME IvrInv, NEW c \in Call, c \notin raced, AgentNodesEnd(c)
               PROVE  Cardinality(Held(c)) + (IF acd.call = c THEN 1 ELSE 0) <= 1
    BY DEF QueuedOnce
  <2>1. Sole(c) /\ CallTypes
    BY DEF IvrInv, CallInv, Once
  <2>2. acd.call = c => Offered(c)
    BY IvrCallsAssumption DEF Offered, Idle, Entry
  <2>3. CASE Held(c) = {}
    <3>1. Cardinality(Held(c)) = 0
      BY <2>3, FS_EmptySet
    <3> QED
      BY <3>1
  <2>4. CASE Held(c) # {}
    <3>1. PICK i \in Held(c) : TRUE
      BY <2>4
    <3>2. Held(c) = {i}
      BY <2>1, <3>1 DEF Held, Sole
    <3>3. Cardinality(Held(c)) = 1
      BY <3>2, FS_Singleton
    <3>4. acd.call # c
      BY <2>1, <2>2, <3>1 DEF Held, Sole, InQueue
    <3> QED
      BY <3>3, <3>4
  <2> QED
    BY <2>3, <2>4
<1> QED
  BY <1>1, IvrHolds, PTL

----------------------------------------------------------------------------
(* The life of the menu tables *)

\* The tables are the ones Initivrflow makes of the rows it has read.
MenuInv ==
    /\ rows \in Seq(StoredRow)
    /\ loaded \in Seq(StoredRow)
    /\ m_IVRnodetable = Initivrflow(loaded)

\* A row that is stored or deleted leaves a sequence of rows.
LEMMA RowsStay ==
    ASSUME rows \in Seq(StoredRow)
    PROVE  /\ \A r \in StoredRow, i \in 1..Len(rows) + 1 :
                 InsertAt(rows, i, r) \in Seq(StoredRow)
           /\ \A i \in 1..Len(rows) : RemoveAt(rows, i) \in Seq(StoredRow)
<1>1. ASSUME NEW r \in StoredRow, NEW i \in 1..Len(rows) + 1
      PROVE  InsertAt(rows, i, r) \in Seq(StoredRow)
  <2>1. SubSeq(rows, 1, i - 1) \in Seq(StoredRow) /\ SubSeq(rows, i, Len(rows)) \in Seq(StoredRow)
    OBVIOUS
  <2> QED
    BY <2>1 DEF InsertAt
<1>2. ASSUME NEW i \in 1..Len(rows) PROVE RemoveAt(rows, i) \in Seq(StoredRow)
  <2>1. /\ SubSeq(rows, 1, i - 1) \in Seq(StoredRow)
        /\ SubSeq(rows, i + 1, Len(rows)) \in Seq(StoredRow)
    OBVIOUS
  <2> QED
    BY <2>1 DEF RemoveAt
<1> QED
  BY <1>1, <1>2

\* The invariant is one of the specification of the tables.
LEMMA MenuHolds == TablesSpec => []MenuInv
<1>1. TablesInit => MenuInv
  BY DEF TablesInit, MenuInv
<1>2. MenuInv /\ [TablesNext]_tablesVars => MenuInv'
  <2> SUFFICES ASSUME MenuInv, [TablesNext]_tablesVars PROVE MenuInv'
    OBVIOUS
  <2>1. ASSUME NEW r \in StoredRow, NEW i \in 1..Len(rows) + 1, Store(r, i) PROVE MenuInv'
    BY <2>1, RowsStay DEF Store, MenuInv
  <2>2. ASSUME NEW i \in 1..Len(rows), Delete(i) PROVE MenuInv'
    BY <2>2, RowsStay DEF Delete, MenuInv
  <2>3. CASE Reload
    BY <2>3 DEF Reload, MenuInv
  <2>4. ASSUME NEW key \in Key, Press(key) PROVE MenuInv'
    BY <2>4 DEF Press, MenuInv
  <2>5. CASE UNCHANGED tablesVars
    BY <2>5 DEF tablesVars, MenuInv
  <2> QED
    BY <2>1, <2>2, <2>3, <2>4, <2>5 DEF TablesNext
<1> QED
  BY <1>1, <1>2, PTL DEF TablesSpec

\* What the invariant says of the tables.
LEMMA MenuTables ==
    ASSUME MenuInv
    PROVE  /\ TableSound(m_IVRnodetable, loaded, Len(loaded))
           /\ TableStored(m_IVRnodetable, loaded, Len(loaded))
  BY TableBuilt DEF MenuInv

\* For a company whose rows follow each other the tables hold every stored node and the
\* virtual one, each with the row that came last, also after rows were stored or deleted
\* and until the next reload.
THEOREM TablesHoldWhatWasStored == TablesSpec => []LoadedAsStored
<1>1. MenuInv => LoadedAsStored
  <2> SUFFICES ASSUME MenuInv, NEW c \in Companies,
                      PlacesOf(c) # {}, Grouped(c)
               PROVE  /\ c \in DOMAIN m_IVRnodetable
                      /\ DOMAIN m_IVRnodetable[c] =
                            {loaded[i].node : i \in PlacesOf(c)} \cup {IVR_AGENT_FLOW_INDEX}
                      /\ \A i \in PlacesOf(c) :
                            (\A j \in PlacesOf(c) : j > i => loaded[j].node # loaded[i].node)
                               => m_IVRnodetable[c][loaded[i].node] = loaded[i]
    BY DEF LoadedAsStored
  <2>1. PlacesOf(c) = Places(loaded, Len(loaded), c)
    BY DEF PlacesOf, Places
  <2>2. Together(loaded, c)
    BY <2>1 DEF Grouped, Together
  <2>3. c \in DOMAIN m_IVRnodetable /\ NodesStored(m_IVRnodetable[c], loaded, Len(loaded), c)
    BY <2>1, <2>2, MenuTables DEF TableStored
  <2> QED
    BY <2>1, <2>3 DEF NodesStored, CameLast
<1> QED
  BY <1>1, MenuHolds, PTL

\* A key never leads out of the tables: the node it leads to is one of the caller's
\* company, found again under its own id when the next key is looked up.
THEOREM KeysDoNotLeaveTheMenu == TablesSpec => []KeysStayInMenu
<1>1. MenuInv => KeysStayInMenu
  <2> SUFFICES ASSUME MenuInv, NEW c \in DOMAIN m_IVRnodetable,
                      NEW n \in DOMAIN m_IVRnodetable[c], NEW key \in Key,
                      Getnodeinfo(m_IVRnodetable, c, n, key) # NoNode
               PROVE  LET next == Getnodeinfo(m_IVRnodetable, c, n, key)
                      IN /\ next.company = c
                         /\ Getnodeinfo(m_IVRnodetable, c, next.node, IVR_ANS_DFTM) = next
    BY DEF KeysStayInMenu
  <2> DEFINE nodes == m_IVRnodetable[c]
             next == Getnodeinfo(m_IVRnodetable, c, n, key)
  <2>1. NodesSound(nodes, loaded, Len(loaded), c)
    BY MenuTables DEF TableSound
  <2>2. \E m \in DOMAIN nodes : next = nodes[m]
    BY <2>1, FoundInTable DEF NodesSound
  <2>3. PICK m \in DOMAIN nodes : next = nodes[m]
    BY <2>2
  <2>4. next.node = m /\ next.company = c
    BY <2>1, <2>3 DEF NodesSound
  <2>5. Getnodeinfo(m_IVRnodetable, c, m, IVR_ANS_DFTM) = nodes[m]
    BY <2>3 DEF Getnodeinfo
  <2> QED
    BY <2>3, <2>4, <2>5
<1> QED
  BY <1>1, MenuHolds, PTL

\* Where "0" is offered it leads to an agent, whatever node its entry names, unless the
\* company has stored a node with the number of the virtual one.
THEOREM ZeroLeadsToAnAgent == TablesSpec => []ZeroReachesAgent
<1>1. MenuInv => ZeroReachesAgent
  <2> SUFFICES ASSUME MenuInv, NEW c \in DOMAIN m_IVRnodetable,
                      NEW n \in DOMAIN m_IVRnodetable[c],
                      "0" \in DOMAIN m_IVRnodetable[c][n].keys,
                      \A i \in PlacesOf(c) : loaded[i].node # IVR_AGENT_FLOW_INDEX
               PROVE  Getnodeinfo(m_IVRnodetable, c, n, "0").plays = "agent"
    BY DEF ZeroReachesAgent
  <2> DEFINE nodes == m_IVRnodetable[c]
  <2>1. nodes[IVR_AGENT_FLOW_INDEX] = AgentNode(c)
    <3>1. NodesSound(nodes, loaded, Len(loaded), c)
      BY MenuTables DEF TableSound
    <3>2. \A j \in Places(loaded, Len(loaded), c) : loaded[j].node # IVR_AGENT_FLOW_INDEX
      BY DEF PlacesOf, Places
    <3> QED
      BY <3>1, <3>2 DEF NodesSound
  <2>2. "0" \in DOMAIN FlowNext(nodes, n)
        /\ FlowNext(nodes, n)["0"] = nodes[IVR_AGENT_FLOW_INDEX]
    BY DEF FlowNext
  <2>3. Getnodeinfo(m_IVRnodetable, c, n, "0") = nodes[IVR_AGENT_FLOW_INDEX]
    <3>1. "0" # "#" /\ "0" # IVR_ANS_DFTM
      BY DEF IVR_ANS_DFTM
    <3> QED
      BY <2>2, <3>1, Zenon DEF Getnodeinfo
  <2> QED
    BY <2>1, <2>3 DEF AgentNode
<1> QED
  BY <1>1, MenuHolds, PTL

=============================================================================

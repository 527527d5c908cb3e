------------------------------ MODULE IvrCalls ------------------------------
(***************************************************************************)
(* The calls in the voice menus and the life of their ESL handles          *)
(* (src/DNManager.cpp).  An inbound call gets a thread (nwaycc_callback)   *)
(* that allocates a handle, puts a session into m_ivrmap and transfers the *)
(* call to the agents or plays a recording; an answered call of a dialling *)
(* task gets its session from the event thread.  The event thread serves   *)
(* the keys.  The ACD thread bridges a queued call and deletes the handle  *)
(* its session names.                                                      *)
(*                                                                         *)
(* m_ivrmap is shared without a lock; each access is a step.  Which agent  *)
(* is found, and when, is in module AgentDispatch.                         *)
(***************************************************************************)
EXTENDS IvrFlow, FiniteSets, SequencesExt

CONSTANTS
    Inbound,        \* calls FreeSWITCH connects to port 8040
    Outbound,       \* calls of dialling tasks
    CompanyOf,      \* call -> company of its gateway or task, NoCompany for none
    NoCompany,      \* GetCompanyIdFromgate returned ""
    Rows,           \* ivr_node_flow_tbl
    MaxKeys         \* bound: keys pressed

Call == Inbound \cup Outbound
Table == Initivrflow(Rows)

ASSUME IvrCallsAssumption ==
    /\ Inbound \cap Outbound = {}
    /\ "none" \notin Call
    /\ Len(Rows) \in Nat
    /\ MaxKeys \in Nat

VARIABLES
    at,         \* Call -> where its thread is
    m_ivrmap,   \* Call -> session; "none": no entry
    queue,      \* sequence of queued sessions
    acd,        \* the ACD thread: the session it has taken, if any
    keys,       \* keys pressed
    handle,     \* Call -> "none", "live" or "freed": the handle of its thread
    frees,      \* history: Call -> how often its handle was deleted
    usedFreed,  \* history: calls whose freed handle a command was sent on
    byKey,      \* history: calls a key transferred
    raced       \* history: calls whose key came before m_currentnodeid was set

vars == <<at, m_ivrmap, queue, acd, keys, handle, frees, usedFreed, byKey, raced>>
history == <<frees, usedFreed, byKey, raced>>

NoSession == [node |-> 0, newhandle |-> "none"]

\* A queued session: the call, whose handle is m_handle, whether m_newhandle is set.
Entry(c, m, new) == [call |-> c, m_handle |-> m, newhandle |-> new]
Idle == Entry("none", "none", "NULL")

----------------------------------------------------------------------------
Init ==
    /\ at = [c \in Call |-> "new"]
    /\ m_ivrmap = [c \in Call |-> NoSession]
    /\ queue = <<>> /\ acd = Idle /\ keys = 0
    /\ handle = [c \in Call |-> "none"]
    /\ frees = [c \in Call |-> 0]
    /\ usedFreed = {} /\ byKey = {} /\ raced = {}

\* esl_disconnect(handle); delete handle.
DeleteHandle(c) ==
    /\ handle' = [handle EXCEPT ![c] = "freed"]
    /\ frees' = [frees EXCEPT ![c] = @ + 1]

----------------------------------------------------------------------------
(* nwaycc_callback, the thread of an inbound call *)

Accept(c) ==
    /\ at[c] = "new" /\ c \in Inbound
    /\ handle' = [handle EXCEPT ![c] = "live"]
    /\ at' = [at EXCEPT ![c] = "attached"]
    /\ UNCHANGED <<m_ivrmap, queue, acd, keys, history>>

\* Mutant: the early return forgets the handle.
AttachFails_Leak(c) ==
    /\ at[c] = "attached"
    /\ at' = [at EXCEPT ![c] = "done"]
    /\ UNCHANGED <<m_ivrmap, queue, acd, keys, handle, history>>

\* esl_attach_handle fails, or the handle is not connected, or the called number
\* is of none of the gateways.
AttachFails(c) ==
    /\ at[c] = "attached"
    /\ at' = [at EXCEPT ![c] = "done"]
    /\ DeleteHandle(c)
    /\ UNCHANGED <<m_ivrmap, queue, acd, keys, usedFreed, byKey, raced>>

InsertSession(c) ==
    /\ at[c] = "attached"
    /\ CompanyOf[c] # NoCompany
    /\ m_ivrmap' = [m_ivrmap EXCEPT ![c] = [node |-> 1, newhandle |-> "set"]]
    /\ at' = [at EXCEPT ![c] = "inserted"]
    /\ UNCHANGED <<queue, acd, keys, handle, history>>

StartNode(c) == Getnodeinfo(Table, CompanyOf[c], 1, IVR_ANS_DFTM)

\* m_ivrmap[callid].m_currentnodeid = pnode->node_id, whatever a key has made of it.
SetCurrentNode(c) ==
    /\ at[c] = "inserted"
    /\ StartNode(c) # NoNode
    /\ m_ivrmap' = [m_ivrmap EXCEPT ![c].node = StartNode(c).node]
    /\ at' = [at EXCEPT ![c] = "started"]
    /\ UNCHANGED <<queue, acd, keys, handle, history>>

\* Mutant: the thread goes on to its end, where it deletes the handle.
StartTransfer_NoReturn(c) ==
    /\ at[c] = "started"
    /\ StartNode(c).plays = "agent"
    /\ queue' = Append(queue, Entry(c, "own", "set"))
    /\ at' = [at EXCEPT ![c] = "done"]
    /\ DeleteHandle(c)
    /\ UNCHANGED <<m_ivrmap, acd, keys, usedFreed, byKey, raced>>

\* The start node is for an agent: the handle is left to the ACD thread.
StartTransfer(c) ==
    /\ at[c] = "started"
    /\ StartNode(c).plays = "agent"
    /\ queue' = Append(queue, Entry(c, "own", "set"))
    /\ at' = [at EXCEPT ![c] = "done"]
    /\ UNCHANGED <<m_ivrmap, acd, keys, handle, history>>

\* PlayBack, and the handle is deleted; m_ivrmap still points to it.
StartPlayback(c) ==
    /\ at[c] = "started"
    /\ StartNode(c).plays = "voice"
    /\ at' = [at EXCEPT ![c] = "done"]
    /\ DeleteHandle(c)
    /\ UNCHANGED <<m_ivrmap, queue, acd, keys, usedFreed, byKey, raced>>

NoStartNode(c) ==
    /\ at[c] = "inserted"
    /\ StartNode(c) = NoNode
    /\ at' = [at EXCEPT ![c] = "done"]
    /\ DeleteHandle(c)
    /\ UNCHANGED <<m_ivrmap, queue, acd, keys, usedFreed, byKey, raced>>

----------------------------------------------------------------------------
(* The event thread *)

\* CHANNEL_ANSWER of a task's call: m_newhandle is NULL.
AnswerTask(c) ==
    /\ at[c] = "new" /\ c \in Outbound
    /\ m_ivrmap' = [m_ivrmap EXCEPT ![c] = [node |-> 1, newhandle |-> "NULL"]]
    /\ queue' = IF StartNode(c).plays = "agent"
                THEN Append(queue, Entry(c, "inbound", "NULL")) ELSE queue
    /\ at' = [at EXCEPT ![c] = "done"]
    /\ UNCHANGED <<acd, keys, handle, history>>

\* Mutant: m_currentnodeid is set for a recording only.
Dtmf_NodeKept(c, key) ==
    LET s == m_ivrmap[c]
        next == Getnodeinfo(Table, CompanyOf[c], s.node, key) IN
    /\ keys < MaxKeys
    /\ keys' = keys + 1
    /\ s # NoSession /\ next # NoNode
    /\ IF next.plays = "agent"
       THEN /\ queue' = Append(queue, Entry(c, "inbound", s.newhandle))
            /\ byKey' = byKey \cup {c}
            /\ UNCHANGED m_ivrmap
       ELSE /\ m_ivrmap' = [m_ivrmap EXCEPT ![c].node = next.node]
            /\ UNCHANGED <<queue, byKey>>
    /\ raced' = IF at[c] = "inserted" THEN raced \cup {c} ELSE raced
    /\ UNCHANGED <<at, acd, handle, frees, usedFreed>>

\* DTMF of a call that has a session: the node found is played or the session,
\* with the pointer it has, is queued on the event thread's own handle.
Dtmf(c, key) ==
    LET s == m_ivrmap[c]
        next == Getnodeinfo(Table, CompanyOf[c], s.node, key) IN
    /\ keys < MaxKeys
    /\ keys' = keys + 1
    /\ s # NoSession /\ next # NoNode
    /\ m_ivrmap' = [m_ivrmap EXCEPT ![c].node = next.node]
    /\ IF next.plays = "agent"
       THEN /\ queue' = Append(queue, Entry(c, "inbound", s.newhandle))
            /\ byKey' = byKey \cup {c}
       ELSE UNCHANGED <<queue, byKey>>
    /\ raced' = IF at[c] = "inserted" THEN raced \cup {c} ELSE raced
    /\ UNCHANGED <<at, acd, handle, frees, usedFreed>>

----------------------------------------------------------------------------
(* ACDqueue::run *)

\* m_q.get, and an agent for the call; the order of the queue is in AgentDispatch.
Get(i) ==
    /\ acd = Idle
    /\ acd' = queue[i]
    /\ queue' = RemoveAt(queue, i)
    /\ UNCHANGED <<at, m_ivrmap, keys, handle, history>>

\* inline_TransformAgent: break and bridge on m_handle, then delete m_newhandle.
TransformAgent ==
    /\ acd # Idle
    /\ usedFreed' = IF acd.m_handle = "own" /\ handle[acd.call] = "freed"
                    THEN usedFreed \cup {acd.call} ELSE usedFreed
    /\ IF acd.newhandle = "set" THEN DeleteHandle(acd.call) ELSE UNCHANGED <<handle, frees>>
    /\ acd' = Idle
    /\ UNCHANGED <<at, m_ivrmap, queue, keys, byKey, raced>>

----------------------------------------------------------------------------
Callback(c) ==
    \/ Accept(c) \/ AttachFails(c) \/ InsertSession(c) \/ SetCurrentNode(c)
    \/ StartTransfer(c) \/ StartPlayback(c) \/ NoStartNode(c)

Events == \E c \in Call : AnswerTask(c) \/ \E key \in Key : Dtmf(c, key)

AcdThread == (\E i \in 1..Len(queue) : Get(i)) \/ TransformAgent

Next == (\E c \in Call : Callback(c)) \/ Events \/ AcdThread

Spec == Init /\ [][Next]_vars

----------------------------------------------------------------------------
(* Properties *)

\* Queued or taken sessions of the call.
Held(c) == {i \in 1..Len(queue) : queue[i].call = c}
Waiting(c) == Held(c) # {} \/ acd.call = c

\* No path of the callback thread or of the ACD thread leaks a handle: once the
\* thread has ended and no session of the call waits for an agent, it is deleted.
HandleReleased ==
    \A c \in Inbound : (at[c] = "done" /\ ~Waiting(c)) => handle[c] = "freed"

\* A handle is deleted twice, or used after it was deleted, only when a key has
\* transferred the call: a call that goes to the agents from its start node, or
\* that hears its recording and hangs up, has its handle deleted exactly once.
HandleFaultNeedsKey ==
    \A c \in Inbound : (frees[c] > 1 \/ c \in usedFreed) => c \in byKey

Node(c) == IF CompanyOf[c] \in DOMAIN Table THEN DOMAIN Table[CompanyOf[c]] ELSE {}

\* The nodes that give a call of this company to the agents have no keys of their
\* own.  The virtual node has none; a row for IVR_AGNET_MSG may have a user_word.
AgentNodesEnd(c) ==
    \A n \in Node(c), key \in Key :
        Getnodeinfo(Table, CompanyOf[c], n, IVR_ANS_DFTM).plays = "agent"
        => Getnodeinfo(Table, CompanyOf[c], n, key) = NoNode

\* A call waits for an agent, or is offered, at most once at a time, unless its key
\* came between the insertion of the session and the setting of m_currentnodeid,
\* which takes the session back to the start node, or its company's table lets the
\* caller press keys at a node that has queued the call.
QueuedOnce ==
    \A c \in Call \ raced :
        AgentNodesEnd(c) =>
            Cardinality(Held(c)) + (IF acd.call = c THEN 1 ELSE 0) <= 1

=============================================================================

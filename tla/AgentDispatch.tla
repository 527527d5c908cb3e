--------------------------- MODULE AgentDispatch ---------------------------
(***************************************************************************)
(* The agent table of ManagerDN (src/DNManager.cpp) and the threads that   *)
(* work on it without a common lock:                                       *)
(*                                                                         *)
(*   ws   the WebSocket thread: login, logout, changestate, reset          *)
(*   ev   the Inbound_Init thread: CHANNEL_ANSWER and CHANNEL_DESTROY      *)
(*   acd  the ACDqueue thread: take the oldest waiting call, look for a    *)
(*        ready agent of its company, ring the agent, persist, bridge      *)
(*                                                                         *)
(* together with the sqlite table dnuser that survives a restart, and the  *)
(* part of FreeSWITCH that answers a bridge (external).                    *)
(*                                                                         *)
(* A key of m_DNmap is a DN or the empty string, written NoDN.  An entry   *)
(* made by operator[] for a missing key (DNuser's default constructor) has *)
(* an empty m_DN, an empty m_agentid and uninitialised integers: a GHOST.  *)
(* on_callapclient passes userId both as agent id and as DN, so the two    *)
(* are one value here.                                                     *)
(***************************************************************************)
EXTENDS Integers, Sequences, FiniteSets

CONSTANTS
    DN,           \* the agents' DNs, numbered in the order of the map's keys
    Company,      \* the companies of the route table
    RouteCompany, \* m_gRoute: DN -> company, NoCompany when the DN is not routed
    NoCompany,    \* a company id no call has
    NoUser,       \* m_DNmap has no entry for the key
    Call,         \* the callers' sessions
    NoCall,       \* the acd thread holds no session
    CallCompany,  \* ivrsession::m_companyid
    CallStamp,    \* ivrsession::m_startTimestamp, in seconds
    StoredRows,   \* the rows of dnuser the server finds when it first starts
    RuleOf,       \* m_compyidDNrulemap: "first", "best", "other", or "none" (no row)
    MaxRequests,  \* bound: WebSocket requests served in a behaviour
    MaxRestarts   \* bound: crashes followed by a restart

NoDN == 0                    \* the empty string as a key: sorts before every DN
Key  == DN \cup {NoDN}
End  == -1                   \* m_DNmap.end()

ASSUME DNAssumption == DN \subseteq Nat \ {NoDN}
ASSUME CompanyAssumption == NoCompany \notin Company
ASSUME RouteAssumption == RouteCompany \in [DN -> Company \cup {NoCompany}]
ASSUME CallAssumption ==
    /\ NoCall \notin Call
    /\ CallCompany \in [Call -> Company]
    /\ CallStamp \in [Call -> Nat]
ASSUME RuleAssumption ==
    RuleOf \in [Company -> {"first", "best", "other", "none"}]
ASSUME BoundAssumption == MaxRequests \in Nat /\ MaxRestarts \in Nat

\* DN_agentStatus; "parking" stands for every status that is neither ready nor
\* written by the server itself (NoLogin, Parking, Process, Holding, ...).
Status == {"ready", "ringing", "talking", "parking"}

\* The fields of DNuser the threads decide on.
DNuser == [m_DN : Key, m_commpanyid : Company \cup {NoCompany},
           m_agentstatus : Status]

ASSUME NoUserAssumption == NoUser \notin DNuser

\* A row of dnuser.  m_agentstatus is stored too, but LoadDNSet overwrites it.
\* "by" tells apart the two equal rows that two threads can insert.
Row == [strdn : Key, m_commpanyid : Company \cup {NoCompany},
        by : {"ws", "acd"}]

ASSUME StoredAssumption == StoredRows \in SUBSET Row

\* Who last wrote an entry's status (history): "signin" is an insert that found
\* the semaphore still signalled, "lateSignin" one that found it drained.
Writer == {"signin", "lateSignin", "relogin", "reset", "client",
           "acd", "failed", "answer", "destroy", "load", "garbage"}

VARIABLES
    m_DNmap,         \* Key -> DNuser or NoUser
    m_readyDNsema,   \* count of the semaphore the acd thread waits on
    m_calloutsema,   \* count of the semaphore the dialling tasks wait on
    dnuser,          \* the rows of the sqlite table
    loading,         \* rows LoadDNSet has not put into m_DNmap yet
    wsPc, wsDn,                        \* WebSocket thread
    evPc, evDn,                        \* Inbound_Init thread
    acdPc, acdCall, acdAt, acdSeen, acdDn, acdRef, \* ACDqueue thread
    m_DNChooseRule,  \* the one global rule GetavailableAgent switches on
    m_q,             \* the sessions waiting in the priority queue
    callState,       \* where a caller's session is
    legOf,           \* the DN FreeSWITCH bridged the caller to
    hung,            \* callers who hung up before they were bridged
    direct,          \* legs to a DN that were dialled past the ACD
    evs,             \* events FreeSWITCH has emitted for the leg, not yet read
    requests, restarts,
    writer,          \* history: Key -> Writer
    skipped,         \* history: this scan stepped off an erased map node
    crossed,         \* history: DNs signed out under the acd thread's hands
    forced,          \* history: calls during which somebody else than the end of
                     \* the call made the agent ready, or the agent's entry went
    unheard          \* history: DNs a leg of which ended unheard since they were rung

tableVars == <<m_DNmap, m_readyDNsema, m_calloutsema, dnuser, loading>>
wsVars    == <<wsPc, wsDn, requests>>
evVars    == <<evPc, evDn, unheard>>
acdVars   == <<acdPc, acdCall, acdAt, acdSeen, acdDn, acdRef, m_DNChooseRule, skipped>>
callVars  == <<m_q, callState, legOf, hung, direct, evs>>
histVars  == <<writer, crossed, forced>>
vars == <<tableVars, wsVars, evVars, acdVars, callVars, histVars, restarts>>

----------------------------------------------------------------------------
(* Helper formulae *)

Entry(k) == m_DNmap[k] # NoUser
Registered(d) == Entry(d) /\ m_DNmap[d].m_DN = d
Ready(k) == Entry(k) /\ m_DNmap[k].m_agentstatus = "ready"
Keys == {k \in Key : Entry(k)}

\* A DNuser made by operator[]: every integer of it is uninitialised.
Ghost(c, s) == [m_DN |-> NoDN, m_commpanyid |-> c, m_agentstatus |-> s]

\* The value of a reference variable before it is bound.
Unbound == Ghost(NoCompany, "parking")

Live(c) == callState[c] \in {"ringing", "talking"}
Transferring == {"ring", "deleteRow", "insertRow", "bridge"}

\* The calls at the phone of k, and the one for which the acd thread has set k ringing.
AtPhone(k) ==
    {c \in Call : legOf[c] = k /\ Live(c)}
      \cup {c \in Call : c = acdCall /\ acdDn = k /\ acdPc \in Transferring \ {"ring"}}

\* The acd thread's iterator or its choice refers to the entry of k.
AcdHolds(k) ==
    \/ acdPc = "scan" /\ (acdAt = k \/ k \in acdSeen)
    \/ acdPc \in Transferring /\ acdDn = k

\* If under: the agent of k signs out while the acd thread holds its entry.
CrossIf(under, k) ==
    /\ crossed' = IF under THEN crossed \cup {k} ELSE crossed
    /\ forced' = IF under THEN forced \cup AtPhone(k) ELSE forced

\* DNuser::SetagnetStatus, the assignment; the signal follows as its own step.
SetStatus(map, k, s) ==
    [map EXCEPT ![k] = [m_DN |-> map[k].m_DN, m_commpanyid |-> map[k].m_commpanyid,
                        m_agentstatus |-> s]]

InsertTable(r) == dnuser' = dnuser \cup {r}
DeleteTable(k) == dnuser' = {r \in dnuser : r.strdn # k}

Signal == m_readyDNsema' = m_readyDNsema + 1

Running == loading = {}

----------------------------------------------------------------------------
Init ==
    /\ m_DNmap = [k \in Key |-> NoUser]
    /\ m_readyDNsema = 0
    /\ m_calloutsema = 0
    /\ dnuser = StoredRows
    /\ loading = StoredRows
    /\ wsPc = "idle" /\ wsDn = NoDN
    /\ evPc = "recv" /\ evDn = NoDN
    /\ acdPc = "get" /\ acdCall = NoCall /\ acdAt = End /\ acdSeen = {}
    /\ acdDn = NoDN /\ acdRef = Unbound
    /\ m_DNChooseRule = "first"
    /\ m_q = {}
    /\ callState = [c \in Call |-> "new"]
    /\ legOf = [c \in Call |-> NoDN]
    /\ hung = {} /\ direct = {}
    /\ evs = [c \in Call |-> <<>>]
    /\ requests = 0 /\ restarts = 0
    /\ writer = [k \in Key |-> "garbage"]
    /\ skipped = FALSE /\ crossed = {} /\ forced = {} /\ unheard = {}

----------------------------------------------------------------------------
(* The WebSocket thread *)

Request ==
    /\ Running
    /\ wsPc = "idle"
    /\ requests < MaxRequests
    /\ requests' = requests + 1

\* Signin of a routed DN that has no entry: the semaphore is signalled before
\* the entry is in the map.
SigninNew(d) ==
    /\ Request
    /\ RouteCompany[d] # NoCompany
    /\ ~Entry(d)
    /\ Signal
    /\ wsPc' = "insert" /\ wsDn' = d
    /\ UNCHANGED <<m_DNmap, m_calloutsema, dnuser, loading, evVars,
                   acdVars, callVars, histVars, restarts>>

\* m_DNmap.insert leaves an entry that has appeared meanwhile as it is.
SigninInsert ==
    /\ wsPc = "insert"
    /\ wsPc' = "newRow"
    /\ IF Entry(wsDn)
       THEN UNCHANGED <<m_DNmap, writer, forced>>
       ELSE /\ m_DNmap' = [m_DNmap EXCEPT ![wsDn] =
                             [m_DN |-> wsDn, m_commpanyid |-> RouteCompany[wsDn],
                              m_agentstatus |-> "ready"]]
            /\ writer' = [writer EXCEPT ![wsDn] =
                             IF m_readyDNsema > 0 THEN "signin" ELSE "lateSignin"]
            /\ forced' = forced \cup AtPhone(wsDn)
    /\ UNCHANGED <<m_readyDNsema, m_calloutsema, dnuser, loading, wsDn, requests,
                   evVars, acdVars, callVars, crossed, restarts>>

SigninRow ==
    /\ wsPc = "newRow"
    /\ InsertTable([strdn |-> wsDn, m_commpanyid |-> RouteCompany[wsDn], by |-> "ws"])
    /\ wsPc' = "idle" /\ wsDn' = NoDN
    /\ UNCHANGED <<m_DNmap, m_readyDNsema, m_calloutsema, loading, requests,
                   evVars, acdVars, callVars, histVars, restarts>>

\* An entry is set ready without a signal: by a login for a routed DN that
\* already has an entry (DN_HAS_SIGNINED), or by ResetDNinfo.
MakeReadySilently(d, who) ==
    /\ Request
    /\ Entry(d)
    /\ m_DNmap' = SetStatus(m_DNmap, d, "ready")
    /\ writer' = [writer EXCEPT ![d] = who]
    /\ forced' = forced \cup AtPhone(d)
    /\ UNCHANGED <<m_readyDNsema, m_calloutsema, dnuser, loading, wsPc, wsDn,
                   evVars, acdVars, callVars, crossed, restarts>>

SigninAgain(d) == RouteCompany[d] # NoCompany /\ MakeReadySilently(d, "relogin")

ResetDNinfo(d) == MakeReadySilently(d, "reset")

\* Signout finds the entry by agent id, which a ghost does not have.
SignoutDelete(d) ==
    /\ Request
    /\ Registered(d)
    /\ DeleteTable(d)
    /\ wsPc' = "erase" /\ wsDn' = d
    /\ CrossIf(AcdHolds(d), d)
    /\ UNCHANGED <<m_DNmap, m_readyDNsema, m_calloutsema, loading, evVars,
                   acdVars, callVars, writer, restarts>>

SignoutErase ==
    /\ wsPc = "erase"
    /\ m_DNmap' = [m_DNmap EXCEPT ![wsDn] = NoUser]
    /\ wsPc' = "idle" /\ wsDn' = NoDN
    /\ UNCHANGED <<m_readyDNsema, m_calloutsema, dnuser, loading, requests,
                   evVars, acdVars, callVars, histVars, restarts>>

\* Mutant: a status set by the client wakes nobody.
SetDNstatus_NoSignal(d, s) ==
    /\ Request
    /\ Registered(d)
    /\ m_DNmap' = SetStatus(m_DNmap, d, s)
    /\ writer' = [writer EXCEPT ![d] = "client"]
    /\ forced' = IF s = "ready" THEN forced \cup AtPhone(d) ELSE forced
    /\ wsPc' = "deleteRow" /\ wsDn' = d
    /\ UNCHANGED <<m_readyDNsema, m_calloutsema, dnuser, loading, evVars, acdVars,
                   callVars, crossed, restarts>>

\* SetDNstatus: assign, signal when ready, then Changestate = delete and insert.
SetDNstatus(d, s) ==
    /\ Request
    /\ Registered(d)
    /\ m_DNmap' = SetStatus(m_DNmap, d, s)
    /\ writer' = [writer EXCEPT ![d] = "client"]
    /\ forced' = IF s = "ready" THEN forced \cup AtPhone(d) ELSE forced
    /\ wsPc' = IF s = "ready" THEN "signal" ELSE "deleteRow"
    /\ wsDn' = d
    /\ UNCHANGED <<m_readyDNsema, m_calloutsema, dnuser, loading, evVars, acdVars,
                   callVars, crossed, restarts>>

SetDNstatusSignal ==
    /\ wsPc = "signal"
    /\ Signal
    /\ wsPc' = "deleteRow"
    /\ UNCHANGED <<m_DNmap, m_calloutsema, dnuser, loading, wsDn, requests,
                   evVars, acdVars, callVars, histVars, restarts>>

SetDNstatusDelete ==
    /\ wsPc = "deleteRow"
    /\ DeleteTable(wsDn)
    /\ wsPc' = "insertRow"
    /\ UNCHANGED <<m_DNmap, m_readyDNsema, m_calloutsema, loading, wsDn, requests,
                   evVars, acdVars, callVars, histVars, restarts>>

\* Mutant: Changestate deletes the row and does not write it again.
SetDNstatusInsert_Lost ==
    /\ wsPc = "insertRow"
    /\ wsPc' = "idle" /\ wsDn' = NoDN
    /\ UNCHANGED <<tableVars, requests, evVars, acdVars, callVars, histVars, restarts>>

SetDNstatusInsert ==
    /\ wsPc = "insertRow"
    /\ InsertTable([strdn |-> wsDn, m_commpanyid |-> m_DNmap[wsDn].m_commpanyid,
                    by |-> "ws"])
    /\ wsPc' = "idle" /\ wsDn' = NoDN
    /\ UNCHANGED <<m_DNmap, m_readyDNsema, m_calloutsema, loading, requests,
                   evVars, acdVars, callVars, histVars, restarts>>

WsThread ==
    \/ \E d \in DN : SigninNew(d) \/ SigninAgain(d) \/ SignoutDelete(d) \/ ResetDNinfo(d)
    \/ \E d \in DN, s \in Status : SetDNstatus(d, s)
    \/ SigninInsert \/ SigninRow \/ SignoutErase
    \/ SetDNstatusSignal \/ SetDNstatusDelete \/ SetDNstatusInsert

----------------------------------------------------------------------------
(* The ACDqueue thread *)

KeysAfter(k) == {j \in Keys : j > k}

\* Where an iterator over the keys S starts: the least key, or end().
First(S) == IF S = {} THEN {End} ELSE {k \in S : \A j \in S : k <= j}

\* Mutant: the sense of ivrsession's operator< is turned round.
Top_Latest(c) == c \in m_q /\ \A b \in m_q : CallStamp[b] <= CallStamp[c]

\* The top of the priority queue.  For sessions of the same second operator< holds
\* both ways, and either may be on top.
Top(c) == c \in m_q /\ \A b \in m_q : CallStamp[c] <= CallStamp[b]

\* ACDqueue::run takes the top of the priority queue; GetavailableAgent sets the
\* global rule when the company has one, and an unknown rule gives "".
Get(c) ==
    /\ Running
    /\ acdPc = "get"
    /\ Top(c)
    /\ m_q' = m_q \ {c}
    /\ callState' = [callState EXCEPT ![c] = "held"]
    /\ acdCall' = c
    /\ m_DNChooseRule' = IF RuleOf[CallCompany[c]] = "none"
                         THEN m_DNChooseRule ELSE RuleOf[CallCompany[c]]
    /\ acdPc' = IF m_DNChooseRule' = "other" THEN "ring" ELSE "scan"
    /\ acdAt' \in First(Keys)
    /\ acdSeen' = {} /\ acdDn' = NoDN /\ skipped' = FALSE
    /\ CrossIf(wsPc = "erase" /\ wsDn = acdAt', wsDn)
    /\ UNCHANGED <<tableVars, wsVars, evVars, acdRef, legOf, hung, direct, evs,
                   writer, restarts>>

\* What the loop body tests in the node the iterator stands on.  A node erased
\* meanwhile is freed memory: the test may come out either way.
Candidate(k) == Ready(k) /\ m_DNmap[k].m_commpanyid = CallCompany[acdCall]
MayMatch(k) == Entry(k) => Candidate(k)
MayMiss(k)  == Entry(k) => ~Candidate(k)

\* ite++ goes to the next key; from an erased node, to any later key or end().
Successors(k) ==
    IF Entry(k) THEN First(KeysAfter(k)) ELSE KeysAfter(k) \cup {End}

\* GetAgent_robin returns the first match.
ScanReturn ==
    /\ acdPc = "scan" /\ acdAt # End
    /\ m_DNChooseRule = "first"
    /\ MayMatch(acdAt)
    /\ acdDn' = acdAt
    /\ acdPc' = "ring" /\ acdAt' = End /\ acdSeen' = {}
    /\ UNCHANGED <<tableVars, wsVars, evVars, acdCall, acdRef, m_DNChooseRule, skipped,
                   callVars, histVars, restarts>>

Advance ==
    /\ acdAt' \in Successors(acdAt)
    /\ skipped' = IF Entry(acdAt) THEN skipped ELSE TRUE
    /\ CrossIf(wsPc = "erase" /\ wsDn \in {acdAt'} \cup acdSeen', wsDn)
    /\ UNCHANGED <<tableVars, wsVars, evVars, acdPc, acdCall, acdDn, acdRef,
                   m_DNChooseRule, callVars, writer, restarts>>

\* The other rules remember a match and look at every entry.
ScanMatch ==
    /\ acdPc = "scan" /\ acdAt # End
    /\ m_DNChooseRule # "first"
    /\ MayMatch(acdAt)
    /\ acdSeen' = acdSeen \cup {acdAt}
    /\ Advance

ScanMiss ==
    /\ acdPc = "scan" /\ acdAt # End
    /\ MayMiss(acdAt)
    /\ acdSeen' = acdSeen
    /\ Advance

\* Which of the matches a rule prefers is left open here (module AgentChoice);
\* the comparison may prefer none of them, and then "" is returned.
ScanChoose ==
    /\ acdPc = "scan" /\ acdAt = End
    /\ acdSeen # {}
    /\ \E k \in acdSeen \cup {NoDN} : acdDn' = k
    /\ acdPc' = "ring" /\ acdAt' = End /\ acdSeen' = {}
    /\ UNCHANGED <<tableVars, wsVars, evVars, acdCall, acdRef,
                   m_DNChooseRule, skipped, callVars, histVars, restarts>>

ScanNone ==
    /\ acdPc = "scan" /\ acdAt = End
    /\ acdSeen = {}
    /\ acdPc' = "wait"
    /\ UNCHANGED <<tableVars, wsVars, evVars, acdCall, acdAt, acdSeen, acdDn, acdRef,
                   m_DNChooseRule, skipped, callVars, histVars, restarts>>

\* Mutant: the wait returns without a signal, as one with a timeout would.
Wait_TimesOut ==
    /\ acdPc = "wait"
    /\ m_readyDNsema' = m_readyDNsema - 1
    /\ acdPc' = "scan"
    /\ acdAt' \in First(Keys)
    /\ skipped' = FALSE
    /\ CrossIf(wsPc = "erase" /\ wsDn = acdAt', wsDn)
    /\ UNCHANGED <<m_DNmap, m_calloutsema, dnuser, loading, wsVars, evVars, acdCall,
                   acdSeen, acdDn, acdRef, m_DNChooseRule, callVars, writer, restarts>>

\* Mutant: the iterator is not set back to begin() after the wait.
Wait_NoRescan ==
    /\ acdPc = "wait"
    /\ m_readyDNsema > 0
    /\ m_readyDNsema' = m_readyDNsema - 1
    /\ acdPc' = "scan"
    /\ UNCHANGED <<m_DNmap, m_calloutsema, dnuser, loading, wsVars, evVars, acdAt, acdCall,
                   acdSeen, acdDn, acdRef, m_DNChooseRule, skipped, callVars, histVars,
                   restarts>>

\* m_readyDNsema.wait() returns, and the scan starts over.
Wait ==
    /\ acdPc = "wait"
    /\ m_readyDNsema > 0
    /\ m_readyDNsema' = m_readyDNsema - 1
    /\ acdPc' = "scan"
    /\ acdAt' \in First(Keys)
    /\ skipped' = FALSE
    /\ CrossIf(wsPc = "erase" /\ wsDn = acdAt', wsDn)
    /\ UNCHANGED <<m_DNmap, m_calloutsema, dnuser, loading, wsVars, evVars, acdCall,
                   acdSeen, acdDn, acdRef, m_DNChooseRule, callVars, writer, restarts>>

\* Mutant: the chosen agent is not marked ringing.
TransformRing_Unmarked ==
    /\ acdPc = "ring"
    /\ acdPc' = "deleteRow"
    /\ UNCHANGED <<tableVars, wsVars, evVars, acdCall, acdAt, acdSeen, acdDn, acdRef,
                   m_DNChooseRule, skipped, callVars, histVars, restarts>>

\* inline_TransformAgent.  m_DNmap[strdn] makes a ghost when the entry is gone.
TransformRing ==
    /\ acdPc = "ring"
    /\ acdPc' = "deleteRow"
    /\ IF Entry(acdDn)
       THEN m_DNmap' = SetStatus(m_DNmap, acdDn, "ringing")
       ELSE \E g \in Company \cup {NoCompany} :
              m_DNmap' = [m_DNmap EXCEPT ![acdDn] = Ghost(g, "ringing")]
    /\ writer' = [writer EXCEPT ![acdDn] = "acd"]
    /\ unheard' = unheard \ {acdDn}
    /\ UNCHANGED <<m_readyDNsema, m_calloutsema, dnuser, loading, wsVars, evPc, evDn,
                   acdCall, acdAt, acdSeen, acdDn, acdRef, m_DNChooseRule, skipped,
                   callVars, crossed, forced, restarts>>

\* Changestate(m_DNmap[strdn]): the lookup may make a second ghost, this time with
\* an uninitialised status.  acdRef is the entry the reference was bound to: its
\* strings and company are still read after a sign-out has freed it.
TransformDelete ==
    /\ acdPc = "deleteRow"
    /\ acdPc' = "insertRow"
    /\ IF Entry(acdDn)
       THEN UNCHANGED <<m_DNmap, writer, forced>>
       ELSE \E g \in Company \cup {NoCompany}, s \in Status :
              /\ m_DNmap' = [m_DNmap EXCEPT ![acdDn] = Ghost(g, s)]
              /\ writer' = [writer EXCEPT ![acdDn] = "garbage"]
              /\ forced' = forced \cup AtPhone(acdDn)
    /\ acdRef' = m_DNmap'[acdDn]
    /\ DeleteTable(acdRef'.m_DN)
    /\ UNCHANGED <<m_readyDNsema, m_calloutsema, loading, wsVars, evVars, acdCall, acdAt,
                   acdSeen, acdDn, m_DNChooseRule, skipped, callVars, crossed, restarts>>

TransformInsert ==
    /\ acdPc = "insertRow"
    /\ acdPc' = "bridge"
    /\ InsertTable([strdn |-> acdRef.m_DN, m_commpanyid |-> acdRef.m_commpanyid,
                    by |-> "acd"])
    /\ UNCHANGED <<m_DNmap, m_readyDNsema, m_calloutsema, loading, wsVars, evVars,
                   acdCall, acdAt, acdSeen, acdDn, acdRef, m_DNChooseRule, skipped,
                   callVars, histVars, restarts>>

\* The loop of ACDqueue::run starts over with fresh locals.
NextSession ==
    acdPc' = "get" /\ acdCall' = NoCall /\ acdDn' = NoDN /\ acdRef' = Unbound

\* esl_execute break and bridge.  The result is not looked at, so an agent whose
\* bridge failed (the caller is gone, the phone is not registered) stays ringing.
BridgeOk ==
    /\ acdPc = "bridge"
    /\ acdDn # NoDN /\ acdCall \notin hung
    /\ callState' = [callState EXCEPT ![acdCall] = "ringing"]
    /\ legOf' = [legOf EXCEPT ![acdCall] = acdDn]
    /\ NextSession
    /\ UNCHANGED <<tableVars, wsVars, evVars, acdAt, acdSeen,
                   m_DNChooseRule, skipped, m_q, hung, direct, evs, histVars, restarts>>

BridgeFails ==
    /\ acdPc = "bridge"
    /\ callState' = [callState EXCEPT ![acdCall] = "failed"]
    /\ writer' = [writer EXCEPT ![acdDn] = IF @ = "acd" THEN "failed" ELSE @]
    /\ NextSession
    /\ UNCHANGED <<tableVars, wsVars, evVars, acdAt, acdSeen,
                   m_DNChooseRule, skipped, m_q, legOf, hung, direct, evs, crossed,
                   forced, restarts>>

AcdThread ==
    \/ \E c \in Call : Get(c)
    \/ ScanReturn \/ ScanMatch \/ ScanMiss \/ ScanChoose \/ ScanNone \/ Wait
    \/ TransformRing \/ TransformDelete \/ TransformInsert
    \/ BridgeOk \/ BridgeFails

----------------------------------------------------------------------------
(* The Inbound_Init thread: process_event for the leg to an agent *)

TakeEvent(c, e) ==
    /\ Running
    /\ evPc = "recv"
    /\ evs[c] # <<>>
    /\ Head(evs[c]) = e
    /\ evs' = [evs EXCEPT ![c] = Tail(@)]

ChannelAnswer(c) ==
    /\ TakeEvent(c, "ANSWER")
    /\ IF Entry(legOf[c])
       THEN /\ m_DNmap' = SetStatus(m_DNmap, legOf[c], "talking")
            /\ writer' = [writer EXCEPT ![legOf[c]] = "answer"]
       ELSE UNCHANGED <<m_DNmap, writer>>
    /\ UNCHANGED <<m_readyDNsema, m_calloutsema, dnuser, loading, wsVars, evVars,
                   acdVars, m_q, callState, legOf, hung, direct, crossed, forced,
                   restarts>>

\* Mutant: only an agent who is talking is set free.
ChannelDestroy_TalkingOnly(c) ==
    LET d == legOf[c] IN
    /\ TakeEvent(c, "DESTROY")
    /\ IF Entry(d) /\ m_DNmap[d].m_agentstatus = "talking"
       THEN /\ m_DNmap' = SetStatus(m_DNmap, d, "ready")
            /\ writer' = [writer EXCEPT ![d] = "destroy"]
            /\ forced' = forced \cup AtPhone(d)
            /\ evPc' = "signal" /\ evDn' = d
       ELSE UNCHANGED <<m_DNmap, writer, forced, evPc, evDn>>
    /\ UNCHANGED <<m_readyDNsema, m_calloutsema, dnuser, loading, wsVars, acdVars, m_q,
                   callState, legOf, hung, direct, crossed, unheard, restarts>>

\* Whatever the agent's status is, the end of a leg to its DN makes it ready.
ChannelDestroy(c) ==
    LET d == legOf[c] IN
    /\ TakeEvent(c, "DESTROY")
    /\ IF Entry(d)
       THEN /\ m_DNmap' = SetStatus(m_DNmap, d, "ready")
            /\ writer' = [writer EXCEPT ![d] = "destroy"]
            /\ forced' = forced \cup AtPhone(d)
            /\ evPc' = "signal" /\ evDn' = d
       ELSE UNCHANGED <<m_DNmap, writer, forced, evPc, evDn>>
    /\ UNCHANGED <<m_readyDNsema, m_calloutsema, dnuser, loading, wsVars, acdVars, m_q,
                   callState, legOf, hung, direct, crossed, unheard, restarts>>

\* SetagnetStatus signals, then process_event signals once more and frees a
\* dialling task.
DestroySignal ==
    /\ evPc = "signal"
    /\ Signal
    /\ evPc' = "again"
    /\ UNCHANGED <<m_DNmap, m_calloutsema, dnuser, loading, wsVars, evDn, unheard, acdVars,
                   callVars, histVars, restarts>>

DestroySignalAgain ==
    /\ evPc = "again"
    /\ Signal
    /\ m_calloutsema' = m_calloutsema + 1
    /\ evPc' = "recv" /\ evDn' = NoDN
    /\ UNCHANGED <<m_DNmap, dnuser, loading, wsVars, acdVars, callVars, histVars,
                   unheard, restarts>>

\* The event does not reach process_event: a command of the ACD thread on the same
\* handle dropped it (esl_recv_event destroys last_ievent, module EslHandle), or the
\* connection ended, Inbound_Init returned, and this one and all later ones are missed.
MissEvent(c) ==
    /\ \E e \in {"ANSWER", "DESTROY"} :
         /\ TakeEvent(c, e)
         /\ unheard' = IF e = "DESTROY" THEN unheard \cup {legOf[c]} ELSE unheard
    /\ UNCHANGED <<tableVars, wsVars, evPc, evDn, acdVars, m_q, callState, legOf, hung,
                   direct, histVars, restarts>>

EvThread ==
    \/ \E c \in Call : ChannelAnswer(c) \/ ChannelDestroy(c) \/ MissEvent(c)
    \/ DestroySignal \/ DestroySignalAgain

----------------------------------------------------------------------------
(* Callers and FreeSWITCH (external) *)

\* TransformAgent puts the session of a caller who asked for an agent in the queue.
TransformAgent(c) ==
    /\ Running
    /\ callState[c] = "new"
    /\ callState' = [callState EXCEPT ![c] = "queued"]
    /\ m_q' = m_q \cup {c}
    /\ UNCHANGED <<tableVars, wsVars, evVars, acdVars, legOf, hung, direct, evs,
                   histVars, restarts>>

\* The caller gives up waiting; nothing removes the session from the queue.
CallerHangsUp(c) ==
    /\ callState[c] \in {"queued", "held"}
    /\ c \notin hung
    /\ hung' = hung \cup {c}
    /\ UNCHANGED <<tableVars, wsVars, evVars, acdVars, m_q, callState, legOf, direct,
                   evs, histVars, restarts>>

\* Somebody dials an agent's DN past the ACD.
DirectCall(c, d) ==
    /\ callState[c] = "new"
    /\ callState' = [callState EXCEPT ![c] = "ringing"]
    /\ legOf' = [legOf EXCEPT ![c] = d]
    /\ direct' = direct \cup {c}
    /\ UNCHANGED <<tableVars, wsVars, evVars, acdVars, m_q, hung, evs, histVars, restarts>>

\* An event is emitted to a connected server only.
LegAnswered(c) ==
    /\ callState[c] = "ringing"
    /\ callState' = [callState EXCEPT ![c] = "talking"]
    /\ evs' = [evs EXCEPT ![c] = IF Running THEN Append(@, "ANSWER") ELSE @]
    /\ UNCHANGED <<tableVars, wsVars, evVars, acdVars, m_q, legOf, hung, direct,
                   histVars, restarts>>

LegEnds(c) ==
    /\ Live(c)
    /\ callState' = [callState EXCEPT ![c] = "ended"]
    /\ evs' = [evs EXCEPT ![c] = IF Running THEN Append(@, "DESTROY") ELSE @]
    /\ UNCHANGED <<tableVars, wsVars, evVars, acdVars, m_q, legOf, hung, direct,
                   histVars, restarts>>

Callers ==
    \E c \in Call :
        \/ TransformAgent(c) \/ CallerHangsUp(c) \/ LegAnswered(c) \/ LegEnds(c)
        \/ \E d \in DN : DirectCall(c, d)

----------------------------------------------------------------------------
(* Crash and restart *)

\* Everything in memory is lost, events FreeSWITCH emits before the server is
\* connected again are not delivered, and loaddb reads the table.
Restart ==
    /\ restarts < MaxRestarts
    /\ restarts' = restarts + 1
    /\ m_DNmap' = [k \in Key |-> NoUser]
    /\ m_readyDNsema' = 0 /\ m_calloutsema' = 0
    /\ loading' = dnuser
    /\ wsPc' = "idle" /\ wsDn' = NoDN
    /\ evPc' = "recv" /\ evDn' = NoDN /\ unheard' = {}
    /\ NextSession /\ acdAt' = End /\ acdSeen' = {}
    /\ m_DNChooseRule' = "first"
    /\ m_q' = {}
    /\ callState' = [c \in Call |-> IF callState[c] \in {"queued", "held"}
                                    THEN "failed" ELSE callState[c]]
    /\ evs' = [c \in Call |-> <<>>]
    /\ skipped' = FALSE
    /\ crossed' = {}
    /\ UNCHANGED <<dnuser, requests, legOf, hung, direct, writer, forced>>

\* Mutant: a loaded agent has lost its DN and agent id.
LoadDNSet_NoName(r) ==
    /\ r \in loading
    /\ loading' = loading \ {r}
    /\ m_DNmap' = [m_DNmap EXCEPT ![r.strdn] = Ghost(r.m_commpanyid, "ready")]
    /\ Signal
    /\ writer' = [writer EXCEPT ![r.strdn] = "load"]
    /\ forced' = forced \cup AtPhone(r.strdn)
    /\ UNCHANGED <<m_calloutsema, dnuser, wsVars, evVars, acdVars, callVars, crossed,
                   restarts>>

\* LoadDNSet, one row: every loaded agent is ready, whatever it was doing.
LoadDNSet(r) ==
    /\ r \in loading
    /\ loading' = loading \ {r}
    /\ m_DNmap' = [m_DNmap EXCEPT ![r.strdn] =
                     [m_DN |-> r.strdn, m_commpanyid |-> r.m_commpanyid,
                      m_agentstatus |-> "ready"]]
    /\ Signal
    /\ writer' = [writer EXCEPT ![r.strdn] = "load"]
    /\ forced' = forced \cup AtPhone(r.strdn)
    /\ UNCHANGED <<m_calloutsema, dnuser, wsVars, evVars, acdVars, callVars, crossed,
                   restarts>>

Recovery == Restart \/ \E r \in loading : LoadDNSet(r)

----------------------------------------------------------------------------
Next == WsThread \/ AcdThread \/ EvThread \/ Callers \/ Recovery

Spec == Init /\ [][Next]_vars

\* Each thread of the server keeps running; callers, clients and crashes are free.
Fairness ==
    /\ WF_vars(SigninInsert \/ SigninRow \/ SignoutErase
               \/ SetDNstatusSignal \/ SetDNstatusDelete \/ SetDNstatusInsert)
    /\ WF_vars(AcdThread)
    /\ WF_vars(EvThread)
    /\ WF_vars(\E r \in loading : LoadDNSet(r))

FairSpec == Spec /\ Fairness

----------------------------------------------------------------------------
(* Properties *)

TableType ==
    /\ m_DNmap \in [Key -> DNuser \cup {NoUser}]
    /\ m_readyDNsema \in Nat /\ m_calloutsema \in Nat
    /\ dnuser \in SUBSET Row /\ loading \in SUBSET Row

WsType ==
    /\ wsPc \in {"idle", "insert", "newRow", "erase", "signal", "deleteRow", "insertRow"}
    /\ wsDn \in Key /\ (wsPc # "idle" => wsDn \in DN)
    \* only this thread erases an entry, so the one it works on stays
    /\ wsPc \in {"signal", "deleteRow", "insertRow"} => Entry(wsDn)

EvType == evPc \in {"recv", "signal", "again"} /\ evDn \in Key

AcdType ==
    /\ acdPc \in {"get", "scan", "wait"} \cup Transferring
    /\ acdCall \in Call \cup {NoCall} /\ (acdPc # "get" => acdCall \in Call)
    /\ acdAt \in Key \cup {End} /\ acdSeen \in SUBSET Key
    /\ acdDn \in Key /\ acdRef \in DNuser
    /\ m_DNChooseRule \in {"first", "best", "other"}

CallType ==
    /\ m_q \in SUBSET Call
    /\ callState \in [Call -> {"new", "queued", "held", "ringing", "talking",
                               "ended", "failed"}]
    /\ legOf \in [Call -> Key]
    /\ hung \in SUBSET Call /\ direct \in SUBSET Call
    /\ evs \in [Call -> Seq({"ANSWER", "DESTROY"})]

HistType ==
    /\ requests \in Nat /\ restarts \in Nat
    /\ writer \in [Key -> Writer]
    /\ skipped \in BOOLEAN /\ crossed \in SUBSET DN /\ forced \in SUBSET Call
    /\ unheard \in SUBSET Key

\* Type correctness of the agent table, the threads and the calls, with the one
\* fact the WebSocket thread relies on when it uses a reference into m_DNmap
\* across several steps: the entry is still there.
TypeOK == TableType /\ WsType /\ EvType /\ AcdType /\ CallType /\ HistType

\* The writers of "ready" that leave a signal behind.
Signalling == {"signin", "client", "destroy", "load"}

\* An agent the waiting call could be given, made ready by such a writer.
Announced(k) == Candidate(k) /\ writer[k] \in Signalling

\* The acd thread blocked on m_readyDNsema with no signal on the way misses a
\* ready agent of the call's company only when that agent was made ready without
\* a signal (login again, reset), by a login whose early signal was spent before
\* the entry was in the map, or in uninitialised memory; or when the scan stepped
\* off an entry that a sign-out had erased.
NoLostWakeup ==
    ( /\ acdPc = "wait" /\ m_readyDNsema = 0
      /\ wsPc # "signal" /\ evPc # "signal"
      /\ ~skipped )
    => \A k \in Key : ~Announced(k)

\* The inductive form: the same for the keys the scan has already left behind,
\* with the signal that the writer of k still owes counted in.
Passed(k) == acdPc = "wait" \/ acdAt = End \/ k < acdAt
SignalDue(k) ==
    \/ m_readyDNsema > 0
    \/ wsPc = "signal" /\ wsDn = k
    \/ evPc = "signal" /\ evDn = k
WakeupInv ==
    /\ acdPc = "wait" => acdSeen = {}
    /\ acdPc \in {"scan", "wait"} /\ ~skipped =>
         \A k \in Key : Announced(k) /\ Passed(k) => k \in acdSeen \/ SignalDue(k)

\* An entry that no login made appears under a DN only when the agent signed out
\* while the acd thread held its entry.
GhostOnlyFromSignout ==
    \A d \in DN : Entry(d) /\ ~Registered(d) => d \in crossed

\* A thread is between the two halves of an update of d's row.
Updating(d) ==
    \/ wsPc \in {"newRow", "erase", "insertRow"} /\ wsDn = d
    \/ acdPc = "insertRow" /\ acdRef.m_DN = d

\* The table has a row for exactly the agents who are signed in, whenever no
\* thread is between the halves of an update, except for an agent who signed out
\* while the acd thread held its entry.  So a crash outside an update forgets
\* nobody and brings back nobody.
PersistedIffRegistered ==
    Running => \A d \in DN \ crossed :
        ~Updating(d) => (Registered(d) <=> \E r \in dnuser : r.strdn = d)

\* A restart outside an update reads the rows of exactly the agents who were signed in;
\* those who were signed out, or had never logged in, do not come back.
RestartForgetsNobody ==
    [][ restarts' > restarts /\ Running
        => \A d \in DN \ crossed :
             ~Updating(d) => (Registered(d) <=> \E r \in loading' : r.strdn = d) ]_vars

\* An agent the acd thread set ringing has a call: one on its way to the agent,
\* one at the agent's phone, or one whose end is not processed yet.  The exceptions
\* are the agent whose bridge failed (writer "failed") and the agent whose leg ended
\* unheard since it was rung: nothing in the server sets these two free.
RingingHasCause ==
    \A d \in DN :
        /\ Entry(d) /\ m_DNmap[d].m_agentstatus = "ringing" /\ writer[d] = "acd"
        /\ d \notin unheard
        /\ ~ (acdPc \in Transferring /\ acdDn = d)
        => \E c \in Call : legOf[c] = d /\ (Live(c) \/ evs[c] # <<>>)

\* The acd thread gives an agent a second call only after the first was disturbed:
\* while that very call was at the agent's phone, or on its way there, somebody else
\* made the agent ready (a login, a reset, the client, the end of another leg, a
\* restart), or the agent signed out under the acd thread's hands.  So of the calls
\* an agent has at one time, all but one were disturbed.
OneOfferPerAgent ==
    \A c1, c2 \in Call \ direct :
        c1 # c2 /\ Live(c1) /\ Live(c2) /\ legOf[c1] = legOf[c2]
        => {c1, c2} \cap forced # {}

\* What becomes of calls is what AcdService promises: the oldest first, one at a time,
\* each connected once or lost, and none lost from the queue but by a crash.
CallsIn(states) == {c \in Call : callState[c] \in states}
Service == INSTANCE AcdService WITH
    Stamp <- CallStamp,
    waiting <- CallsIn({"queued"}), taken <- CallsIn({"held"}),
    connected <- CallsIn({"ringing", "talking", "ended"}), lost <- CallsIn({"failed"})
CallsServedInOrder == Service!Spec

\* The inductive form: the queue and the thread's local variable are where the
\* calls' states say they are.
ServiceInv ==
    /\ m_q = CallsIn({"queued"})
    /\ CallsIn({"held"}) = IF acdPc = "get" THEN {} ELSE {acdCall}

\* A call the acd thread holds is not left waiting while an agent of its company,
\* made ready with a signal, stays ready.
HeldCallIsServed ==
    \A c \in Call :
        (acdCall = c /\ acdPc \in {"scan", "wait"} /\ ~skipped
           /\ \E k \in Key : Announced(k))
        ~> (acdPc \notin {"scan", "wait"} \/ acdCall # c \/ skipped
           \/ ~ \E k \in Key : Announced(k))

============================================================================

---------------------------- MODULE CallRecords ----------------------------
(***************************************************************************)
(* The calls agents make themselves: process_event keeps a record of each  *)
(* in callInfoMap, from CHANNEL_ORIGINATE to CHANNEL_DESTROY, and then     *)
(* writes it to t_call_info_tbl; and the route table m_gRoute, from which  *)
(* the record takes its company and the call its gateway.                  *)
(*                                                                         *)
(*   event thread      Inbound_Init: the five events of such a call, in    *)
(*                     the order FreeSWITCH sends them; one can be missed  *)
(*                     (module EventStream).  What ANSWER and DESTROY do   *)
(*                     to the agent who is called is in AgentDispatch.     *)
(*   WebSocket thread  login, logout, and ResetConfig, which clears        *)
(*                     m_gRoute and reads it again row by row              *)
(*                                                                         *)
(* The other tables reloaddb reads are those of IvrTables, the rules,      *)
(* which are constant in AgentDispatch, and two maps no thread looks at    *)
(* (m_agentRoute, m_agentloginInfo).                                       *)
(*                                                                         *)
(* They share m_gRoute without a lock.  A walk over it is one step here;   *)
(* one that meets a reload may also end the process: at() throws, and      *)
(* iterators are invalid.                                                  *)
(***************************************************************************)
EXTENDS Integers, Sequences, FiniteSets, Functions

CONSTANTS
    Agent,       \* agent numbers
    Call,        \* uuids of calls that agents make
    CallerOf,    \* Call -> Agent
    Tables,      \* contents call_in_route_tbl can have: sequences of rows
    Absent,      \* no entry under a key
    MaxReloads,  \* bound: ResetConfig messages
    MaxStream,   \* bound: events on their way
    MaxMisses,   \* bound: events missed
    MaxRestarts  \* bound: restarts after the process has died

\* struct Route; group_id is text, and "" is 0 to atoi.  A row's gataname and prefix
\* are those of its company.
Route == [agent : Agent, group : Nat, group_id : Nat]

\* callout_info_t, the fields that differ between calls.  N_callstate is the character
\* with code 1 at first (N_callstate = 1), here "c1", and the text "1" once answered.
Record == [N_company_id : Nat, N_extension_number : Nat,
           N_callstate : {"c1", "1"}, N_call_duration : {"0", "billsec"}]

ASSUME TablesAssumption == Tables \subseteq Seq(Route) /\ Tables # {}
ASSUME CallAssumption == CallerOf \in [Call -> Agent]
ASSUME AbsentAssumption == Absent \notin Call /\ Absent \notin Record
ASSUME BoundsAssumption ==
    MaxReloads \in Nat /\ MaxStream \in Nat \ {0} /\ MaxMisses \in Nat /\ MaxRestarts \in Nat

VARIABLES
    stored,      \* the rows of call_in_route_tbl
    m_gRoute,    \* the copy in memory
    result,      \* rows SelectRouteAgent has still to push, while wsPc = "select"
    wsPc,
    reloads,     \* ResetConfig messages so far
    asRead,      \* history: the rows stored when main or a reload last read them
    cut,         \* history: that query failed half-way
    m_DNmap,     \* agents who are signed in
    callInfoMap, \* Call -> Record or Absent
    evPc, evCall, evInfo, \* process_event in the middle of ORIGINATE or DESTROY
    stage,       \* Call -> the last event FreeSWITCH sent for it
    answered,    \* calls that were answered
    stream,      \* events on their way to process_event
    dialled,     \* Call -> the row whose gateway its bridge command names, or Absent
    written,     \* Call -> rows of t_call_info_tbl
    alive, restarts,
    accepted,    \* history: calls that got a record
    misses,      \* history: pairs of call and event that were not processed
    lost,        \* history: calls whose record a crash or a failed insert lost
    blurred      \* history: calls set up while m_gRoute was incomplete or exchanged

tableVars == <<stored, m_gRoute, result, wsPc, reloads, asRead, cut>>
evVars == <<evPc, evCall, evInfo>>
fsVars == <<stage, answered, stream>>
outVars == <<dialled, written>>
procVars == <<alive, restarts>>
histVars == <<accepted, misses, lost, blurred>>
vars == <<tableVars, m_DNmap, callInfoMap, evVars, fsVars, outVars, procVars, histVars>>

----------------------------------------------------------------------------
\* The index of the agent's first row, as a set of at most one element.
RowOf(table, a) ==
    {i \in 1..Len(table) :
        table[i].agent = a /\ \A j \in 1..i - 1 : table[j].agent # a}

checkvaildDN(a) == RowOf(m_gRoute, a) # {}

\* Both give "" for an agent without a row.
getGroupId(table, a) ==
    IF RowOf(table, a) = {} THEN 0 ELSE table[CHOOSE i \in RowOf(table, a) : TRUE].group_id

\* Mutant: the walk goes on after the first row.
getGroupNumber_Last(table, a) ==
    LET rows == {i \in 1..Len(table) : table[i].agent = a} IN
    IF rows = {} THEN 0
    ELSE table[CHOOSE i \in rows : \A j \in rows : j <= i].group

getGroupNumber(table, a) ==
    IF RowOf(table, a) = {} THEN 0 ELSE table[CHOOSE i \in RowOf(table, a) : TRUE].group

\* The constructor of callout_info_t, and N_callstate = 1.
NewInfo == [N_company_id |-> 0, N_extension_number |-> 0, N_callstate |-> "c1",
            N_call_duration |-> "0"]

Reloading == wsPc = "select"

\* What loaddb leaves in m_gRoute when main starts: the rows pushed until the query ended
\* or threw.  It does not look at the result.
Loaded(n) == SubSeq(stored, 1, n)

\* Some agents come back from sqlite.
Init ==
    /\ stored \in Tables /\ asRead = stored
    /\ \E n \in 0..Len(stored) : m_gRoute = Loaded(n) /\ cut = (n # Len(stored))
    /\ result = <<>> /\ wsPc = "idle" /\ reloads = 0
    /\ m_DNmap \in SUBSET Agent
    /\ callInfoMap = [c \in Call |-> Absent]
    /\ evPc = "recv" /\ evCall = Absent /\ evInfo = NewInfo
    /\ stage = [c \in Call |-> "none"] /\ answered = {} /\ stream = <<>>
    /\ dialled = [c \in Call |-> Absent] /\ written = [c \in Call |-> <<>>]
    /\ alive = TRUE /\ restarts = 0
    /\ accepted = {} /\ misses = {} /\ lost = {} /\ blurred = {}

----------------------------------------------------------------------------
(* The process dies; what was in memory is gone *)

Dies ==
    /\ alive' = FALSE
    /\ lost' = lost \cup {c \in Call : callInfoMap[c] # Absent} \cup ({evCall} \ {Absent})
    /\ misses' = misses \cup Range(stream)
    /\ callInfoMap' = [c \in Call |-> Absent]
    /\ evPc' = "recv" /\ evCall' = Absent /\ evInfo' = NewInfo
    /\ stream' = <<>> /\ result' = <<>> /\ wsPc' = "idle"
    /\ UNCHANGED <<stored, m_gRoute, reloads, asRead, cut, m_DNmap, stage, answered,
                   outVars, restarts, accepted, blurred>>

\* Another thread's walk over m_gRoute meets the clear() or a push_back; or the query
\* failed before result was assigned, and delete result frees what is there.
ReloadDies ==
    /\ alive /\ Reloading
    /\ Dies

\* main: loaddb before the threads start.  Which agents sqlite still has is in AgentDispatch.
Restart ==
    /\ ~alive
    /\ restarts < MaxRestarts
    /\ restarts' = restarts + 1
    /\ alive' = TRUE
    /\ \E n \in 0..Len(stored) : m_gRoute' = Loaded(n) /\ cut' = (n # Len(stored))
    /\ asRead' = stored
    /\ m_DNmap' \in SUBSET Agent
    /\ UNCHANGED <<stored, result, wsPc, reloads, callInfoMap, evVars, fsVars,
                   outVars, histVars>>

----------------------------------------------------------------------------
(* The WebSocket thread *)

\* The administrator changes the table in the database, to reload it (external).
EditTable ==
    /\ reloads < MaxReloads
    /\ \E table \in Tables : table # stored /\ stored' = table
    /\ UNCHANGED <<m_gRoute, result, wsPc, reloads, asRead, cut, m_DNmap, callInfoMap,
                   evVars, fsVars, outVars, procVars, histVars>>

\* The part of login and logout that decides who may call out (see AgentDispatch).
Signin(a) ==
    /\ alive /\ wsPc = "idle"
    /\ a \notin m_DNmap
    /\ checkvaildDN(a)
    /\ m_DNmap' = m_DNmap \cup {a}
    /\ UNCHANGED <<tableVars, callInfoMap, evVars, fsVars, outVars, procVars, histVars>>

Signout(a) ==
    /\ alive /\ wsPc = "idle"
    /\ a \in m_DNmap
    /\ m_DNmap' = m_DNmap \ {a}
    /\ UNCHANGED <<tableVars, callInfoMap, evVars, fsVars, outVars, procVars, histVars>>

StartsReload(table) ==
    /\ alive /\ wsPc = "idle"
    /\ reloads < MaxReloads
    /\ reloads' = reloads + 1
    /\ m_gRoute' = table
    /\ result' = stored /\ asRead' = stored
    /\ wsPc' = "select"
    /\ blurred' = blurred \cup (IF evPc \in {"originate", "gateway"} THEN {evCall} ELSE {})
    /\ UNCHANGED <<stored, cut, m_DNmap, callInfoMap, evVars, fsVars, outVars, procVars,
                   accepted, misses, lost>>

\* Mutant: the rows read before stay in the vector.
reloaddb_NoClear == StartsReload(m_gRoute)

\* ResetConfig: reloaddb clears the vectors, then SelectRouteAgent runs its query.
reloaddb == StartsReload(<<>>)

\* vRoute.push_back(route)
PushRow ==
    /\ alive /\ Reloading
    /\ result # <<>>
    /\ m_gRoute' = Append(m_gRoute, Head(result))
    /\ result' = Tail(result)
    /\ UNCHANGED <<stored, wsPc, reloads, asRead, cut, m_DNmap, callInfoMap, evVars,
                   fsVars, outVars, procVars, histVars>>

\* The query throws: the rows pushed so far stay, and reloaddb still returns 0.
ReloadFails ==
    /\ alive /\ Reloading
    /\ result # <<>>
    /\ result' = <<>> /\ wsPc' = "idle" /\ cut' = TRUE
    /\ UNCHANGED <<stored, m_gRoute, reloads, asRead, m_DNmap, callInfoMap, evVars,
                   fsVars, outVars, procVars, histVars>>

ReloadEnds ==
    /\ alive /\ Reloading
    /\ result = <<>>
    /\ wsPc' = "idle" /\ cut' = FALSE
    /\ UNCHANGED <<stored, m_gRoute, result, reloads, asRead, m_DNmap, callInfoMap,
                   evVars, fsVars, outVars, procVars, histVars>>

----------------------------------------------------------------------------
(* FreeSWITCH (external): the events of a call; nobody hears them while the *)
(* server is down.                                                          *)

EventKind == {"ORIGINATE", "ANSWER", "HANGUP", "HANGUP_COMPLETE", "DESTROY"}

FollowedBy(s) ==
    CASE s = "none"      -> {"ORIGINATE"}
      [] s = "ORIGINATE" -> {"ANSWER", "HANGUP"}
      [] s = "ANSWER"    -> {"HANGUP"}
      [] s = "HANGUP"    -> {"HANGUP_COMPLETE"}
      [] s = "HANGUP_COMPLETE" -> {"DESTROY"}
      [] s = "DESTROY"   -> {}

FsEvent(c, e) ==
    /\ e \in FollowedBy(stage[c])
    /\ Len(stream) < MaxStream
    /\ stage' = [stage EXCEPT ![c] = e]
    /\ answered' = IF e = "ANSWER" THEN answered \cup {c} ELSE answered
    /\ stream' = IF alive THEN Append(stream, <<c, e>>) ELSE stream
    /\ misses' = IF alive THEN misses ELSE misses \cup {<<c, e>>}
    /\ UNCHANGED <<tableVars, m_DNmap, callInfoMap, evVars, outVars, procVars, accepted,
                   lost, blurred>>

----------------------------------------------------------------------------
(* process_event *)

Receives(c, e) ==
    /\ alive
    /\ evPc = "recv"
    /\ stream # <<>> /\ Head(stream) = <<c, e>>
    /\ stream' = Tail(stream)
    /\ UNCHANGED <<stage, answered>>

BackToRecv == evPc' = "recv" /\ evCall' = Absent /\ evInfo' = NewInfo

\* EventStream!Miss: the event is freed before Inbound_Init looks at it.
Miss(c, e) ==
    /\ Receives(c, e)
    /\ Cardinality(misses) < MaxMisses
    /\ misses' = misses \cup {<<c, e>>}
    /\ UNCHANGED <<tableVars, m_DNmap, callInfoMap, evVars, outVars, procVars, accepted,
                   lost, blurred>>

\* The caller is not an agent who is signed in: return.
OriginateIgnored(c) ==
    /\ Receives(c, "ORIGINATE")
    /\ CallerOf[c] \notin m_DNmap
    /\ UNCHANGED <<tableVars, m_DNmap, callInfoMap, evVars, outVars, procVars, histVars>>

BlursIfIncomplete(c) ==
    blurred' = blurred \cup (IF cut \/ Reloading THEN {c} ELSE {})

\* The first walk: getGroupId gives the company.
Originate(c) ==
    /\ Receives(c, "ORIGINATE")
    /\ CallerOf[c] \in m_DNmap
    /\ evPc' = "originate" /\ evCall' = c
    /\ evInfo' = [NewInfo EXCEPT !.N_company_id = getGroupId(m_gRoute, CallerOf[c])]
    /\ BlursIfIncomplete(c)
    /\ UNCHANGED <<tableVars, m_DNmap, callInfoMap, outVars, procVars, accepted, misses,
                   lost>>

\* The second, getGroupNumber; then the record is put into the map.
OriginateStore ==
    LET info == [evInfo EXCEPT !.N_extension_number =
                    getGroupNumber(m_gRoute, CallerOf[evCall])] IN
    /\ alive /\ evPc = "originate"
    /\ evInfo' = info
    /\ callInfoMap' = [callInfoMap EXCEPT ![evCall] = info]
    /\ accepted' = accepted \cup {evCall}
    /\ evPc' = "gateway"
    /\ BlursIfIncomplete(evCall)
    /\ UNCHANGED <<tableVars, m_DNmap, evCall, fsVars, outVars, procVars, misses, lost>>

\* Row i is that of company i: then a company id is an index into m_gRoute, also the 0
\* of an agent without a row, unless there is no row at all.
RowPerCompany(table) ==
    /\ table # <<>>
    /\ \A i \in 1..Len(table) : table[i].group_id = i - 1

\* The vector's element i is the sequence's i + 1.  Past the end the strings are made of
\* whatever is there.  The bridge command itself is in EslHandle.
Bridges(i) ==
    /\ alive /\ evPc = "gateway"
    /\ dialled' = [dialled EXCEPT ![evCall] =
                      [company |-> evInfo.N_company_id,
                       gateway |-> IF i + 1 \in 1..Len(m_gRoute) THEN m_gRoute[i + 1].group_id
                                   ELSE Absent,
                       ordered |-> RowPerCompany(m_gRoute)]]
    /\ BackToRecv
    /\ UNCHANGED <<tableVars, m_DNmap, callInfoMap, fsVars, written, procVars, histVars>>

\* Mutant: companies counted from 1.
OriginateBridge_FromOne == Bridges(evInfo.N_company_id - 1)

\* m_gRoute[callinfo.N_company_id].gataname
OriginateBridge == Bridges(evInfo.N_company_id)

OriginateDies ==
    /\ alive /\ evPc = "gateway"
    /\ evInfo.N_company_id >= Len(m_gRoute)
    /\ Dies

\* An event that changes a field of the record, if there is one.
Update(c, e, field, value) ==
    /\ Receives(c, e)
    /\ callInfoMap' = [callInfoMap EXCEPT ![c] =
                          IF @ = Absent THEN @ ELSE [@ EXCEPT ![field] = value]]
    /\ UNCHANGED <<tableVars, m_DNmap, evVars, outVars, procVars, histVars>>

Answer(c) == Update(c, "ANSWER", "N_callstate", "1")

\* Only N_call_end_time, which CHANNEL_DESTROY sets again.
Hangup(c) ==
    /\ Receives(c, "HANGUP")
    /\ UNCHANGED <<tableVars, m_DNmap, callInfoMap, evVars, outVars, procVars, histVars>>

\* Mutant: a header that is not there.
HangupComplete_Zero(c) == Update(c, "HANGUP_COMPLETE", "N_call_duration", "0")

HangupComplete(c) == Update(c, "HANGUP_COMPLETE", "N_call_duration", "billsec")

\* Not an agent's call, or one from before a restart.
DestroyUnknown(c) ==
    /\ Receives(c, "DESTROY")
    /\ callInfoMap[c] = Absent
    /\ UNCHANGED <<tableVars, m_DNmap, callInfoMap, evVars, outVars, procVars, histVars>>

\* Mutant: the record stays in the map.
Destroy_NoErase(c) ==
    /\ Receives(c, "DESTROY")
    /\ callInfoMap[c] # Absent
    /\ evPc' = "insert" /\ evCall' = c /\ evInfo' = callInfoMap[c]
    /\ UNCHANGED <<tableVars, m_DNmap, callInfoMap, outVars, procVars, histVars>>

\* Mutant: the record is erased before it has been copied.
Destroy_Forgets(c) ==
    /\ Receives(c, "DESTROY")
    /\ callInfoMap[c] # Absent
    /\ callInfoMap' = [callInfoMap EXCEPT ![c] = Absent]
    /\ UNCHANGED <<tableVars, m_DNmap, evVars, outVars, procVars, histVars>>

\* The record is copied and erased before it is written.
Destroy(c) ==
    /\ Receives(c, "DESTROY")
    /\ callInfoMap[c] # Absent
    /\ evPc' = "insert" /\ evCall' = c /\ evInfo' = callInfoMap[c]
    /\ callInfoMap' = [callInfoMap EXCEPT ![c] = Absent]
    /\ UNCHANGED <<tableVars, m_DNmap, outVars, procVars, histVars>>

insertCallInfoSql ==
    /\ alive /\ evPc = "insert"
    /\ written' = [written EXCEPT ![evCall] = Append(@, evInfo)]
    /\ BackToRecv
    /\ UNCHANGED <<tableVars, m_DNmap, callInfoMap, fsVars, dialled, procVars, histVars>>

\* The statement throws, and nobody looks at the result: the record is gone.
InsertFails ==
    /\ alive /\ evPc = "insert"
    /\ lost' = lost \cup {evCall}
    /\ BackToRecv
    /\ UNCHANGED <<tableVars, m_DNmap, callInfoMap, fsVars, outVars, procVars, accepted,
                   misses, blurred>>

\* GetConnection returned NULL, or delete state frees an unassigned pointer.
InsertDies ==
    /\ alive /\ evPc = "insert"
    /\ Dies

----------------------------------------------------------------------------
EvThread ==
    \/ \E c \in Call : OriginateIgnored(c) \/ Originate(c) \/ Answer(c) \/ Hangup(c)
                       \/ HangupComplete(c) \/ DestroyUnknown(c) \/ Destroy(c)
    \/ OriginateStore \/ OriginateBridge \/ insertCallInfoSql

Next ==
    \/ EvThread
    \/ \E c \in Call, e \in EventKind : FsEvent(c, e) \/ Miss(c, e)
    \/ OriginateDies \/ InsertFails \/ InsertDies \/ ReloadDies \/ Restart
    \/ \E a \in Agent : Signin(a) \/ Signout(a)
    \/ reloaddb \/ PushRow \/ ReloadFails \/ ReloadEnds \/ EditTable

Spec == Init /\ [][Next]_vars

\* Inbound_Init never leaves an event it can read; a call FreeSWITCH has begun ends.
Fairness ==
    /\ WF_vars(EvThread)
    /\ \A c \in Call : WF_vars(/\ stage[c] # "none"
                               /\ \E e \in EventKind : FsEvent(c, e))

FairSpec == Spec /\ Fairness

----------------------------------------------------------------------------
(* Properties *)

\* The types of the variables; process_event has a call in hand except between events.
TypeOK ==
    /\ stored \in Tables /\ m_gRoute \in Seq(Route) /\ result \in Seq(Route)
    /\ wsPc \in {"idle", "select"} /\ reloads \in 0..MaxReloads
    /\ asRead \in Tables /\ cut \in BOOLEAN
    /\ m_DNmap \subseteq Agent
    /\ callInfoMap \in [Call -> Record \cup {Absent}]
    /\ evPc \in {"recv", "originate", "gateway", "insert"}
    /\ evCall \in Call \cup {Absent} /\ (evCall = Absent <=> evPc = "recv")
    /\ evInfo \in Record
    /\ stage \in [Call -> EventKind \cup {"none"}]
    /\ stream \in Seq(Call \X EventKind)
    /\ written \in [Call -> Seq(Record)]
    /\ alive \in BOOLEAN /\ restarts \in 0..MaxRestarts
    /\ answered \subseteq Call /\ accepted \subseteq Call
    /\ lost \subseteq Call /\ blurred \subseteq Call
    /\ misses \subseteq Call \X EventKind

\* process_event is through with the call.
Finished(c) ==
    /\ stage[c] = "DESTROY"
    /\ <<c, "DESTROY">> \notin Range(stream) \cup misses
    /\ evCall # c

\* A call that got a record in CHANNEL_ORIGINATE has exactly one row in t_call_info_tbl
\* once its CHANNEL_DESTROY has been processed, and none before, unless the process died
\* with the record in memory or the insert failed: these are the only ways to lose one.
RecordKept ==
    \A c \in Call :
        /\ Len(written[c]) <= 1
        /\ Finished(c) /\ c \in accepted \ lost => Len(written[c]) = 1
        /\ written[c] # <<>> => Finished(c)

\* What the row says of the call is so: answered or not, and the billed seconds, unless
\* the event that tells it was missed.  The events update the record through the map.
RecordTrue ==
    \A c \in Call : \A i \in DOMAIN written[c] :
        /\ written[c][i].N_callstate = "1" <=> c \in answered /\ <<c, "ANSWER">> \notin misses
        /\ written[c][i].N_call_duration = "billsec"
              <=> <<c, "HANGUP_COMPLETE">> \notin misses

\* Company and number of a record were read in two walks over m_gRoute; they are those of
\* one row of one table, or of none, unless a reload came while the call was set up, or the
\* query of a reload or of main had left the table incomplete.
RecordOfOneRow ==
    \A c \in Call \ blurred :
        callInfoMap[c] # Absent =>
            LET company == callInfoMap[c].N_company_id
                number == callInfoMap[c].N_extension_number IN
            \E table \in Tables :
                \/ \E i \in DOMAIN table : table[i] =
                      [agent |-> CallerOf[c], group |-> number, group_id |-> company]
                \/ /\ \A i \in DOMAIN table : table[i].agent # CallerOf[c]
                   /\ company = 0 /\ number = 0

\* process_event indexes m_gRoute with a company id.  The call leaves through a gateway
\* of its own company when row i of the table is that of company i, no reload interferes
\* and the table is all there; the run's tables include one with its rows in another order.
GatewayOfCompany ==
    \A c \in Call \ blurred :
        dialled[c] # Absent /\ dialled[c].ordered => dialled[c].gateway = dialled[c].company

\* Between reloads m_gRoute is the table that was stored when it was last read, row by
\* row, also if the stored one was edited meanwhile and whichever rows were there before,
\* unless that query, of main or of the reload, failed half-way.
TableComplete == alive /\ ~Reloading /\ ~cut => m_gRoute = asRead

\* A record does not stay in callInfoMap for ever: every call ends, and its
\* CHANNEL_DESTROY erases the entry, unless that event is missed.
RecordLeaves ==
    \A c \in Call :
        callInfoMap[c] # Absent ~> callInfoMap[c] = Absent \/ <<c, "DESTROY">> \in misses

=============================================================================

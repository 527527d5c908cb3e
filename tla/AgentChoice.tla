---------------------------- MODULE AgentChoice ----------------------------
(***************************************************************************)
(* The rules by which GetavailableAgent prefers one ready agent of a       *)
(* company to another (src/DNManager.cpp), and the counters they compare:  *)
(* m_idelminiutes (the time of the login), m_callminiutes and m_calltimes. *)
(*                                                                         *)
(* The four scans are recursive functions over the map in key order, one   *)
(* loop body per entry.  All entries belong to one company, as the scans   *)
(* skip the others; the entry of the empty key, and the waiting for an     *)
(* agent, are in module AgentDispatch.  Times are whole seconds.           *)
(***************************************************************************)
EXTENDS Integers, FiniteSets

CONSTANTS
    NDN,        \* number of DNs
    Epoch,      \* time(NULL) when the server starts, larger than any talk time
    MaxTime,    \* bound: seconds a behaviour lasts
    MaxCalls,   \* bound: legs to agents' phones
    Garbage     \* values an uninitialised counter may hold

DN == 1..NDN
NoDN == 0
Leg == 1..MaxCalls
Limit == 999999   \* the start value of maxidelminiute in two of the rules

ASSUME ChoiceAssumption ==
    /\ NDN \in Nat /\ Epoch \in Nat
    /\ MaxTime \in Nat /\ MaxCalls \in Nat
    /\ Garbage \subseteq Int

VARIABLES
    now,             \* time(NULL)
    status,          \* DN -> "none" (no entry), "ready", "busy" (any other status)
    m_idelminiutes, m_callminiutes, m_calltimes,
    loaded,          \* DNs whose entry has uninitialised counters
    nameless,        \* DNs whose entry operator[] made: it has no agent id
    legDn,           \* Leg -> the DN the leg that is up goes to, or NoDN
    legStart,        \* Leg -> when it began
    calls,           \* legs begun so far
    ev,              \* the counters CHANNEL_DESTROY has still to update
    freeTime,        \* history: seconds since the login without a leg
    inexact          \* history: DNs whose entry cannot have the right talk time: two
                     \* legs were up at once, one was up at the login, the end of
                     \* one was not heard, or was written to a later entry

counters == <<m_idelminiutes, m_callminiutes, m_calltimes>>
entries  == <<counters, loaded, nameless>>
legs     == <<legDn, legStart, calls>>
vars == <<now, status, entries, legs, ev, freeTime, inexact>>

----------------------------------------------------------------------------
ReadyDNs == {d \in DN : status[d] = "ready"}

Getidelminiute(d) == now - m_idelminiutes[d] - m_callminiutes[d]

\* One pass over m_DNmap; acc[i] holds the local maxidelminiute and dn after i entries.
Scan(Body(_, _), limit) ==
    LET acc[i \in Nat] == IF i = 0 THEN [maxidelminiute |-> limit, dn |-> NoDN]
                          ELSE Body(acc[i - 1], i)
    IN acc[NDN].dn

GetAgent_robin ==
    LET Body(acc, d) ==
          IF acc.dn = NoDN /\ d \in ReadyDNs THEN [acc EXCEPT !.dn = d] ELSE acc
    IN Scan(Body, 0)

\* Mutant: the idle time is not compared, the last ready agent wins.
GetAgent_idel_agent_Last ==
    LET Body(acc, d) ==
          IF d \in ReadyDNs THEN [maxidelminiute |-> Getidelminiute(d), dn |-> d] ELSE acc
    IN Scan(Body, 0)

GetAgent_idel_agent ==
    LET Body(acc, d) ==
          IF d \in ReadyDNs /\ acc.maxidelminiute < Getidelminiute(d)
          THEN [maxidelminiute |-> Getidelminiute(d), dn |-> d] ELSE acc
    IN Scan(Body, 0)

\* Mutant: the scan keeps the limit 0 the idle rule starts from.
GetAgent_least_talk_time_Zero ==
    LET Body(acc, d) ==
          IF d \in ReadyDNs /\ acc.maxidelminiute > m_callminiutes[d]
          THEN [maxidelminiute |-> m_idelminiutes[d], dn |-> d] ELSE acc
    IN Scan(Body, 0)

\* After a match the limit becomes the time of the login, not the talk time.
GetAgent_least_talk_time ==
    LET Body(acc, d) ==
          IF d \in ReadyDNs /\ acc.maxidelminiute > m_callminiutes[d]
          THEN [maxidelminiute |-> m_idelminiutes[d], dn |-> d] ELSE acc
    IN Scan(Body, Limit)

GetAgent_fewest_calls ==
    LET Body(acc, d) ==
          IF d \in ReadyDNs /\ acc.maxidelminiute > m_calltimes[d]
          THEN [maxidelminiute |-> m_idelminiutes[d], dn |-> d] ELSE acc
    IN Scan(Body, Limit)

\* m_DNChooseRule; "other" is a stored value no case of the switch has.
Rules == {"robin", "idel", "leastTalk", "fewestCalls", "other"}

GetavailableAgent(rule) ==
    CASE rule = "robin"       -> GetAgent_robin
      [] rule = "idel"        -> GetAgent_idel_agent
      [] rule = "leastTalk"   -> GetAgent_least_talk_time
      [] rule = "fewestCalls" -> GetAgent_fewest_calls
      [] OTHER                -> NoDN

----------------------------------------------------------------------------
Zero == [d \in DN |-> 0]

\* The event thread between SetagnetStatus and the counters: the entry it points
\* to, the duration of the leg, and whether that entry still exists.
NoEvent == [dn |-> NoDN, secs |-> 0, live |-> FALSE]

LegsUp(d) == {i \in Leg : legDn[i] = d}

Init ==
    /\ now = Epoch
    /\ status = [d \in DN |-> "none"]
    /\ m_idelminiutes = Zero /\ m_callminiutes = Zero /\ m_calltimes = Zero
    /\ loaded = {} /\ nameless = {}
    /\ legDn = [i \in Leg |-> NoDN] /\ legStart = [i \in Leg |-> 0]
    /\ calls = 0
    /\ ev = NoEvent /\ freeTime = Zero /\ inexact = {}

Tick ==
    /\ now < Epoch + MaxTime
    /\ now' = now + 1
    /\ freeTime' = [d \in DN |->
          IF status[d] # "none" /\ LegsUp(d) = {} THEN freeTime[d] + 1 ELSE freeTime[d]]
    /\ UNCHANGED <<status, entries, legs, ev, inexact>>

----------------------------------------------------------------------------
(* The entries *)

\* The DNuser constructor of Signin.
Signin(d) ==
    /\ status[d] = "none"
    /\ status' = [status EXCEPT ![d] = "ready"]
    /\ m_calltimes' = [m_calltimes EXCEPT ![d] = 0]
    /\ m_callminiutes' = [m_callminiutes EXCEPT ![d] = 0]
    /\ m_idelminiutes' = [m_idelminiutes EXCEPT ![d] = now]
    /\ inexact' = IF LegsUp(d) = {} THEN inexact \ {d} ELSE inexact \cup {d}
    /\ UNCHANGED <<now, loaded, nameless, legs, ev, freeTime>>

\* A login or a reset for a key that has an entry only sets the status, during a
\* call too.
SigninAgain(d) ==
    /\ status[d] = "busy"
    /\ status' = [status EXCEPT ![d] = "ready"]
    /\ UNCHANGED <<now, entries, legs, ev, freeTime, inexact>>

\* An entry none of whose three counters is initialised.
RawEntry(d, s) ==
    /\ status[d] = "none"
    /\ status' = [status EXCEPT ![d] = s]
    /\ loaded' = loaded \cup {d}
    /\ \E t, n, l \in Garbage :
          /\ m_calltimes' = [m_calltimes EXCEPT ![d] = n]
          /\ m_callminiutes' = [m_callminiutes EXCEPT ![d] = t]
          /\ m_idelminiutes' = [m_idelminiutes EXCEPT ![d] = l]

\* An agent LoadDNSet finds in the table when the server starts: Unserialize sets
\* none of the counters.
LoadDNSet(d) ==
    /\ now = Epoch /\ calls = 0
    /\ RawEntry(d, "ready")
    /\ UNCHANGED <<now, nameless, legs, ev, freeTime, inexact>>

\* The chosen agent signs out before m_DNmap[strdn], which makes an entry without an
\* agent id.  (Its company is garbage too; one of another company is passed over.)
DispatchGone(d) ==
    /\ RawEntry(d, "busy")
    /\ nameless' = nameless \cup {d}
    /\ UNCHANGED <<now, legs, ev, freeTime, inexact>>

\* Signout and SetDNstatus look for the agent id.  The entry goes, and its counters.
Signout(d) ==
    /\ status[d] # "none" /\ d \notin nameless
    /\ status' = [status EXCEPT ![d] = "none"]
    /\ m_calltimes' = [m_calltimes EXCEPT ![d] = 0]
    /\ m_callminiutes' = [m_callminiutes EXCEPT ![d] = 0]
    /\ m_idelminiutes' = [m_idelminiutes EXCEPT ![d] = 0]
    /\ loaded' = loaded \ {d}
    /\ ev' = IF ev.dn = d THEN [ev EXCEPT !.live = FALSE] ELSE ev
    /\ freeTime' = [freeTime EXCEPT ![d] = 0]
    /\ inexact' = inexact \ {d}
    /\ UNCHANGED <<now, nameless, legs>>

\* The client takes a rest, and comes back.
SetDNstatus(d, s) ==
    /\ status[d] \notin {"none", s} /\ d \notin nameless
    /\ status' = [status EXCEPT ![d] = s]
    /\ UNCHANGED <<now, entries, legs, ev, freeTime, inexact>>

----------------------------------------------------------------------------
(* The calls *)

\* FreeSWITCH begins a leg to the phone of d.
BeginLeg(d) ==
    /\ calls < MaxCalls
    /\ calls' = calls + 1
    /\ legDn' = [legDn EXCEPT ![calls + 1] = d]
    /\ legStart' = [legStart EXCEPT ![calls + 1] = now]
    /\ inexact' = IF LegsUp(d) = {} THEN inexact ELSE inexact \cup {d}

\* ACDqueue::run transfers a call to the agent the rule returns; the bridge may fail.
\* For "" there is no agent to ring.
Dispatch(rule) ==
    LET d == GetavailableAgent(rule) IN
    /\ d # NoDN
    /\ status' = [status EXCEPT ![d] = "busy"]
    /\ BeginLeg(d) \/ UNCHANGED <<legs, inexact>>
    /\ UNCHANGED <<now, entries, ev, freeTime>>

\* A leg past the ACD: a call dialled to the DN.
DirectCall(d) ==
    /\ BeginLeg(d)
    /\ UNCHANGED <<now, status, entries, ev, freeTime>>

\* CHANNEL_ANSWER: talking.
ChannelAnswer(i) ==
    /\ ev = NoEvent
    /\ legDn[i] # NoDN /\ status[legDn[i]] = "ready"
    /\ status' = [status EXCEPT ![legDn[i]] = "busy"]
    /\ UNCHANGED <<now, entries, legs, ev, freeTime, inexact>>

EndLeg(i) ==
    /\ legDn[i] # NoDN
    /\ legDn' = [legDn EXCEPT ![i] = NoDN]
    /\ legStart' = [legStart EXCEPT ![i] = 0]
    /\ UNCHANGED <<now, entries, calls, freeTime>>

\* CHANNEL_DESTROY of the leg, first half: the entry is ready, and chosen from,
\* before its counters are updated.
ChannelDestroy(i) ==
    LET d == legDn[i] IN
    /\ ev = NoEvent
    /\ EndLeg(i)
    /\ IF status[d] = "none"
       THEN UNCHANGED <<status, ev>>
       ELSE /\ status' = [status EXCEPT ![d] = "ready"]
            /\ ev' = [dn |-> d, secs |-> now - legStart[i], live |-> TRUE]
    /\ UNCHANGED inexact

\* The event is lost, or the event thread has ended: nothing is counted.
MissEvent(i) ==
    /\ EndLeg(i)
    /\ inexact' = inexact \cup {legDn[i]}
    /\ UNCHANGED <<status, ev>>

\* Mutant: a finished leg is counted twice.
CountLeg_Twice ==
    /\ ev.dn # NoDN
    /\ m_callminiutes' = [m_callminiutes EXCEPT ![ev.dn] = @ + 2 * ev.secs]
    /\ m_calltimes' = [m_calltimes EXCEPT ![ev.dn] = @ + 1]
    /\ ev' = NoEvent
    /\ UNCHANGED <<now, status, m_idelminiutes, loaded, nameless, legs, freeTime, inexact>>

\* The second half.  An entry erased in between is written to all the same: the
\* write is lost, or lands in an entry that a login has put at that address.
CountLeg ==
    /\ ev.dn # NoDN
    /\ \/ \E d \in DN :
             /\ status[d] # "none" /\ (ev.live => d = ev.dn)
             /\ m_callminiutes' = [m_callminiutes EXCEPT ![d] = @ + ev.secs]
             /\ m_calltimes' = [m_calltimes EXCEPT ![d] = @ + 1]
             /\ inexact' = IF ev.live THEN inexact ELSE inexact \cup {d}
       \/ /\ ~ev.live
          /\ UNCHANGED <<m_callminiutes, m_calltimes, inexact>>
    /\ ev' = NoEvent
    /\ UNCHANGED <<now, status, m_idelminiutes, loaded, nameless, legs, freeTime>>

Next ==
    \/ Tick
    \/ \E d \in DN : \/ Signin(d) \/ SigninAgain(d) \/ Signout(d)
                     \/ LoadDNSet(d) \/ DispatchGone(d) \/ DirectCall(d)
    \/ \E d \in DN, s \in {"ready", "busy"} : SetDNstatus(d, s)
    \/ \E rule \in Rules : Dispatch(rule)
    \/ \E i \in Leg : ChannelAnswer(i) \/ ChannelDestroy(i) \/ MissEvent(i)
    \/ CountLeg

Spec == Init /\ [][Next]_vars

----------------------------------------------------------------------------
(* Properties *)

\* Type correctness of the clock, the entries, their counters and the legs.
TypeOK ==
    /\ now \in Epoch..(Epoch + MaxTime)
    /\ status \in [DN -> {"none", "ready", "busy"}]
    /\ m_idelminiutes \in [DN -> Int]
    /\ m_callminiutes \in [DN -> Int] /\ m_calltimes \in [DN -> Int]
    /\ loaded \subseteq DN /\ nameless \subseteq loaded
    /\ legDn \in [Leg -> DN \cup {NoDN}] /\ legStart \in [Leg -> Nat]
    /\ calls \in 0..MaxCalls
    /\ ev \in [dn : DN \cup {NoDN}, secs : Nat, live : BOOLEAN]
    /\ freeTime \in [DN -> Nat] /\ inexact \subseteq DN

\* Getidelminiute is the time since the login without a leg, the time of a rest
\* included, once all legs are counted: except where the counters are garbage and
\* where every leg's own duration is not the time off the phone (inexact).
IdleIsTimeOffCalls ==
    \A d \in ReadyDNs \ (loaded \cup inexact) :
        (LegsUp(d) = {} /\ ev.dn # d) => Getidelminiute(d) = freeTime[d]

\* Every rule of the switch finds a ready agent, with the exceptions the code has: a
\* counting rule needs one whose counter is below the limit it starts from, and the
\* idle rule may find nobody while no ready agent with an exact idle time has had a
\* second without a leg.
ReadyAgentReturned ==
    /\ ReadyDNs # {} => GetavailableAgent("robin") \in ReadyDNs
    /\ (\E d \in ReadyDNs : m_callminiutes[d] < Limit) =>
           GetavailableAgent("leastTalk") \in ReadyDNs
    /\ (\E d \in ReadyDNs : m_calltimes[d] < Limit) =>
           GetavailableAgent("fewestCalls") \in ReadyDNs
    /\ (\E d \in ReadyDNs \ (loaded \cup inexact) : freeTime[d] > 0) =>
           GetavailableAgent("idel") \in ReadyDNs

\* The idle rule returns the ready agent with the largest idle time.
IdleRulePicksLongest ==
    LET d == GetAgent_idel_agent IN
    d # NoDN => /\ d \in ReadyDNs
                /\ \A e \in ReadyDNs : Getidelminiute(e) <= Getidelminiute(d)

\* GetAgent_idel_agent, "the one with the longest idle time": some ready agent
\* is returned, and it is one that has been idle longest.
LongestIdleChosen ==
    ReadyDNs # {} =>
        \E d \in ReadyDNs : /\ GetAgent_idel_agent = d
                            /\ \A e \in ReadyDNs : Getidelminiute(e) <= Getidelminiute(d)

\* GetAgent_least_talk_time, "the agent with the shortest talk time".
LeastTalkChosen ==
    LET d == GetAgent_least_talk_time IN
    d # NoDN => \A e \in ReadyDNs : m_callminiutes[d] <= m_callminiutes[e]

============================================================================

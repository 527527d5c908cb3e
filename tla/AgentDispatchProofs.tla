------------------------ MODULE AgentDispatchProofs ------------------------
(***************************************************************************)
(* AgentDispatch for every set of agents, companies and calls: type        *)
(* correctness, that no wakeup of the ACD thread is lost, where ghosts     *)
(* come from, that the rows of dnuser are the agents of m_DNmap, also      *)
(* across a restart, that an agent who rings has a call, that an agent     *)
(* gets one call at a time, and that calls are served as AcdService says.  *)
(* Each invariant has one lemma per thread and one step per action.        *)
(***************************************************************************)
EXTENDS AgentDispatch, SequenceTheorems, TLAPS

USE DEF NoDN, End

\* Setting the status of an entry keeps the map and the entries it has.
LEMMA SetStatusType ==
    ASSUME NEW map \in [Key -> DNuser \cup {NoUser}], NEW k \in Key,
           map[k] # NoUser, NEW s \in Status
    PROVE  /\ SetStatus(map, k, s) \in [Key -> DNuser \cup {NoUser}]
           /\ \A j \in Key : SetStatus(map, k, s)[j] = NoUser <=> map[j] = NoUser
  BY NoUserAssumption DEF SetStatus, DNuser

\* ManagerDN::startServer leaves a well-typed state: an empty map and the rows
\* that sqlite returns.
LEMMA TypeInit == Init => TypeOK
<1> SUFFICES ASSUME Init PROVE TypeOK
  OBVIOUS
<1>1. TableType
  BY StoredAssumption DEF Init, TableType
<1>2. WsType
  BY DEF Init, WsType, Key
<1>3. EvType
  BY DEF Init, EvType, Key
<1>4. AcdType
  BY DEF Init, AcdType, Unbound, Ghost, DNuser, Key, Status
<1>5. CallType
  BY DEF Init, CallType, Key
<1>6. HistType
  BY DEF Init, HistType, Writer
<1> QED
  BY <1>1, <1>2, <1>3, <1>4, <1>5, <1>6 DEF TypeOK

\* No request of the WebSocket thread (login, logout, changestate, reset), at any
\* of its steps, breaks the types or erases the entry a later step refers to.
LEMMA TypeWs == TypeOK /\ WsThread => TypeOK'
<1> SUFFICES ASSUME TypeOK, WsThread PROVE TypeOK'
  OBVIOUS
<1> TableType /\ WsType /\ EvType /\ AcdType /\ CallType /\ HistType
  BY DEF TypeOK
<1> USE DEF tableVars, wsVars, evVars, acdVars, callVars, histVars
<1>1. ASSUME NEW d \in DN, SigninNew(d) PROVE TypeOK'
  <2>1. TableType'
    BY <1>1
       DEF SigninNew, TableType, Signal
  <2>2. WsType'
    BY <1>1
       DEF SigninNew, WsType, Request, Key
  <2>3. HistType'
    BY <1>1
       DEF SigninNew, HistType, Request
  <2>4. EvType' /\ AcdType' /\ CallType'
    BY <1>1
       DEF SigninNew, EvType, AcdType, CallType
  <2> QED
    BY <2>1, <2>2, <2>3, <2>4 DEF TypeOK
<1>2. ASSUME SigninInsert PROVE TypeOK'
  <2>1. TableType'
    BY <1>2, RouteAssumption
       DEF SigninInsert, TableType, DNuser, Status, WsType, Key
  <2>2. WsType'
    BY <1>2
       DEF SigninInsert, WsType
  <2>3. HistType'
    BY <1>2
       DEF SigninInsert, HistType, WsType, Writer, AtPhone
  <2>4. EvType' /\ AcdType' /\ CallType'
    BY <1>2
       DEF SigninInsert, EvType, AcdType, CallType
  <2> QED
    BY <2>1, <2>2, <2>3, <2>4 DEF TypeOK
<1>3. ASSUME SigninRow PROVE TypeOK'
  <2>1. TableType'
    BY <1>3, RouteAssumption
       DEF SigninRow, TableType, InsertTable, Row, WsType
  <2>2. WsType'
    BY <1>3
       DEF SigninRow, WsType, Key
  <2>3. EvType' /\ AcdType' /\ CallType' /\ HistType'
    BY <1>3
       DEF SigninRow, EvType, AcdType, CallType, HistType
  <2> QED
    BY <2>1, <2>2, <2>3 DEF TypeOK
<1>4. ASSUME NEW d \in DN, NEW w \in Writer, MakeReadySilently(d, w) PROVE TypeOK'
  <2>1. TableType'
    BY <1>4, SetStatusType
       DEF MakeReadySilently, TableType, Entry, Status, Key
  <2>2. WsType'
    BY <1>4
       DEF MakeReadySilently, WsType, Request
  <2>3. HistType'
    BY <1>4
       DEF MakeReadySilently, HistType, Request, Key, AtPhone
  <2>4. EvType' /\ AcdType' /\ CallType'
    BY <1>4
       DEF MakeReadySilently, EvType, AcdType, CallType
  <2> QED
    BY <2>1, <2>2, <2>3, <2>4 DEF TypeOK
<1>5. ASSUME NEW d \in DN, SignoutDelete(d) PROVE TypeOK'
  <2>1. TableType'
    BY <1>5
       DEF SignoutDelete, TableType, DeleteTable
  <2>2. WsType'
    BY <1>5
       DEF SignoutDelete, WsType, Key
  <2>3. HistType'
    BY <1>5
       DEF SignoutDelete, CrossIf, HistType, Request, AtPhone
  <2>4. EvType' /\ AcdType' /\ CallType'
    BY <1>5
       DEF SignoutDelete, EvType, AcdType, CallType
  <2> QED
    BY <2>1, <2>2, <2>3, <2>4 DEF TypeOK
<1>6. ASSUME SignoutErase PROVE TypeOK'
  <2>1. TableType'
    BY <1>6
       DEF SignoutErase, TableType
  <2>2. WsType'
    BY <1>6
       DEF SignoutErase, WsType, Key
  <2>3. EvType' /\ AcdType' /\ CallType' /\ HistType'
    BY <1>6
       DEF SignoutErase, EvType, AcdType, CallType, HistType
  <2> QED
    BY <2>1, <2>2, <2>3 DEF TypeOK
<1>7. ASSUME NEW d \in DN, NEW s \in Status, SetDNstatus(d, s) PROVE TypeOK'
  <2>1. TableType'
    BY <1>7, SetStatusType
       DEF SetDNstatus, TableType, Registered, Entry, Key
  <2>2. WsType'
    BY <1>7, SetStatusType
       DEF SetDNstatus, WsType, TableType, Registered, Entry, Key
  <2>3. HistType'
    BY <1>7
       DEF SetDNstatus, HistType, Request, Key, Writer, AtPhone
  <2>4. EvType' /\ AcdType' /\ CallType'
    BY <1>7
       DEF SetDNstatus, EvType, AcdType, CallType
  <2> QED
    BY <2>1, <2>2, <2>3, <2>4 DEF TypeOK
<1>8. ASSUME SetDNstatusSignal PROVE TypeOK'
  <2>1. TableType'
    BY <1>8
       DEF SetDNstatusSignal, TableType, Signal
  <2>2. WsType'
    BY <1>8
       DEF SetDNstatusSignal, WsType, Entry
  <2>3. EvType' /\ AcdType' /\ CallType' /\ HistType'
    BY <1>8
       DEF SetDNstatusSignal, EvType, AcdType, CallType, HistType
  <2> QED
    BY <2>1, <2>2, <2>3 DEF TypeOK
<1>9. ASSUME SetDNstatusDelete PROVE TypeOK'
  <2>1. TableType'
    BY <1>9
       DEF SetDNstatusDelete, TableType, DeleteTable
  <2>2. WsType'
    BY <1>9
       DEF SetDNstatusDelete, WsType, Entry
  <2>3. EvType' /\ AcdType' /\ CallType' /\ HistType'
    BY <1>9
       DEF SetDNstatusDelete, EvType, AcdType, CallType, HistType
  <2> QED
    BY <2>1, <2>2, <2>3 DEF TypeOK
<1>10. ASSUME SetDNstatusInsert PROVE TypeOK'
  <2>1. TableType'
    BY <1>10
       DEF SetDNstatusInsert, TableType, InsertTable, WsType, Entry, Row, DNuser, Key
  <2>2. WsType'
    BY <1>10
       DEF SetDNstatusInsert, WsType, Key
  <2>3. EvType' /\ AcdType' /\ CallType' /\ HistType'
    BY <1>10
       DEF SetDNstatusInsert, EvType, AcdType, CallType, HistType
  <2> QED
    BY <2>1, <2>2, <2>3 DEF TypeOK
<1>11. "relogin" \in Writer /\ "reset" \in Writer
  BY DEF Writer
<1> QED
  BY <1>1, <1>2, <1>3, <1>4, <1>5, <1>6, <1>7, <1>8, <1>9, <1>10, <1>11
     DEF WsThread, SigninAgain, ResetDNinfo

\* The same for ACDqueue::run: the scans, the wait and inline_TransformAgent, the
\* ghosts that operator[] makes included.
LEMMA TypeAcd == TypeOK /\ AcdThread => TypeOK'
<1> SUFFICES ASSUME TypeOK, AcdThread PROVE TypeOK'
  OBVIOUS
<1> TableType /\ WsType /\ EvType /\ AcdType /\ CallType /\ HistType
  BY DEF TypeOK
<1> USE DEF tableVars, wsVars, evVars, acdVars, callVars, histVars
<1>1. ASSUME NEW c \in Call, Get(c) PROVE TypeOK'
  <2>1. AcdType'
    BY <1>1, RuleAssumption, CallAssumption
       DEF Get, AcdType, First, Keys, Key, Transferring
  <2>2. CallType'
    BY <1>1
       DEF Get, CallType
  <2>3. HistType'
    BY <1>1
       DEF Get, CrossIf, HistType, WsType, AtPhone
  <2>4. WsType'
    BY <1>1
       DEF Get, WsType, Entry
  <2>5. TableType' /\ EvType'
    BY <1>1
       DEF Get, TableType, EvType
  <2> QED
    BY <2>1, <2>2, <2>3, <2>4, <2>5 DEF TypeOK
<1>2. ASSUME ScanReturn PROVE TypeOK'
  <2>1. AcdType'
    BY <1>2
       DEF ScanReturn, AcdType, Key, Transferring
  <2>2. WsType'
    BY <1>2
       DEF ScanReturn, WsType, Entry
  <2>3. TableType' /\ EvType' /\ CallType' /\ HistType'
    BY <1>2
       DEF ScanReturn, TableType, EvType, CallType, HistType
  <2> QED
    BY <2>1, <2>2, <2>3 DEF TypeOK
<1>3. ASSUME ScanMatch PROVE TypeOK'
  <2>1. AcdType'
    BY <1>3
       DEF ScanMatch, Advance, AcdType, Successors, First, KeysAfter, Keys, Transferring
  <2>2. HistType'
    BY <1>3
       DEF ScanMatch, Advance, CrossIf, HistType, WsType, AtPhone
  <2>3. WsType'
    BY <1>3
       DEF ScanMatch, Advance, WsType, Entry
  <2>4. TableType' /\ EvType' /\ CallType'
    BY <1>3
       DEF ScanMatch, Advance, TableType, EvType, CallType
  <2> QED
    BY <2>1, <2>2, <2>3, <2>4 DEF TypeOK
<1>4. ASSUME ScanMiss PROVE TypeOK'
  <2>1. AcdType'
    BY <1>4
       DEF ScanMiss, Advance, AcdType, Successors, First, KeysAfter, Keys, Transferring
  <2>2. HistType'
    BY <1>4
       DEF ScanMiss, Advance, CrossIf, HistType, WsType, AtPhone
  <2>3. WsType'
    BY <1>4
       DEF ScanMiss, Advance, WsType, Entry
  <2>4. TableType' /\ EvType' /\ CallType'
    BY <1>4
       DEF ScanMiss, Advance, TableType, EvType, CallType
  <2> QED
    BY <2>1, <2>2, <2>3, <2>4 DEF TypeOK
<1>5. ASSUME ScanChoose PROVE TypeOK'
  <2>1. AcdType'
    BY <1>5
       DEF ScanChoose, AcdType, Key, Transferring
  <2>2. WsType'
    BY <1>5
       DEF ScanChoose, WsType, Entry
  <2>3. TableType' /\ EvType' /\ CallType' /\ HistType'
    BY <1>5
       DEF ScanChoose, TableType, EvType, CallType, HistType
  <2> QED
    BY <2>1, <2>2, <2>3 DEF TypeOK
<1>6. ASSUME ScanNone PROVE TypeOK'
  <2>1. AcdType'
    BY <1>6
       DEF ScanNone, AcdType, Transferring
  <2>2. WsType'
    BY <1>6
       DEF ScanNone, WsType, Entry
  <2>3. TableType' /\ EvType' /\ CallType' /\ HistType'
    BY <1>6
       DEF ScanNone, TableType, EvType, CallType, HistType
  <2> QED
    BY <2>1, <2>2, <2>3 DEF TypeOK
<1>7. ASSUME Wait PROVE TypeOK'
  <2>1. TableType'
    BY <1>7
       DEF Wait, TableType
  <2>2. AcdType'
    BY <1>7
       DEF Wait, AcdType, First, Keys, Transferring
  <2>3. HistType'
    BY <1>7
       DEF Wait, CrossIf, HistType, WsType, AtPhone
  <2>4. WsType'
    BY <1>7
       DEF Wait, WsType, Entry
  <2>5. EvType' /\ CallType'
    BY <1>7
       DEF Wait, EvType, CallType
  <2> QED
    BY <2>1, <2>2, <2>3, <2>4, <2>5 DEF TypeOK
<1>8. ASSUME TransformRing PROVE TypeOK'
  <2>1. TableType'
    <3>1. CASE Entry(acdDn)
      BY <1>8, <3>1, SetStatusType DEF TransformRing, TableType, Entry, AcdType, Status
    <3>2. CASE ~Entry(acdDn)
      <4>1. PICK g \in Company \cup {NoCompany} :
               m_DNmap' = [m_DNmap EXCEPT ![acdDn] = Ghost(g, "ringing")]
        BY <1>8, <3>2 DEF TransformRing
      <4>2. Ghost(g, "ringing") \in DNuser
        BY DEF Ghost, DNuser, Status, Key
      <4> QED
        BY <1>8, <4>1, <4>2 DEF TransformRing, TableType
    <3> QED
      BY <3>1, <3>2
  <2>2. WsType'
    <3>1. \A k \in Key : Entry(k) => Entry(k)'
      <4>1. CASE Entry(acdDn)
        BY <1>8, <4>1, SetStatusType DEF TransformRing, TableType, Entry, AcdType, Status
      <4>2. CASE ~Entry(acdDn)
        BY <1>8, <4>2 DEF TransformRing, TableType, Entry
      <4> QED
        BY <4>1, <4>2
    <3> QED
      BY <1>8, <3>1 DEF TransformRing, WsType
  <2>3. AcdType'
    BY <1>8
       DEF TransformRing, AcdType, Transferring
  <2>4. HistType'
    BY <1>8
       DEF TransformRing, HistType, AcdType, Writer
  <2>5. EvType' /\ CallType'
    BY <1>8
       DEF TransformRing, EvType, CallType
  <2> QED
    BY <2>1, <2>2, <2>3, <2>4, <2>5 DEF TypeOK
<1>9. ASSUME TransformDelete PROVE TypeOK'
  <2>1. TableType'
    BY <1>9
       DEF TransformDelete, TableType, Entry, AcdType, Ghost, DNuser, DeleteTable, Key
  <2>2. WsType'
    BY <1>9, NoUserAssumption
       DEF TransformDelete, WsType, TableType, AcdType, Entry, Ghost, DNuser, Key
  <2>3. AcdType'
    BY <1>9
       DEF TransformDelete, AcdType, TableType, Entry, Ghost, DNuser, Key, Transferring
  <2>4. HistType'
    BY <1>9
       DEF TransformDelete, HistType, AcdType, Writer, AtPhone
  <2>5. EvType' /\ CallType'
    BY <1>9
       DEF TransformDelete, EvType, CallType
  <2> QED
    BY <2>1, <2>2, <2>3, <2>4, <2>5 DEF TypeOK
<1>10. ASSUME TransformInsert PROVE TypeOK'
  <2>1. TableType'
    BY <1>10
       DEF TransformInsert, TableType, InsertTable, AcdType, Row, DNuser
  <2>2. AcdType'
    BY <1>10
       DEF TransformInsert, AcdType, Transferring
  <2>3. WsType'
    BY <1>10
       DEF TransformInsert, WsType, Entry
  <2>4. EvType' /\ CallType' /\ HistType'
    BY <1>10
       DEF TransformInsert, EvType, CallType, HistType
  <2> QED
    BY <2>1, <2>2, <2>3, <2>4 DEF TypeOK
<1>11. ASSUME BridgeOk PROVE TypeOK'
  <2>1. AcdType'
    BY <1>11
       DEF BridgeOk, AcdType, NextSession, Unbound, Ghost, DNuser, Status, Key
  <2>2. CallType'
    BY <1>11
       DEF BridgeOk, CallType, AcdType
  <2>3. WsType'
    BY <1>11
       DEF BridgeOk, WsType, Entry
  <2>4. TableType' /\ EvType' /\ HistType'
    BY <1>11
       DEF BridgeOk, TableType, EvType, HistType
  <2> QED
    BY <2>1, <2>2, <2>3, <2>4 DEF TypeOK
<1>12. ASSUME BridgeFails PROVE TypeOK'
  <2>1. AcdType'
    BY <1>12
       DEF BridgeFails, AcdType, NextSession, Unbound, Ghost, DNuser, Status, Key
  <2>2. CallType'
    BY <1>12
       DEF BridgeFails, CallType, AcdType
  <2>3. HistType'
    BY <1>12
       DEF BridgeFails, HistType, AcdType, Writer
  <2>4. WsType'
    BY <1>12
       DEF BridgeFails, WsType, Entry
  <2>5. TableType' /\ EvType'
    BY <1>12
       DEF BridgeFails, TableType, EvType
  <2> QED
    BY <2>1, <2>2, <2>3, <2>4, <2>5 DEF TypeOK
<1> QED
  BY <1>1, <1>2, <1>3, <1>4, <1>5, <1>6, <1>7, <1>8, <1>9, <1>10, <1>11, <1>12
     DEF AcdThread

\* The same for process_event on CHANNEL_ANSWER and CHANNEL_DESTROY.
LEMMA TypeEv == TypeOK /\ EvThread => TypeOK'
<1> SUFFICES ASSUME TypeOK, EvThread PROVE TypeOK'
  OBVIOUS
<1> TableType /\ WsType /\ EvType /\ AcdType /\ CallType /\ HistType
  BY DEF TypeOK
<1> USE DEF tableVars, wsVars, evVars, acdVars, callVars, histVars
<1>1. ASSUME NEW c \in Call, ChannelAnswer(c) PROVE TypeOK'
  <2>1. TableType'
    BY <1>1, SetStatusType
       DEF ChannelAnswer, TableType, CallType, Entry, Status
  <2>2. WsType'
    <3>1. "talking" \in Status
      BY DEF Status
    <3>2. \A k \in Key : Entry(k)' <=> Entry(k)
      <4>1. legOf[c] \in Key
        BY DEF CallType
      <4>2. CASE Entry(legOf[c])
        <5>1. m_DNmap' = SetStatus(m_DNmap, legOf[c], "talking")
          BY <1>1, <4>2 DEF ChannelAnswer
        <5> QED
          BY <3>1, <4>1, <4>2, <5>1, SetStatusType DEF TableType, Entry
      <4>3. CASE ~Entry(legOf[c])
        BY <1>1, <4>3 DEF ChannelAnswer, Entry
      <4> QED
        BY <4>2, <4>3
    <3> QED
      BY <1>1, <3>2 DEF ChannelAnswer, WsType
  <2>3. CallType'
    BY <1>1
       DEF ChannelAnswer, CallType, TakeEvent
  <2>4. HistType'
    BY <1>1
       DEF ChannelAnswer, HistType, CallType, Writer
  <2>5. EvType' /\ AcdType'
    BY <1>1
       DEF ChannelAnswer, EvType, AcdType
  <2> QED
    BY <2>1, <2>2, <2>3, <2>4, <2>5 DEF TypeOK
<1>2. ASSUME NEW c \in Call, ChannelDestroy(c) PROVE TypeOK'
  <2>1. TableType'
    BY <1>2, SetStatusType
       DEF ChannelDestroy, TableType, CallType, Entry, Status
  <2>2. WsType'
    BY <1>2, SetStatusType
       DEF ChannelDestroy, WsType, TableType, CallType, Entry, Status
  <2>3. EvType'
    BY <1>2
       DEF ChannelDestroy, EvType, CallType
  <2>4. CallType'
    BY <1>2
       DEF ChannelDestroy, CallType, TakeEvent
  <2>5. HistType'
    BY <1>2
       DEF ChannelDestroy, HistType, CallType, Writer, AtPhone
  <2>6. AcdType'
    BY <1>2
       DEF ChannelDestroy, AcdType
  <2> QED
    BY <2>1, <2>2, <2>3, <2>4, <2>5, <2>6 DEF TypeOK
<1>3. ASSUME DestroySignal PROVE TypeOK'
  <2>1. TableType'
    BY <1>3
       DEF DestroySignal, TableType, Signal
  <2>2. WsType'
    BY <1>3
       DEF DestroySignal, WsType, Entry
  <2>3. EvType' /\ AcdType' /\ CallType' /\ HistType'
    BY <1>3
       DEF DestroySignal, EvType, AcdType, CallType, HistType
  <2> QED
    BY <2>1, <2>2, <2>3 DEF TypeOK
<1>4. ASSUME DestroySignalAgain PROVE TypeOK'
  <2>1. TableType'
    BY <1>4
       DEF DestroySignalAgain, TableType, Signal
  <2>2. EvType'
    BY <1>4
       DEF DestroySignalAgain, EvType, Key
  <2>3. WsType'
    BY <1>4
       DEF DestroySignalAgain, WsType, Entry
  <2>4. AcdType' /\ CallType' /\ HistType'
    BY <1>4
       DEF DestroySignalAgain, AcdType, CallType, HistType
  <2> QED
    BY <2>1, <2>2, <2>3, <2>4 DEF TypeOK
<1>5. ASSUME NEW c \in Call, MissEvent(c) PROVE TypeOK'
  <2>1. TableType' /\ WsType' /\ EvType' /\ AcdType'
    BY <1>5 DEF MissEvent, TableType, WsType, EvType, AcdType, Entry
  <2>2. CallType'
    BY <1>5 DEF MissEvent, CallType, TakeEvent
  <2>3. HistType'
    BY <1>5 DEF MissEvent, HistType, CallType
  <2> QED
    BY <2>1, <2>2, <2>3 DEF TypeOK
<1> QED
  BY <1>1, <1>2, <1>3, <1>4, <1>5
     DEF EvThread

\* The same for callers and FreeSWITCH, who change the queue and the legs only.
LEMMA TypeCallers == TypeOK /\ Callers => TypeOK'
<1> SUFFICES ASSUME TypeOK, Callers PROVE TypeOK'
  OBVIOUS
<1> TableType /\ WsType /\ EvType /\ AcdType /\ CallType /\ HistType
  BY DEF TypeOK
<1> USE DEF tableVars, wsVars, evVars, acdVars, callVars, histVars
<1>1. ASSUME NEW c \in Call, TransformAgent(c) PROVE TypeOK'
  <2>1. CallType'
    BY <1>1
       DEF TransformAgent, CallType
  <2>2. WsType'
    BY <1>1
       DEF TransformAgent, WsType, Entry
  <2>3. TableType' /\ EvType' /\ AcdType' /\ HistType'
    BY <1>1
       DEF TransformAgent, TableType, EvType, AcdType, HistType
  <2> QED
    BY <2>1, <2>2, <2>3 DEF TypeOK
<1>2. ASSUME NEW c \in Call, CallerHangsUp(c) PROVE TypeOK'
  <2>1. CallType'
    BY <1>2
       DEF CallerHangsUp, CallType
  <2>2. WsType'
    BY <1>2
       DEF CallerHangsUp, WsType, Entry
  <2>3. TableType' /\ EvType' /\ AcdType' /\ HistType'
    BY <1>2
       DEF CallerHangsUp, TableType, EvType, AcdType, HistType
  <2> QED
    BY <2>1, <2>2, <2>3 DEF TypeOK
<1>3. ASSUME NEW c \in Call, LegAnswered(c) PROVE TypeOK'
  <2>1. CallType'
    BY <1>3
       DEF LegAnswered, CallType
  <2>2. WsType'
    BY <1>3
       DEF LegAnswered, WsType, Entry
  <2>3. TableType' /\ EvType' /\ AcdType' /\ HistType'
    BY <1>3
       DEF LegAnswered, TableType, EvType, AcdType, HistType
  <2> QED
    BY <2>1, <2>2, <2>3 DEF TypeOK
<1>4. ASSUME NEW c \in Call, LegEnds(c) PROVE TypeOK'
  <2>1. CallType'
    BY <1>4
       DEF LegEnds, CallType
  <2>2. WsType'
    BY <1>4
       DEF LegEnds, WsType, Entry
  <2>3. TableType' /\ EvType' /\ AcdType' /\ HistType'
    BY <1>4
       DEF LegEnds, TableType, EvType, AcdType, HistType
  <2> QED
    BY <2>1, <2>2, <2>3 DEF TypeOK
<1>5. ASSUME NEW c \in Call, NEW d \in DN, DirectCall(c, d) PROVE TypeOK'
  <2>1. CallType'
    BY <1>5
       DEF DirectCall, CallType, Key
  <2>2. WsType'
    BY <1>5
       DEF DirectCall, WsType, Entry
  <2>3. TableType' /\ EvType' /\ AcdType' /\ HistType'
    BY <1>5
       DEF DirectCall, TableType, EvType, AcdType, HistType
  <2> QED
    BY <2>1, <2>2, <2>3 DEF TypeOK
<1> QED
  BY <1>1, <1>2, <1>3, <1>4, <1>5
     DEF Callers

\* The same for a crash and for LoadDNSet, which rebuilds the map from the rows.
LEMMA TypeRecovery == TypeOK /\ Recovery => TypeOK'
<1> SUFFICES ASSUME TypeOK, Recovery PROVE TypeOK'
  OBVIOUS
<1> TableType /\ WsType /\ EvType /\ AcdType /\ CallType /\ HistType
  BY DEF TypeOK
<1> USE DEF tableVars, wsVars, evVars, acdVars, callVars, histVars
<1>1. ASSUME Restart PROVE TypeOK'
  <2>1. TableType'
    BY <1>1
       DEF Restart, TableType
  <2>2. WsType'
    BY <1>1
       DEF Restart, WsType, Key
  <2>3. EvType'
    BY <1>1
       DEF Restart, EvType, Key
  <2>4. AcdType'
    BY <1>1
       DEF Restart, AcdType, NextSession, Unbound, Ghost, DNuser, Status, Key
  <2>5. CallType'
    BY <1>1
       DEF Restart, CallType
  <2>6. HistType'
    <3>1. crossed' \in SUBSET DN /\ forced' \in SUBSET Call /\ unheard' \in SUBSET Key
      BY <1>1 DEF Restart, HistType
    <3>2. requests' \in Nat /\ restarts' \in Nat /\ writer' \in [Key -> Writer]
      BY <1>1 DEF Restart, HistType
    <3> QED
      BY <1>1, <3>1, <3>2 DEF Restart, HistType
  <2> QED
    BY <2>1, <2>2, <2>3, <2>4, <2>5, <2>6 DEF TypeOK
<1>2. ASSUME NEW r \in loading, LoadDNSet(r) PROVE TypeOK'
  <2>1. TableType'
    BY <1>2
       DEF LoadDNSet, TableType, Signal, Row, DNuser, Status
  <2>2. WsType'
    BY <1>2, NoUserAssumption
       DEF LoadDNSet, WsType, TableType, Entry, Row, DNuser, Status
  <2>3. HistType'
    BY <1>2
       DEF LoadDNSet, HistType, TableType, Row, Writer, AtPhone
  <2>4. EvType' /\ AcdType' /\ CallType'
    BY <1>2
       DEF LoadDNSet, EvType, AcdType, CallType
  <2> QED
    BY <2>1, <2>2, <2>3, <2>4 DEF TypeOK
<1> QED
  BY <1>1, <1>2
     DEF Recovery

\* TypeOK is inductive: it needs no strengthening.
LEMMA TypeNext == TypeOK /\ [Next]_vars => TypeOK'
<1> SUFFICES ASSUME TypeOK, [Next]_vars PROVE TypeOK'
  OBVIOUS
<1>1. CASE Next
  BY <1>1, TypeWs, TypeAcd, TypeEv, TypeCallers, TypeRecovery DEF Next
<1>2. CASE UNCHANGED vars
  BY <1>2 DEF TypeOK, TableType, WsType, EvType, AcdType, CallType, HistType, Entry,
              vars, tableVars, wsVars, evVars, acdVars, callVars, histVars
<1> QED
  BY <1>1, <1>2

\* In every behaviour the table, the threads' locals and the calls keep their
\* types, and the entry SetDNstatus holds a reference to is never erased under it.
THEOREM TypeCorrect == Spec => []TypeOK
  BY TypeInit, TypeNext, PTL DEF Spec

----------------------------------------------------------------------------
(* No wakeup of the acd thread is lost *)

\* At the start the ACD thread is in priorityqueue::get and has passed no key.
LEMMA WakeupInit == Init => WakeupInv
  BY DEF Init, WakeupInv

\* A step that leaves the acd thread alone keeps WakeupInv when every agent it
\* announces is either owed a signal afterwards, or was announced before and has
\* lost no signal.
LEMMA WakeupFrame ==
    ASSUME WakeupInv, UNCHANGED acdVars,
           \A k \in Key : Announced(k)' =>
              SignalDue(k)' \/ (Announced(k) /\ (SignalDue(k) => SignalDue(k)'))
    PROVE  WakeupInv'
  BY DEF WakeupInv, acdVars, Passed

\* Signin and SetDNstatus announce an agent only with a signal given or due; what
\* they do to other agents cannot hide one from the scan.
LEMMA WakeupWs == TypeOK /\ WakeupInv /\ WsThread => WakeupInv'
<1> SUFFICES ASSUME TypeOK, WakeupInv, WsThread PROVE WakeupInv'
  OBVIOUS
<1> TableType /\ WsType /\ HistType
  BY DEF TypeOK
<1> USE DEF tableVars, wsVars, evVars, acdVars, callVars, histVars
<1>1. ASSUME NEW d \in DN, SigninNew(d) PROVE WakeupInv'
  <2>1. \A k \in Key : SignalDue(k)'
    BY <1>1 DEF SigninNew, Signal, SignalDue, TableType
  <2> QED
    BY <1>1, <2>1, WakeupFrame DEF SigninNew
<1>2. ASSUME SigninInsert PROVE WakeupInv'
  <2>1. \A k \in Key : Announced(k)' =>
           SignalDue(k)' \/ (Announced(k) /\ (SignalDue(k) => SignalDue(k)'))
    BY <1>2 DEF SigninInsert, Announced, Candidate, Ready, Entry, Signalling, SignalDue,
                TableType, HistType, WsType
  <2> QED
    BY <1>2, <2>1, WakeupFrame DEF SigninInsert
<1>3. ASSUME SigninRow PROVE WakeupInv'
  <2>1. \A k \in Key : (Announced(k)' <=> Announced(k)) /\ (SignalDue(k)' <=> SignalDue(k))
    BY <1>3 DEF SigninRow, Announced, Candidate, Ready, Entry, SignalDue
  <2> QED
    BY <1>3, <2>1, WakeupFrame DEF SigninRow
<1>4. ASSUME NEW d \in DN, NEW w \in Writer \ Signalling, MakeReadySilently(d, w)
      PROVE WakeupInv'
  <2>1. \A k \in Key : Announced(k)' => Announced(k)
    BY <1>4 DEF MakeReadySilently, SetStatus, Announced, Candidate, Ready, Entry,
                HistType, TableType
  <2>2. \A k \in Key : SignalDue(k)' <=> SignalDue(k)
    BY <1>4 DEF MakeReadySilently, SignalDue
  <2> QED
    BY <1>4, <2>1, <2>2, WakeupFrame DEF MakeReadySilently
<1>5. ASSUME NEW d \in DN, SignoutDelete(d) PROVE WakeupInv'
  <2>1. \A k \in Key : (Announced(k)' <=> Announced(k)) /\ (SignalDue(k)' <=> SignalDue(k))
    BY <1>5 DEF SignoutDelete, Request, Announced, Candidate, Ready, Entry, SignalDue
  <2> QED
    BY <1>5, <2>1, WakeupFrame DEF SignoutDelete
<1>6. ASSUME SignoutErase PROVE WakeupInv'
  <2>1. \A k \in Key : Announced(k)' => Announced(k)
    BY <1>6 DEF SignoutErase, Announced, Candidate, Ready, Entry, TableType
  <2>2. \A k \in Key : SignalDue(k) => SignalDue(k)'
    BY <1>6 DEF SignoutErase, SignalDue
  <2> QED
    BY <1>6, <2>1, <2>2, WakeupFrame DEF SignoutErase
<1>7. ASSUME NEW d \in DN, NEW s \in Status, SetDNstatus(d, s) PROVE WakeupInv'
  <2>1. \A k \in Key : SignalDue(k) => SignalDue(k)'
    BY <1>7 DEF SetDNstatus, Request, SignalDue
  <2>2. \A k \in Key \ {d} : Announced(k)' => Announced(k)
    BY <1>7 DEF SetDNstatus, SetStatus, Announced, Candidate, Ready, Entry, TableType,
                HistType
  <2>3. Announced(d)' => SignalDue(d)'
    BY <1>7 DEF SetDNstatus, SetStatus, Announced, Candidate, Ready, Entry, SignalDue,
                TableType, Key
  <2> QED
    BY <1>7, <2>1, <2>2, <2>3, WakeupFrame DEF SetDNstatus
<1>8. ASSUME SetDNstatusSignal PROVE WakeupInv'
  <2>1. \A k \in Key : SignalDue(k)'
    BY <1>8 DEF SetDNstatusSignal, Signal, SignalDue, TableType
  <2> QED
    BY <1>8, <2>1, WakeupFrame DEF SetDNstatusSignal
<1>9. ASSUME SetDNstatusDelete PROVE WakeupInv'
  <2>1. \A k \in Key : (Announced(k)' <=> Announced(k)) /\ (SignalDue(k)' <=> SignalDue(k))
    BY <1>9 DEF SetDNstatusDelete, Announced, Candidate, Ready, Entry, SignalDue
  <2> QED
    BY <1>9, <2>1, WakeupFrame DEF SetDNstatusDelete
<1>10. ASSUME SetDNstatusInsert PROVE WakeupInv'
  <2>1. \A k \in Key : (Announced(k)' <=> Announced(k)) /\ (SignalDue(k)' <=> SignalDue(k))
    BY <1>10 DEF SetDNstatusInsert, Announced, Candidate, Ready, Entry, SignalDue
  <2> QED
    BY <1>10, <2>1, WakeupFrame DEF SetDNstatusInsert
<1>11. "relogin" \in Writer \ Signalling /\ "reset" \in Writer \ Signalling
  BY DEF Writer, Signalling
<1> QED
  BY <1>1, <1>2, <1>3, <1>4, <1>5, <1>6, <1>7, <1>8, <1>9, <1>10, <1>11
     DEF WsThread, SigninAgain, ResetDNinfo

\* CHANNEL_DESTROY announces an agent and owes the signal until SetagnetStatus has
\* given it.
LEMMA WakeupEv == TypeOK /\ WakeupInv /\ EvThread => WakeupInv'
<1> SUFFICES ASSUME TypeOK, WakeupInv, EvThread PROVE WakeupInv'
  OBVIOUS
<1> TableType /\ EvType /\ CallType /\ HistType
  BY DEF TypeOK
<1> USE DEF tableVars, wsVars, evVars, acdVars, callVars, histVars
<1>1. ASSUME NEW c \in Call, ChannelAnswer(c) PROVE WakeupInv'
  <2>1. \A k \in Key : Announced(k)' => Announced(k)
    BY <1>1 DEF ChannelAnswer, SetStatus, Announced, Candidate, Ready, Entry, Signalling,
                TableType, HistType, CallType
  <2>2. \A k \in Key : SignalDue(k) => SignalDue(k)'
    BY <1>1 DEF ChannelAnswer, SignalDue
  <2> QED
    BY <1>1, <2>1, <2>2, WakeupFrame DEF ChannelAnswer
<1>2. ASSUME NEW c \in Call, ChannelDestroy(c) PROVE WakeupInv'
  <2>1. \A k \in Key : SignalDue(k) => SignalDue(k)'
    BY <1>2 DEF ChannelDestroy, TakeEvent, SignalDue
  <2>2. \A k \in Key \ {legOf[c]} : Announced(k)' => Announced(k)
    BY <1>2 DEF ChannelDestroy, SetStatus, Announced, Candidate, Ready, Entry, TableType,
                HistType, CallType
  <2>3. CASE Entry(legOf[c])
    <3>1. SignalDue(legOf[c])'
      BY <1>2, <2>3 DEF ChannelDestroy, SignalDue
    <3> QED
      BY <1>2, <2>1, <2>2, <3>1, WakeupFrame DEF ChannelDestroy
  <2>4. CASE ~Entry(legOf[c])
    <3>1. \A k \in Key : Announced(k)' => Announced(k)
      BY <1>2, <2>4 DEF ChannelDestroy, Announced, Candidate, Ready, Entry
    <3> QED
      BY <1>2, <2>1, <3>1, WakeupFrame DEF ChannelDestroy
  <2> QED
    BY <2>3, <2>4
<1>3. ASSUME DestroySignal PROVE WakeupInv'
  <2>1. \A k \in Key : SignalDue(k)'
    BY <1>3 DEF DestroySignal, Signal, SignalDue, TableType
  <2> QED
    BY <1>3, <2>1, WakeupFrame DEF DestroySignal
<1>4. ASSUME DestroySignalAgain PROVE WakeupInv'
  <2>1. \A k \in Key : SignalDue(k)'
    BY <1>4 DEF DestroySignalAgain, Signal, SignalDue, TableType
  <2> QED
    BY <1>4, <2>1, WakeupFrame DEF DestroySignalAgain
<1>5. ASSUME NEW c \in Call, MissEvent(c) PROVE WakeupInv'
  <2>1. \A k \in Key : /\ Announced(k)' => Announced(k)
                       /\ SignalDue(k) => SignalDue(k)'
    BY <1>5 DEF MissEvent, Announced, Candidate, Ready, Entry, SignalDue
  <2> QED
    BY <1>5, <2>1, WakeupFrame DEF MissEvent
<1> QED
  BY <1>1, <1>2, <1>3, <1>4, <1>5
     DEF EvThread

\* Callers and FreeSWITCH change neither the table nor the scan.
LEMMA WakeupCallers == TypeOK /\ WakeupInv /\ Callers => WakeupInv'
<1> SUFFICES ASSUME TypeOK, WakeupInv, Callers PROVE WakeupInv'
  OBVIOUS
<1> TableType
  BY DEF TypeOK
<1> USE DEF tableVars, wsVars, evVars, acdVars, callVars, histVars
<1>1. ASSUME NEW c \in Call, TransformAgent(c) PROVE WakeupInv'
  <2>1. \A k \in Key : (Announced(k)' <=> Announced(k)) /\ (SignalDue(k)' <=> SignalDue(k))
    BY <1>1 DEF TransformAgent, Announced, Candidate, Ready, Entry, SignalDue
  <2> QED
    BY <1>1, <2>1, WakeupFrame DEF TransformAgent
<1>2. ASSUME NEW c \in Call, CallerHangsUp(c) PROVE WakeupInv'
  <2>1. \A k \in Key : (Announced(k)' <=> Announced(k)) /\ (SignalDue(k)' <=> SignalDue(k))
    BY <1>2 DEF CallerHangsUp, Announced, Candidate, Ready, Entry, SignalDue
  <2> QED
    BY <1>2, <2>1, WakeupFrame DEF CallerHangsUp
<1>3. ASSUME NEW c \in Call, LegAnswered(c) PROVE WakeupInv'
  <2>1. \A k \in Key : (Announced(k)' <=> Announced(k)) /\ (SignalDue(k)' <=> SignalDue(k))
    BY <1>3 DEF LegAnswered, Announced, Candidate, Ready, Entry, SignalDue
  <2> QED
    BY <1>3, <2>1, WakeupFrame DEF LegAnswered
<1>4. ASSUME NEW c \in Call, LegEnds(c) PROVE WakeupInv'
  <2>1. \A k \in Key : (Announced(k)' <=> Announced(k)) /\ (SignalDue(k)' <=> SignalDue(k))
    BY <1>4 DEF LegEnds, Announced, Candidate, Ready, Entry, SignalDue
  <2> QED
    BY <1>4, <2>1, WakeupFrame DEF LegEnds
<1>5. ASSUME NEW c \in Call, NEW d \in DN, DirectCall(c, d) PROVE WakeupInv'
  <2>1. \A k \in Key : (Announced(k)' <=> Announced(k)) /\ (SignalDue(k)' <=> SignalDue(k))
    BY <1>5 DEF DirectCall, Announced, Candidate, Ready, Entry, SignalDue
  <2> QED
    BY <1>5, <2>1, WakeupFrame DEF DirectCall
<1> QED
  BY <1>1, <1>2, <1>3, <1>4, <1>5
     DEF Callers

\* A crash sends the ACD thread back to get(); LoadDNSet signals with each row.
LEMMA WakeupRecovery == TypeOK /\ WakeupInv /\ Recovery => WakeupInv'
<1> SUFFICES ASSUME TypeOK, WakeupInv, Recovery PROVE WakeupInv'
  OBVIOUS
<1> TableType /\ AcdType
  BY DEF TypeOK
<1> USE DEF tableVars, wsVars, evVars, acdVars, callVars, histVars
<1>1. ASSUME Restart PROVE WakeupInv'
  BY <1>1 DEF Restart, NextSession, WakeupInv
<1>2. ASSUME NEW r \in loading, LoadDNSet(r) PROVE WakeupInv'
  <2>1. \A k \in Key : SignalDue(k)'
    BY <1>2 DEF LoadDNSet, Signal, SignalDue, TableType
  <2> QED
    BY <1>2, <2>1, WakeupFrame DEF LoadDNSet
<1> QED
  BY <1>1, <1>2
     DEF Recovery

\* The scan leaves a key behind only when it does not match or is remembered in
\* acdSeen, and the thread sleeps only with nothing remembered.
LEMMA WakeupAcd == TypeOK /\ WakeupInv /\ AcdThread => WakeupInv'
<1> SUFFICES ASSUME TypeOK, WakeupInv, AcdThread PROVE WakeupInv'
  OBVIOUS
<1> TableType /\ AcdType
  BY DEF TypeOK
<1> USE DEF tableVars, wsVars, evVars, acdVars, callVars, histVars
<1>1. ASSUME NEW c \in Call, Get(c) PROVE WakeupInv'
  <2>1. \A k \in Key : Entry(k)' => ~Passed(k)' \/ acdPc' = "ring"
    BY <1>1, DNAssumption DEF Get, First, Keys, Entry, Passed, Key
  <2> QED
    BY <1>1, <2>1 DEF Get, WakeupInv, Announced, Candidate, Ready
<1>2. ASSUME ScanReturn PROVE WakeupInv'
  BY <1>2 DEF ScanReturn, WakeupInv
<1>3. ASSUME ScanMatch PROVE WakeupInv'
  <2>1. CASE skipped'
    BY <1>3, <2>1 DEF ScanMatch, Advance, WakeupInv
  <2>2. CASE ~skipped'
    <3>1. Entry(acdAt) /\ ~skipped
      BY <1>3, <2>2 DEF ScanMatch, Advance
    <3>2. \A k \in Key : Entry(k) /\ Passed(k)' => Passed(k) \/ k = acdAt
      BY <1>3, <3>1, DNAssumption
         DEF ScanMatch, Advance, Successors, First, KeysAfter, Keys, Passed, Key, AcdType
    <3>3. \A k \in Key : (Announced(k)' <=> Announced(k)) /\ (SignalDue(k)' <=> SignalDue(k))
      BY <1>3 DEF ScanMatch, Advance, Announced, Candidate, Ready, Entry, SignalDue
    <3>4. \A k \in Key : Announced(k) => Entry(k)
      BY DEF Announced, Candidate, Ready
    <3> QED
      BY <1>3, <3>1, <3>2, <3>3, <3>4 DEF ScanMatch, Advance, WakeupInv
  <2> QED
    BY <2>1, <2>2
<1>4. ASSUME ScanMiss PROVE WakeupInv'
  <2>1. CASE skipped'
    BY <1>4, <2>1 DEF ScanMiss, Advance, WakeupInv
  <2>2. CASE ~skipped'
    <3>1. Entry(acdAt) /\ ~skipped /\ ~Announced(acdAt)
      BY <1>4, <2>2 DEF ScanMiss, Advance, MayMiss, Announced
    <3>2. \A k \in Key : Entry(k) /\ Passed(k)' => Passed(k) \/ k = acdAt
      BY <1>4, <3>1, DNAssumption
         DEF ScanMiss, Advance, Successors, First, KeysAfter, Keys, Passed, Key, AcdType
    <3>3. \A k \in Key : (Announced(k)' <=> Announced(k)) /\ (SignalDue(k)' <=> SignalDue(k))
      BY <1>4 DEF ScanMiss, Advance, Announced, Candidate, Ready, Entry, SignalDue
    <3>4. \A k \in Key : Announced(k) => Entry(k)
      BY DEF Announced, Candidate, Ready
    <3> QED
      BY <1>4, <3>1, <3>2, <3>3, <3>4 DEF ScanMiss, Advance, WakeupInv
  <2> QED
    BY <2>1, <2>2
<1>5. ASSUME ScanChoose PROVE WakeupInv'
  BY <1>5 DEF ScanChoose, WakeupInv
<1>6. ASSUME ScanNone PROVE WakeupInv'
  <2>1. \A k \in Key : (Announced(k)' <=> Announced(k)) /\ (SignalDue(k)' <=> SignalDue(k))
    BY <1>6 DEF ScanNone, Announced, Candidate, Ready, Entry, SignalDue
  <2> QED
    BY <1>6, <2>1 DEF ScanNone, WakeupInv, Passed
<1>7. ASSUME Wait PROVE WakeupInv'
  <2>1. \A k \in Key : Entry(k)' => ~Passed(k)'
    BY <1>7, DNAssumption DEF Wait, First, Keys, Entry, Passed, Key
  <2> QED
    BY <1>7, <2>1 DEF Wait, WakeupInv, Announced, Candidate, Ready
<1>8. ASSUME TransformRing PROVE WakeupInv'
  BY <1>8 DEF TransformRing, WakeupInv
<1>9. ASSUME TransformDelete PROVE WakeupInv'
  BY <1>9 DEF TransformDelete, WakeupInv
<1>10. ASSUME TransformInsert PROVE WakeupInv'
  BY <1>10 DEF TransformInsert, WakeupInv
<1>11. ASSUME BridgeOk PROVE WakeupInv'
  BY <1>11 DEF BridgeOk, NextSession, WakeupInv
<1>12. ASSUME BridgeFails PROVE WakeupInv'
  BY <1>12 DEF BridgeFails, NextSession, WakeupInv
<1> QED
  BY <1>1, <1>2, <1>3, <1>4, <1>5, <1>6, <1>7, <1>8, <1>9, <1>10, <1>11, <1>12
     DEF AcdThread

\* WakeupInv is inductive relative to TypeOK.
LEMMA WakeupNext == TypeOK /\ WakeupInv /\ [Next]_vars => WakeupInv'
<1> SUFFICES ASSUME TypeOK, WakeupInv, [Next]_vars PROVE WakeupInv'
  OBVIOUS
<1>1. CASE Next
  BY <1>1, WakeupWs, WakeupAcd, WakeupEv, WakeupCallers, WakeupRecovery DEF Next
<1>2. CASE UNCHANGED vars
  <2>1. \A k \in Key : (Announced(k)' <=> Announced(k)) /\ (SignalDue(k)' <=> SignalDue(k))
    BY <1>2 DEF vars, tableVars, wsVars, evVars, acdVars, histVars, Announced, Candidate,
                Ready, Entry, SignalDue
  <2> QED
    BY <1>2, <2>1, WakeupFrame DEF vars, acdVars
<1> QED
  BY <1>1, <1>2

\* GetavailableAgent never sleeps through an agent that was made ready with a
\* signal: the semaphore count is positive, or the signal is about to be given.
THEOREM WakeupsAreKept == Spec => []NoLostWakeup
<1>1. TypeOK /\ WakeupInv => NoLostWakeup
  BY DEF WakeupInv, NoLostWakeup, SignalDue, Passed, TypeOK, TableType
<1>2. Spec => []WakeupInv
  BY WakeupInit, WakeupNext, TypeCorrect, PTL DEF Spec
<1> QED
  BY <1>1, <1>2, TypeCorrect, PTL

----------------------------------------------------------------------------
(* A sign-out under the hands of the acd thread *)

Erasing(d) == wsPc = "erase" /\ wsDn = d

\* An entry the acd thread's iterator or choice refers to is there and stays, or the
\* agent counts as crossed: so operator[] makes ghosts of crossed agents only.
HeldInv ==
    /\ acdPc # "scan" => acdSeen = {}
    /\ \A d \in DN : AcdHolds(d) /\ (~Entry(d) \/ Erasing(d)) => d \in crossed
    /\ GhostOnlyFromSignout

\* m_DNmap keeps its keys, and each entry its DN: nobody signs in or out.
SameAgents ==
    \A k \in Key : /\ Entry(k)' <=> Entry(k)
                   /\ Entry(k) => m_DNmap'[k].m_DN = m_DNmap[k].m_DN

\* SetagnetStatus changes one field of one entry.
LEMMA StatusFacts ==
    ASSUME TableType, NEW k \in Key, Entry(k), NEW s \in Status,
           m_DNmap' = SetStatus(m_DNmap, k, s)
    PROVE  /\ SameAgents
           /\ \A j \in Key \ {k} : m_DNmap'[j] = m_DNmap[j]
           /\ Entry(k)' /\ m_DNmap'[k].m_agentstatus = s
<1>1. m_DNmap \in [Key -> DNuser \cup {NoUser}]
  BY DEF TableType
<1>2. \A j \in Key : Entry(j)' <=> Entry(j)
  BY <1>1, SetStatusType DEF Entry
<1>3. \A j \in Key \ {k} : m_DNmap'[j] = m_DNmap[j]
  BY <1>1 DEF SetStatus
<1>4. m_DNmap'[k] = [m_DN |-> m_DNmap[k].m_DN, m_commpanyid |-> m_DNmap[k].m_commpanyid,
                     m_agentstatus |-> s]
  BY <1>1 DEF SetStatus
<1>5. m_DNmap'[k].m_DN = m_DNmap[k].m_DN /\ m_DNmap'[k].m_agentstatus = s
  BY <1>4
<1> QED
  BY <1>2, <1>3, <1>5 DEF SameAgents

\* A map that stays what it is.
LEMMA SameFacts ==
    ASSUME m_DNmap' = m_DNmap
    PROVE  SameAgents /\ \A k \in Key : (Ready(k)' <=> Ready(k)) /\ (Registered(k)' <=> Registered(k))
  BY DEF SameAgents, Entry, Ready, Registered

\* With the same agents, the same are registered.
LEMMA SameRegistered ==
    ASSUME SameAgents, NEW k \in Key
    PROVE  (Entry(k)' <=> Entry(k)) /\ (Registered(k)' <=> Registered(k))
  BY DEF SameAgents, Registered

\* A step that is not the acd thread's, takes no entry away and starts no sign-out.
LEMMA HeldFrame ==
    ASSUME HeldInv, UNCHANGED <<acdPc, acdAt, acdSeen, acdDn>>, crossed \subseteq crossed',
           \A d \in DN : /\ Entry(d) => Entry(d)'
                         /\ Erasing(d)' => Erasing(d)
                         /\ Entry(d)' /\ ~Registered(d)' => Entry(d) /\ ~Registered(d)
    PROVE  HeldInv'
<1>1. \A d \in DN : AcdHolds(d)' <=> AcdHolds(d)
  BY DEF AcdHolds
<1> QED
  BY <1>1 DEF HeldInv, GhostOnlyFromSignout

\* Signin makes entries with a DN, SetDNstatus and ResetDNinfo keep it; Signout counts an
\* agent as crossed when the acd thread holds the entry.
LEMMA HeldWs == TypeOK /\ HeldInv /\ WsThread => HeldInv'
<1> SUFFICES ASSUME TypeOK, HeldInv, WsThread PROVE HeldInv'
  OBVIOUS
<1> TableType /\ WsType
  BY DEF TypeOK
<1> DN \subseteq Key
  BY DEF Key
<1> USE DEF tableVars, wsVars, evVars, acdVars, callVars, histVars
<1>1. ASSUME NEW d \in DN, SigninNew(d) PROVE HeldInv'
  <2>1. \A e \in DN : ~Erasing(e)' /\ (Entry(e)' <=> Entry(e)) /\ (Registered(e)' <=> Registered(e))
    BY <1>1 DEF SigninNew, Erasing, Entry, Registered
  <2> QED
    BY <1>1, <2>1, HeldFrame DEF SigninNew
<1>2. ASSUME SigninInsert PROVE HeldInv'
  <2>1. \A e \in DN : ~Erasing(e)'
    BY <1>2 DEF SigninInsert, Erasing
  <2>2. CASE Entry(wsDn)
    BY <1>2, <2>1, <2>2, SameFacts, HeldFrame DEF SigninInsert, SameAgents
  <2>3. CASE ~Entry(wsDn)
    <3>0. PICK w \in DN : w = wsDn
      BY <1>2 DEF SigninInsert, WsType
    <3>1. m_DNmap' = [m_DNmap EXCEPT ![w] =
                        [m_DN |-> w, m_commpanyid |-> RouteCompany[w], m_agentstatus |-> "ready"]]
      BY <1>2, <2>3, <3>0 DEF SigninInsert
    <3>2. m_DNmap'[w].m_DN = w /\ \A e \in DN \ {w} : m_DNmap'[e] = m_DNmap[e]
      BY <3>1 DEF TableType
    <3>3. ASSUME NEW e \in DN
          PROVE  /\ Entry(e) => Entry(e)'
                 /\ Entry(e)' /\ ~Registered(e)' => Entry(e) /\ ~Registered(e)
      <4>1. CASE e # w
        BY <3>2, <4>1 DEF Entry, Registered
      <4>2. CASE e = w
        <5>1. ~Entry(e)
          BY <2>3, <3>0, <4>2
        <5>2. Entry(e)' => Registered(e)'
          BY <3>2, <4>2 DEF Registered
        <5> QED
          BY <5>1, <5>2
      <4> QED
        BY <4>1, <4>2
    <3> QED
      BY <1>2, <2>1, <3>3, HeldFrame DEF SigninInsert
  <2> QED
    BY <2>2, <2>3
<1>3. ASSUME SigninRow \/ SetDNstatusSignal \/ SetDNstatusDelete \/ SetDNstatusInsert
      PROVE  HeldInv'
  <2>1. \A e \in DN : ~Erasing(e)'
    BY <1>3 DEF SigninRow, SetDNstatusSignal, SetDNstatusDelete, SetDNstatusInsert, Erasing
  <2>2. UNCHANGED <<m_DNmap, acdPc, acdAt, acdSeen, acdDn, crossed>>
    BY <1>3 DEF SigninRow, SetDNstatusSignal, SetDNstatusDelete, SetDNstatusInsert
  <2> QED
    BY <2>1, <2>2, SameFacts, HeldFrame DEF SameAgents
<1>4. ASSUME NEW d \in DN, NEW w, MakeReadySilently(d, w) PROVE HeldInv'
  <2>1. SameAgents
    BY <1>4, StatusFacts DEF MakeReadySilently, Status
  <2>2. \A e \in DN : ~Erasing(e)'
    BY <1>4 DEF MakeReadySilently, Request, Erasing
  <2> QED
    BY <1>4, <2>1, <2>2, SameRegistered, HeldFrame DEF MakeReadySilently
<1>5. ASSUME NEW d \in DN, SignoutDelete(d) PROVE HeldInv'
  <2>1. \A e \in DN : /\ Erasing(e)' <=> e = d
                      /\ AcdHolds(e)' <=> AcdHolds(e)
                      /\ (Entry(e)' <=> Entry(e)) /\ (Registered(e)' <=> Registered(e))
    BY <1>5 DEF SignoutDelete, Erasing, AcdHolds, Entry, Registered
  <2>2. crossed' = IF AcdHolds(d) THEN crossed \cup {d} ELSE crossed
    BY <1>5 DEF SignoutDelete, CrossIf
  <2>3. acdPc' = acdPc /\ acdSeen' = acdSeen
    BY <1>5 DEF SignoutDelete
  <2> QED
    BY <2>1, <2>2, <2>3 DEF HeldInv, GhostOnlyFromSignout
<1>6. ASSUME SignoutErase PROVE HeldInv'
  <2>1. PICK w \in DN : w = wsDn
    BY <1>6 DEF SignoutErase, WsType
  <2>2. /\ Erasing(w) /\ \A e \in DN : ~Erasing(e)'
        /\ \A e \in DN : AcdHolds(e)' <=> AcdHolds(e)
        /\ UNCHANGED <<acdPc, acdSeen, crossed>>
    BY <1>6, <2>1 DEF SignoutErase, Erasing, AcdHolds
  <2>3. m_DNmap'[w] = NoUser /\ \A e \in DN \ {w} : m_DNmap'[e] = m_DNmap[e]
    BY <1>6, <2>1 DEF SignoutErase, TableType
  <2>4. /\ ~Entry(w)'
        /\ \A e \in DN \ {w} : (Entry(e)' <=> Entry(e)) /\ (Registered(e)' <=> Registered(e))
    BY <2>3 DEF Entry, Registered
  <2> QED
    BY <2>2, <2>4 DEF HeldInv, GhostOnlyFromSignout
<1>7. ASSUME NEW d \in DN, NEW s \in Status, SetDNstatus(d, s) PROVE HeldInv'
  <2>1. SameAgents
    BY <1>7, StatusFacts DEF SetDNstatus, Registered
  <2>2. \A e \in DN : ~Erasing(e)'
    BY <1>7 DEF SetDNstatus, Erasing
  <2> QED
    BY <1>7, <2>1, <2>2, SameRegistered, HeldFrame DEF SetDNstatus
<1> QED
  BY <1>1, <1>2, <1>3, <1>4, <1>5, <1>6, <1>7
     DEF WsThread, SigninAgain, ResetDNinfo

\* Events of a leg keep the agents; callers do not touch the table, and a restart leaves
\* no entry and no iterator.
LEMMA HeldOthers == TypeOK /\ HeldInv /\ (EvThread \/ Callers \/ Recovery) => HeldInv'
<1> SUFFICES ASSUME TypeOK, HeldInv, EvThread \/ Callers \/ Recovery PROVE HeldInv'
  OBVIOUS
<1> TableType /\ CallType
  BY DEF TypeOK
<1> DN \subseteq Key
  BY DEF Key
<1> USE DEF tableVars, wsVars, evVars, acdVars, callVars, histVars
<1>1. ASSUME NEW c \in Call, ChannelAnswer(c) \/ ChannelDestroy(c) PROVE HeldInv'
  <2>1. SameAgents
    <3>1. legOf[c] \in Key /\ "talking" \in Status /\ "ready" \in Status
      BY DEF CallType, Status
    <3>2. CASE Entry(legOf[c])
      <4>1. PICK s \in Status : m_DNmap' = SetStatus(m_DNmap, legOf[c], s)
        BY <1>1, <3>1, <3>2 DEF ChannelAnswer, ChannelDestroy
      <4> QED
        BY <3>1, <3>2, <4>1, StatusFacts
    <3>3. CASE ~Entry(legOf[c])
      BY <1>1, <3>3, SameFacts DEF ChannelAnswer, ChannelDestroy
    <3> QED
      BY <3>2, <3>3
  <2>2. UNCHANGED <<wsPc, wsDn, acdPc, acdAt, acdSeen, acdDn, crossed>>
    BY <1>1 DEF ChannelAnswer, ChannelDestroy
  <2>3. \A e \in DN : Erasing(e)' => Erasing(e)
    BY <2>2 DEF Erasing
  <2> QED
    BY <2>1, <2>2, <2>3, SameRegistered, HeldFrame
<1>2. ASSUME UNCHANGED <<m_DNmap, wsPc, wsDn, acdPc, acdAt, acdSeen, acdDn, crossed>>
      PROVE  HeldInv'
  <2>1. \A e \in DN : Erasing(e)' => Erasing(e)
    BY <1>2 DEF Erasing
  <2> QED
    BY <1>2, <2>1, SameFacts, SameRegistered, HeldFrame
<1>3. ASSUME DestroySignal \/ DestroySignalAgain \/ \E c \in Call : MissEvent(c) PROVE HeldInv'
  BY <1>2, <1>3 DEF DestroySignal, DestroySignalAgain, MissEvent
<1>4. ASSUME Callers PROVE HeldInv'
  BY <1>2, <1>4 DEF Callers, TransformAgent, CallerHangsUp, LegAnswered, LegEnds, DirectCall
<1>5. ASSUME Restart PROVE HeldInv'
  <2>1. acdPc' = "get" /\ acdSeen' = {} /\ \A d \in DN : ~Entry(d)'
    BY <1>5 DEF Restart, NextSession, Entry
  <2> QED
    BY <2>1 DEF HeldInv, AcdHolds, Transferring, GhostOnlyFromSignout
<1>6. ASSUME NEW r \in loading, LoadDNSet(r) PROVE HeldInv'
  <2>0. r.strdn \in Key
    BY DEF TableType, Row
  <2>1. /\ m_DNmap'[r.strdn].m_DN = r.strdn
        /\ \A e \in Key \ {r.strdn} : m_DNmap'[e] = m_DNmap[e]
    BY <1>6, <2>0 DEF LoadDNSet, TableType
  <2>2. m_DNmap'[r.strdn] # NoUser
    <3>1. m_DNmap'[r.strdn] \in DNuser
      BY <1>6, <2>0 DEF LoadDNSet, TableType, DNuser, Row, Status
    <3> QED
      BY <3>1, NoUserAssumption
  <2>3. \A e \in DN : /\ Entry(e) => Entry(e)'
                      /\ Entry(e)' /\ ~Registered(e)' => Entry(e) /\ ~Registered(e)
    BY <2>1, <2>2 DEF Entry, Registered
  <2>4. UNCHANGED <<wsPc, wsDn, acdPc, acdAt, acdSeen, acdDn, crossed>>
    BY <1>6 DEF LoadDNSet
  <2>5. \A e \in DN : Erasing(e)' => Erasing(e)
    BY <2>4 DEF Erasing
  <2> QED
    BY <2>3, <2>4, <2>5, HeldFrame
<1> QED
  BY <1>1, <1>3, <1>4, <1>5, <1>6 DEF EvThread, Recovery

\* The iterator goes to entries that are there; one it stands on or remembers is not
\* erased without the agent being counted, so inline_TransformAgent finds an entry or an
\* agent who is crossed.
LEMMA HeldAcd == TypeOK /\ HeldInv /\ AcdThread => HeldInv'
<1> SUFFICES ASSUME TypeOK, HeldInv, AcdThread PROVE HeldInv'
  OBVIOUS
<1> TableType /\ WsType /\ AcdType
  BY DEF TypeOK
<1> DN \subseteq Key /\ NoDN \notin DN /\ End \notin DN
  BY DNAssumption DEF Key
<1> USE DEF tableVars, wsVars, evVars, acdVars, callVars, histVars
<1>0. ASSUME m_DNmap' = m_DNmap, UNCHANGED <<wsPc, wsDn>>, crossed \subseteq crossed',
             acdPc' # "scan" => acdSeen' = {},
             \A d \in DN : AcdHolds(d)' /\ ~AcdHolds(d) => Entry(d) /\ (Erasing(d) => d \in crossed')
      PROVE  HeldInv'
  <2>1. \A d \in DN : /\ (Entry(d)' <=> Entry(d)) /\ (Registered(d)' <=> Registered(d))
                      /\ Erasing(d)' <=> Erasing(d)
    BY <1>0 DEF Entry, Registered, Erasing
  <2> QED
    BY <1>0, <2>1 DEF HeldInv, GhostOnlyFromSignout
<1>1. ASSUME First(Keys) # {}, acdAt' \in First(Keys), acdSeen' = {}, acdPc' \in {"scan", "ring"},
             acdPc' = "ring" => acdDn' \notin DN,
             crossed' = IF wsPc = "erase" /\ wsDn = acdAt' THEN crossed \cup {wsDn} ELSE crossed,
             UNCHANGED <<m_DNmap, wsPc, wsDn>>
      PROVE  HeldInv'
  <2>1. \A d \in DN : AcdHolds(d)' => Entry(d) /\ (Erasing(d) => d \in crossed')
    BY <1>1 DEF AcdHolds, Transferring, First, Keys, Erasing
  <2> QED
    BY <1>0, <1>1, <2>1
<1>2. ASSUME NEW c \in Call, Get(c) PROVE HeldInv'
  BY <1>1, <1>2 DEF Get, CrossIf
<1>3. ASSUME Wait PROVE HeldInv'
  <2>1. acdSeen' = {}
    BY <1>3 DEF Wait, HeldInv
  <2> QED
    BY <1>1, <1>3, <2>1 DEF Wait, CrossIf
<1>4. ASSUME ScanReturn \/ ScanChoose PROVE HeldInv'
  <2>1. /\ acdPc = "scan" /\ acdPc' = "ring" /\ acdSeen' = {}
        /\ acdDn' = acdAt \/ acdDn' \in acdSeen \/ acdDn' = NoDN
        /\ UNCHANGED <<m_DNmap, wsPc, wsDn, crossed>>
    BY <1>4 DEF ScanReturn, ScanChoose
  <2>2. \A d \in DN : AcdHolds(d)' => AcdHolds(d)
    BY <2>1 DEF AcdHolds, Transferring
  <2> QED
    BY <1>0, <2>1, <2>2
<1>5. ASSUME ScanMatch \/ ScanMiss PROVE HeldInv'
  <2>1. /\ acdPc = "scan" /\ acdPc' = "scan" /\ acdAt' \in Successors(acdAt)
        /\ acdSeen' \subseteq acdSeen \cup {acdAt}
        /\ crossed' = IF wsPc = "erase" /\ wsDn \in {acdAt'} \cup acdSeen'
                      THEN crossed \cup {wsDn} ELSE crossed
        /\ UNCHANGED <<m_DNmap, wsPc, wsDn>>
    BY <1>5 DEF ScanMatch, ScanMiss, Advance, CrossIf
  <2>2. \A d \in DN : d = acdAt' => Entry(d)
    BY <2>1 DEF Successors, First, KeysAfter, Keys
  <2>3. \A d \in DN : AcdHolds(d)' /\ ~AcdHolds(d) => d = acdAt'
    BY <2>1 DEF AcdHolds, Transferring
  <2> QED
    BY <1>0, <2>1, <2>2, <2>3 DEF Erasing
<1>6. ASSUME ScanNone PROVE HeldInv'
  <2>1. \A d \in DN : ~AcdHolds(d)'
    BY <1>6 DEF ScanNone, AcdHolds, Transferring
  <2> QED
    BY <1>0, <1>6, <2>1 DEF ScanNone
<1>7. ASSUME TransformRing \/ TransformDelete PROVE HeldInv'
  <2>1. /\ acdPc \in {"ring", "deleteRow"} /\ acdPc' \in {"deleteRow", "insertRow"}
        /\ UNCHANGED <<wsPc, wsDn, acdAt, acdSeen, acdDn, crossed>> /\ acdDn \in Key
    BY <1>7 DEF TransformRing, TransformDelete, AcdType
  <2>2. \A d \in DN : /\ (AcdHolds(d)' <=> AcdHolds(d)) /\ (AcdHolds(acdDn))
                      /\ Erasing(d)' <=> Erasing(d)
    BY <2>1 DEF AcdHolds, Transferring, Erasing
  <2>3. acdSeen' = {}
    BY <2>1 DEF HeldInv
  <2>4. CASE Entry(acdDn)
    <3>1. SameAgents
      <4>1. CASE TransformRing
        BY <2>1, <2>4, <4>1, StatusFacts DEF TransformRing, Status
      <4>2. CASE TransformDelete
        BY <2>4, <4>2, SameFacts DEF TransformDelete
      <4> QED
        BY <1>7, <4>1, <4>2
    <3>2. \A d \in DN : (Entry(d)' <=> Entry(d)) /\ (Registered(d)' <=> Registered(d))
      BY <3>1, SameRegistered
    <3> QED
      BY <2>1, <2>2, <2>3, <3>2 DEF HeldInv, GhostOnlyFromSignout
  <2>5. CASE ~Entry(acdDn)
    <3>1. \A d \in Key \ {acdDn} : m_DNmap'[d] = m_DNmap[d]
      BY <1>7, <2>1, <2>5 DEF TransformRing, TransformDelete, TableType
    <3>2. \A d \in DN \ {acdDn} : (Entry(d)' <=> Entry(d)) /\ (Registered(d)' <=> Registered(d))
      BY <3>1 DEF Entry, Registered
    <3>3. acdDn \in DN => acdDn \in crossed
      BY <2>2, <2>5 DEF HeldInv
    <3> QED
      BY <2>1, <2>2, <2>3, <3>2, <3>3 DEF HeldInv, GhostOnlyFromSignout
  <2> QED
    BY <2>4, <2>5
<1>8. ASSUME TransformInsert \/ BridgeOk \/ BridgeFails PROVE HeldInv'
  <2>1. /\ acdPc \in {"insertRow", "bridge"} /\ acdPc' \in {"bridge", "get"}
        /\ acdPc' = "bridge" => acdDn' = acdDn
        /\ UNCHANGED <<m_DNmap, wsPc, wsDn, acdSeen, crossed>>
    BY <1>8 DEF TransformInsert, BridgeOk, BridgeFails, NextSession
  <2>2. \A d \in DN : AcdHolds(d)' => AcdHolds(d)
    BY <2>1 DEF AcdHolds, Transferring
  <2>3. acdSeen' = {}
    BY <2>1 DEF HeldInv
  <2> QED
    BY <1>0, <2>1, <2>2, <2>3
<1> QED
  BY <1>2, <1>3, <1>4, <1>5, <1>6, <1>7, <1>8 DEF AcdThread

\* HeldInv is inductive relative to TypeOK.
LEMMA HeldAlways == Spec => []HeldInv
<1>1. Init => HeldInv
  <2>1. ASSUME Init PROVE \A d \in DN : ~Entry(d) /\ ~AcdHolds(d)
    BY <2>1 DEF Init, AcdHolds, Transferring, Entry, Key
  <2> QED
    BY <2>1 DEF Init, HeldInv, GhostOnlyFromSignout
<1>2. TypeOK /\ HeldInv /\ [Next]_vars => HeldInv'
  <2> SUFFICES ASSUME TypeOK, HeldInv, [Next]_vars PROVE HeldInv'
    OBVIOUS
  <2>1. CASE Next
    BY <2>1, HeldWs, HeldAcd, HeldOthers DEF Next
  <2>2. CASE UNCHANGED vars
    <3>1. /\ UNCHANGED <<m_DNmap, wsPc, wsDn, acdPc, acdAt, acdSeen, acdDn, crossed>>
      BY <2>2 DEF vars, tableVars, wsVars, acdVars, histVars
    <3>2. \A e \in DN : /\ Erasing(e)' => Erasing(e)
                        /\ (Entry(e)' <=> Entry(e)) /\ (Registered(e)' <=> Registered(e))
      BY <3>1 DEF Erasing, Entry, Registered
    <3> QED
      BY <3>1, <3>2, HeldFrame
  <2> QED
    BY <2>1, <2>2
<1> QED
  BY <1>1, <1>2, TypeCorrect, PTL DEF Spec

\* An entry without a DN appears under an agent's key only when the agent signed out
\* while the acd thread stood on, remembered or had chosen its entry (GetavailableAgent,
\* inline_TransformAgent against Signout).
THEOREM GhostsComeFromSignouts == Spec => []GhostOnlyFromSignout
<1>1. HeldInv => GhostOnlyFromSignout
  BY DEF HeldInv
<1> QED
  BY <1>1, HeldAlways, PTL

----------------------------------------------------------------------------
(* The rows of dnuser *)

HasRow(d) == \E r \in dnuser \ loading : r.strdn = d

\* What a thread knows that is between the halves of an update.
UpdateInv ==
    /\ ~Running => wsPc = "idle" /\ acdPc = "get" /\ loading \subseteq dnuser
    /\ wsPc = "newRow" => Entry(wsDn)
    /\ acdPc = "insertRow" => acdRef.m_DN \in {acdDn, NoDN}
    /\ \A k \in Key : Entry(k) => m_DNmap[k].m_DN \in {k, NoDN}

\* PersistedIffRegistered for one agent and the rows LoadDNSet has read so far; a sign-out
\* has deleted the row before it erases the entry.
RowRight(d) ==
    /\ Erasing(d) => ~HasRow(d)
    /\ ~Updating(d) => (Registered(d) <=> HasRow(d))

PersistInv == UpdateInv /\ \A d \in DN \ crossed : RowRight(d)

\* A step that concerns the row and the entry of at most one agent.
LEMMA PersistStep ==
    ASSUME PersistInv, UpdateInv', NEW w, crossed \subseteq crossed',
           \A d \in DN \ {w} : /\ (Registered(d)' <=> Registered(d)) /\ (HasRow(d)' <=> HasRow(d))
                               /\ Updating(d) => Updating(d)'
                               /\ Erasing(d)' => Erasing(d),
           w \in DN \ crossed' => RowRight(w)'
    PROVE  PersistInv'
  BY DEF PersistInv, RowRight

\* A step that writes no row and signs nobody in or out.
LEMMA PersistFrame ==
    ASSUME PersistInv, SameAgents, UNCHANGED <<dnuser, loading>>, crossed \subseteq crossed',
           \A d \in DN : (Updating(d) => Updating(d)') /\ (Erasing(d)' => Erasing(d)),
           wsPc' = "newRow" => wsPc = "newRow" /\ wsDn' = wsDn /\ wsDn \in Key,
           acdPc' = "insertRow" => acdPc = "insertRow" /\ UNCHANGED <<acdRef, acdDn>>,
           ~Running => wsPc' = "idle" /\ acdPc' = "get"
    PROVE  PersistInv'
<1>1. UpdateInv'
  BY DEF PersistInv, UpdateInv, SameAgents, Running, Entry
<1>2. \A d \in DN : (Registered(d)' <=> Registered(d)) /\ (HasRow(d)' <=> HasRow(d))
  BY SameRegistered DEF HasRow, Key
<1> QED
  BY <1>1, <1>2 DEF PersistInv, RowRight

\* The WebSocket thread: insert and insert a row, delete the row and erase, or delete and
\* insert again.
LEMMA PersistWs == TypeOK /\ HeldInv /\ PersistInv /\ WsThread => PersistInv'
<1> SUFFICES ASSUME TypeOK, HeldInv, PersistInv, WsThread PROVE PersistInv'
  OBVIOUS
<1> TableType /\ WsType /\ UpdateInv
  BY DEF TypeOK, PersistInv
<1> DN \subseteq Key /\ NoDN \notin DN
  BY DNAssumption DEF Key
<1> USE DEF tableVars, wsVars, evVars, acdVars, callVars, histVars
<1>1. ASSUME NEW d \in DN, SigninNew(d) PROVE PersistInv'
  <2>1. \A e \in DN : (Updating(e) => Updating(e)') /\ ~Erasing(e)'
    BY <1>1 DEF SigninNew, Request, Updating, Erasing
  <2> QED
    BY <1>1, <2>1, SameFacts, PersistFrame DEF SigninNew, Request
<1>2. ASSUME SigninInsert PROVE PersistInv'
  <2>1. PICK w \in DN : w = wsDn
    BY <1>2 DEF SigninInsert, WsType
  <2>2. /\ wsPc = "insert" /\ wsPc' = "newRow" /\ wsDn' = w
        /\ UNCHANGED <<dnuser, loading, acdPc, acdRef, acdDn, crossed>>
    BY <1>2, <2>1 DEF SigninInsert
  <2>3. \A e \in Key \ {w} : m_DNmap'[e] = m_DNmap[e]
    BY <1>2, <2>1 DEF SigninInsert, TableType
  <2>4. m_DNmap'[w] # NoUser /\ m_DNmap'[w].m_DN \in {w, NoDN}
    <3>1. CASE Entry(w)
      BY <1>2, <2>1, <3>1 DEF SigninInsert, Entry, UpdateInv
    <3>2. CASE ~Entry(w)
      <4>1. m_DNmap'[w] = [m_DN |-> w, m_commpanyid |-> RouteCompany[w],
                           m_agentstatus |-> "ready"]
        BY <1>2, <2>1, <3>2 DEF SigninInsert, TableType
      <4>2. m_DNmap'[w] \in DNuser
        BY <4>1, RouteAssumption DEF DNuser, Status
      <4> QED
        BY <4>1, <4>2, NoUserAssumption
    <3> QED
      BY <3>1, <3>2
  <2>5. UpdateInv'
    BY <2>1, <2>2, <2>3, <2>4 DEF UpdateInv, Entry, Running
  <2>6. \A e \in DN \ {w} : /\ (Registered(e)' <=> Registered(e)) /\ (HasRow(e)' <=> HasRow(e))
                            /\ Updating(e) => Updating(e)'
                            /\ Erasing(e)' => Erasing(e)
    BY <2>1, <2>2, <2>3 DEF Registered, Entry, HasRow, Updating, Erasing
  <2>7. RowRight(w)'
    BY <2>2 DEF RowRight, Updating, Erasing
  <2> QED
    BY <2>2, <2>5, <2>6, <2>7, PersistStep
<1>3. ASSUME NEW w \in DN, w = wsDn, wsPc \in {"newRow", "insertRow"}, wsPc' = "idle",
             NEW r, r.strdn = w, dnuser' = dnuser \cup {r},
             UNCHANGED <<m_DNmap, loading, acdPc, acdRef, acdDn, crossed>>
      PROVE  PersistInv'
  <2>1. loading = {}
    BY <1>3 DEF UpdateInv, Running
  <2>2. UpdateInv'
    BY <1>3, <2>1 DEF UpdateInv, Entry, Running
  <2>3. \A e \in DN \ {w} : /\ (Registered(e)' <=> Registered(e)) /\ (HasRow(e)' <=> HasRow(e))
                            /\ Updating(e) => Updating(e)'
                            /\ Erasing(e)' => Erasing(e)
    BY <1>3, <2>1 DEF Registered, Entry, HasRow, Updating, Erasing
  <2>4. HasRow(w)' /\ ~Erasing(w)'
    BY <1>3, <2>1 DEF HasRow, Erasing
  <2>5. w \notin crossed => Registered(w)'
    <3>1. Entry(w)
      BY <1>3 DEF WsType, UpdateInv
    <3>2. w \notin crossed => Registered(w)
      BY <3>1 DEF HeldInv, GhostOnlyFromSignout
    <3> QED
      BY <1>3, <3>2 DEF Registered, Entry
  <2>6. w \in DN \ crossed' => RowRight(w)'
    BY <1>3, <2>4, <2>5 DEF RowRight
  <2> QED
    BY <1>3, <2>2, <2>3, <2>6, PersistStep
<1>4. ASSUME SigninRow \/ SetDNstatusInsert PROVE PersistInv'
  <2>1. PICK w \in DN : w = wsDn
    BY <1>4 DEF SigninRow, SetDNstatusInsert, WsType
  <2>2. CASE SigninRow
    <3> DEFINE r == [strdn |-> w, m_commpanyid |-> RouteCompany[w], by |-> "ws"]
    <3>1. r.strdn = w
      OBVIOUS
    <3>2. dnuser' = dnuser \cup {r}
      BY <2>1, <2>2 DEF SigninRow, InsertTable
    <3> HIDE DEF r
    <3> QED
      BY <1>3, <2>1, <2>2, <3>1, <3>2 DEF SigninRow
  <2>3. CASE SetDNstatusInsert
    <3> DEFINE r == [strdn |-> w, m_commpanyid |-> m_DNmap[w].m_commpanyid, by |-> "ws"]
    <3>1. r.strdn = w
      OBVIOUS
    <3>2. dnuser' = dnuser \cup {r}
      BY <2>1, <2>3 DEF SetDNstatusInsert, InsertTable
    <3> HIDE DEF r
    <3> QED
      BY <1>3, <2>1, <2>3, <3>1, <3>2 DEF SetDNstatusInsert
  <2> QED
    BY <1>4, <2>2, <2>3
<1>5. ASSUME NEW d \in DN, NEW w, MakeReadySilently(d, w) PROVE PersistInv'
  <2>1. SameAgents
    BY <1>5, StatusFacts DEF MakeReadySilently, Status
  <2>2. \A e \in DN : (Updating(e) => Updating(e)') /\ (Erasing(e)' => Erasing(e))
    BY <1>5 DEF MakeReadySilently, Updating, Erasing
  <2> QED
    BY <1>5, <2>1, <2>2, PersistFrame DEF MakeReadySilently, Request
<1>6. ASSUME NEW d \in DN, SignoutDelete(d) PROVE PersistInv'
  <2>1. /\ wsPc = "idle" /\ wsPc' = "erase" /\ wsDn' = d /\ loading = {} /\ loading' = {}
        /\ dnuser' = {r \in dnuser : r.strdn # d} /\ crossed \subseteq crossed'
        /\ UNCHANGED <<m_DNmap, acdPc, acdRef, acdDn>>
    BY <1>6 DEF SignoutDelete, CrossIf, DeleteTable, Request, Running
  <2>2. UpdateInv'
    BY <2>1 DEF UpdateInv, Entry, Running
  <2>3. \A e \in DN \ {d} : /\ (Registered(e)' <=> Registered(e)) /\ (HasRow(e)' <=> HasRow(e))
                            /\ Updating(e) => Updating(e)'
                            /\ Erasing(e)' => Erasing(e)
    BY <2>1 DEF Registered, Entry, HasRow, Updating, Erasing
  <2>4. RowRight(d)'
    BY <2>1 DEF RowRight, HasRow, Updating
  <2> QED
    BY <2>1, <2>2, <2>3, <2>4, PersistStep
<1>7. ASSUME SignoutErase PROVE PersistInv'
  <2>1. PICK w \in DN : w = wsDn
    BY <1>7 DEF SignoutErase, WsType
  <2>2. /\ wsPc = "erase" /\ wsPc' = "idle" /\ loading = {}
        /\ UNCHANGED <<dnuser, loading, acdPc, acdRef, acdDn, crossed>>
    BY <1>7 DEF SignoutErase, UpdateInv, Running
  <2>3. m_DNmap'[w] = NoUser /\ \A e \in Key \ {w} : m_DNmap'[e] = m_DNmap[e]
    BY <1>7, <2>1 DEF SignoutErase, TableType
  <2>4. UpdateInv'
    BY <2>2, <2>3 DEF UpdateInv, Entry, Running
  <2>5. \A e \in DN \ {w} : /\ (Registered(e)' <=> Registered(e)) /\ (HasRow(e)' <=> HasRow(e))
                            /\ Updating(e) => Updating(e)'
                            /\ Erasing(e)' => Erasing(e)
    BY <2>1, <2>2, <2>3 DEF Registered, Entry, HasRow, Updating, Erasing
  <2>6. w \notin crossed => ~HasRow(w)'
    BY <2>1, <2>2 DEF PersistInv, RowRight, Erasing, HasRow
  <2>7. w \in DN \ crossed' => RowRight(w)'
    BY <2>2, <2>3, <2>6 DEF RowRight, Registered, Entry
  <2> QED
    BY <2>2, <2>4, <2>5, <2>7, PersistStep
<1>8. ASSUME NEW d \in DN, NEW s \in Status, SetDNstatus(d, s) PROVE PersistInv'
  <2>1. SameAgents
    BY <1>8, StatusFacts DEF SetDNstatus, Registered
  <2>2. /\ wsPc = "idle" /\ wsPc' \in {"signal", "deleteRow"} /\ Running
        /\ UNCHANGED <<dnuser, loading, acdPc, acdRef, acdDn, crossed>>
    BY <1>8 DEF SetDNstatus, Request
  <2>3. \A e \in DN : (Updating(e) => Updating(e)') /\ ~Erasing(e)'
    BY <2>2 DEF Updating, Erasing
  <2> QED
    BY <2>1, <2>2, <2>3, PersistFrame
<1>9. ASSUME SetDNstatusSignal PROVE PersistInv'
  <2>1. /\ wsPc = "signal" /\ wsPc' = "deleteRow" /\ Running
        /\ UNCHANGED <<m_DNmap, dnuser, loading, acdPc, acdRef, acdDn, crossed>>
    BY <1>9 DEF SetDNstatusSignal, UpdateInv
  <2>2. \A e \in DN : (Updating(e) => Updating(e)') /\ ~Erasing(e)'
    BY <2>1 DEF Updating, Erasing
  <2> QED
    BY <2>1, <2>2, SameFacts, PersistFrame
<1>10. ASSUME SetDNstatusDelete PROVE PersistInv'
  <2>1. PICK w \in DN : w = wsDn
    BY <1>10 DEF SetDNstatusDelete, WsType
  <2>2. /\ wsPc = "deleteRow" /\ wsPc' = "insertRow" /\ wsDn' = w /\ loading = {} /\ loading' = {}
        /\ dnuser' = {r \in dnuser : r.strdn # w}
        /\ UNCHANGED <<m_DNmap, acdPc, acdRef, acdDn, crossed>>
    BY <1>10, <2>1 DEF SetDNstatusDelete, DeleteTable, UpdateInv, Running
  <2>3. UpdateInv'
    BY <2>2 DEF UpdateInv, Entry, Running
  <2>4. \A e \in DN \ {w} : /\ (Registered(e)' <=> Registered(e)) /\ (HasRow(e)' <=> HasRow(e))
                            /\ Updating(e) => Updating(e)'
                            /\ Erasing(e)' => Erasing(e)
    BY <2>1, <2>2 DEF Registered, Entry, HasRow, Updating, Erasing
  <2>5. RowRight(w)'
    BY <2>2 DEF RowRight, Updating, Erasing
  <2> QED
    BY <2>2, <2>3, <2>4, <2>5, PersistStep
<1> QED
  BY <1>1, <1>2, <1>4, <1>5, <1>6, <1>7, <1>8, <1>9, <1>10
     DEF WsThread, SigninAgain, ResetDNinfo

\* The acd thread: Changestate deletes the row of the agent it found and inserts it again;
\* of an agent it found erased it writes nothing under the agent's DN.
LEMMA PersistAcd == TypeOK /\ HeldInv /\ PersistInv /\ AcdThread => PersistInv'
<1> SUFFICES ASSUME TypeOK, HeldInv, PersistInv, AcdThread PROVE PersistInv'
  OBVIOUS
<1> TableType /\ AcdType /\ UpdateInv
  BY DEF TypeOK, PersistInv
<1> DN \subseteq Key /\ NoDN \notin DN
  BY DNAssumption DEF Key
<1> USE DEF tableVars, wsVars, evVars, acdVars, callVars, histVars
<1>0. ASSUME UNCHANGED <<m_DNmap, dnuser, loading, wsPc, wsDn>>, crossed \subseteq crossed',
             acdPc # "insertRow", acdPc' # "insertRow", Running
      PROVE  PersistInv'
  <2>1. \A d \in DN : (Updating(d) => Updating(d)') /\ (Erasing(d)' => Erasing(d))
    BY <1>0 DEF Updating, Erasing
  <2>2. UpdateInv'
    BY <1>0 DEF UpdateInv, Entry, Running
  <2>3. \A e \in DN : (Registered(e)' <=> Registered(e)) /\ (HasRow(e)' <=> HasRow(e))
    BY <1>0 DEF Registered, Entry, HasRow
  <2> QED
    BY <1>0, <2>1, <2>2, <2>3 DEF PersistInv, RowRight
<1>1. ASSUME NEW c \in Call, Get(c) PROVE PersistInv'
  BY <1>0, <1>1 DEF Get, CrossIf
<1>2. ASSUME ScanReturn \/ ScanMatch \/ ScanMiss \/ ScanChoose \/ ScanNone \/ Wait
      PROVE  PersistInv'
  <2>1. acdPc \in {"scan", "wait"} /\ acdPc' \in {"scan", "wait", "ring"}
    BY <1>2 DEF ScanReturn, ScanMatch, ScanMiss, ScanChoose, ScanNone, Wait, Advance
  <2>2. UNCHANGED <<m_DNmap, dnuser, loading, wsPc, wsDn>> /\ crossed \subseteq crossed'
    BY <1>2 DEF ScanReturn, ScanMatch, ScanMiss, ScanChoose, ScanNone, Wait, Advance, CrossIf
  <2>3. Running
    BY <2>1 DEF UpdateInv
  <2> QED
    BY <1>0, <2>1, <2>2, <2>3
<1>3. ASSUME BridgeOk \/ BridgeFails PROVE PersistInv'
  <2>1. /\ acdPc = "bridge" /\ acdPc' = "get"
        /\ UNCHANGED <<m_DNmap, dnuser, loading, wsPc, wsDn, crossed>>
    BY <1>3 DEF BridgeOk, BridgeFails, NextSession
  <2>2. Running
    BY <2>1 DEF UpdateInv
  <2> QED
    BY <1>0, <2>1, <2>2
<1>4. ASSUME TransformRing \/ TransformDelete
      PROVE  /\ acdDn \in Key /\ \A e \in Key \ {acdDn} : m_DNmap'[e] = m_DNmap[e]
             /\ m_DNmap'[acdDn].m_DN \in {acdDn, NoDN}
             /\ acdDn \in DN \ crossed => Registered(acdDn) /\ m_DNmap'[acdDn].m_DN = acdDn
                                          /\ m_DNmap'[acdDn] # NoUser
             /\ Running
  <2>1. acdPc \in {"ring", "deleteRow"} /\ acdDn \in Key
    BY <1>4 DEF TransformRing, TransformDelete, AcdType
  <2>2. acdDn \in DN \ crossed => Registered(acdDn)
    <3>1. acdDn \in DN => AcdHolds(acdDn)
      BY <2>1 DEF AcdHolds, Transferring
    <3> QED
      BY <3>1 DEF HeldInv, GhostOnlyFromSignout
  <2>3. CASE Entry(acdDn)
    <3>1. /\ SameAgents /\ \A e \in Key \ {acdDn} : m_DNmap'[e] = m_DNmap[e]
      <4>1. CASE TransformRing
        BY <2>1, <2>3, <4>1, StatusFacts DEF TransformRing, Status
      <4>2. CASE TransformDelete
        BY <2>3, <4>2, SameFacts DEF TransformDelete
      <4> QED
        BY <1>4, <4>1, <4>2
    <3>2. m_DNmap'[acdDn].m_DN = m_DNmap[acdDn].m_DN /\ m_DNmap'[acdDn] # NoUser
      BY <2>1, <2>3, <3>1 DEF SameAgents, Entry
    <3>3. m_DNmap[acdDn].m_DN \in {acdDn, NoDN}
      BY <2>1, <2>3 DEF UpdateInv
    <3>4. Registered(acdDn) => m_DNmap[acdDn].m_DN = acdDn
      BY DEF Registered
    <3> QED
      BY <2>1, <2>2, <3>1, <3>2, <3>3, <3>4 DEF UpdateInv
  <2>4. CASE ~Entry(acdDn)
    <3>1. PICK g, s : m_DNmap' = [m_DNmap EXCEPT ![acdDn] = Ghost(g, s)]
      BY <1>4, <2>4 DEF TransformRing, TransformDelete
    <3>2. /\ \A e \in Key \ {acdDn} : m_DNmap'[e] = m_DNmap[e]
          /\ m_DNmap'[acdDn].m_DN = NoDN
      BY <2>1, <3>1 DEF TableType, Ghost
    <3> QED
      BY <2>1, <2>2, <2>4, <3>2 DEF UpdateInv, Registered
  <2> QED
    BY <2>3, <2>4
<1>5. ASSUME TransformRing PROVE PersistInv'
  <2>1. PICK w \in Key : w = acdDn
    BY <1>4, <1>5
  <2>2. /\ acdPc = "ring" /\ acdPc' = "deleteRow"
        /\ UNCHANGED <<dnuser, loading, wsPc, wsDn, crossed>>
    BY <1>5 DEF TransformRing
  <2>3. /\ \A e \in Key \ {w} : m_DNmap'[e] = m_DNmap[e]
        /\ m_DNmap'[w].m_DN \in {w, NoDN} /\ Running
        /\ w \in DN \ crossed => /\ Registered(w) /\ m_DNmap'[w].m_DN = w
                                 /\ m_DNmap'[w] # NoUser
    BY <1>4, <1>5, <2>1
  <2>4. UpdateInv'
    <3>1. wsPc = "newRow" => Entry(wsDn)'
      <4>1. ASSUME wsPc = "newRow", wsDn = w PROVE m_DNmap'[w] # NoUser
        <5>1. Entry(acdDn)
          BY <2>1, <4>1 DEF UpdateInv
        <5>2. m_DNmap' = SetStatus(m_DNmap, acdDn, "ringing")
          BY <1>5, <5>1 DEF TransformRing
        <5>3. SameAgents
          BY <2>1, <5>1, <5>2, StatusFacts DEF Status
        <5> QED
          BY <2>1, <5>1, <5>3 DEF SameAgents, Entry
      <4>2. ASSUME wsPc = "newRow", wsDn # w PROVE m_DNmap'[wsDn] # NoUser
        BY <2>3, <4>2 DEF UpdateInv, Entry, TypeOK, WsType
      <4> QED
        BY <2>2, <4>1, <4>2 DEF Entry
    <3> QED
      BY <2>2, <2>3, <3>1 DEF UpdateInv, Entry, Running
  <2>5. \A e \in DN \ {w} : /\ (Registered(e)' <=> Registered(e)) /\ (HasRow(e)' <=> HasRow(e))
                            /\ Updating(e) => Updating(e)'
                            /\ Erasing(e)' => Erasing(e)
    BY <2>2, <2>3 DEF Registered, Entry, HasRow, Updating, Erasing
  <2>6. w \in DN \ crossed' => RowRight(w)'
    <3>1. w \in DN \ crossed => Registered(w) /\ Registered(w)'
      BY <2>3 DEF Registered, Entry
    <3>2. (HasRow(w)' <=> HasRow(w)) /\ (Updating(w)' <=> Updating(w)) /\ (Erasing(w)' <=> Erasing(w))
      BY <2>2 DEF HasRow, Updating, Erasing
    <3> QED
      BY <2>2, <3>1, <3>2 DEF PersistInv, RowRight
  <2> QED
    BY <2>2, <2>4, <2>5, <2>6, PersistStep
<1>6. ASSUME TransformDelete PROVE PersistInv'
  <2>1. PICK w \in Key : w = acdDn
    BY <1>4, <1>6
  <2>2. /\ acdPc = "deleteRow" /\ acdPc' = "insertRow" /\ acdDn' = w
        /\ acdRef' = m_DNmap'[w] /\ dnuser' = {r \in dnuser : r.strdn # acdRef'.m_DN}
        /\ UNCHANGED <<loading, wsPc, wsDn, crossed>>
    BY <1>6, <2>1 DEF TransformDelete, DeleteTable
  <2>3. /\ \A e \in Key \ {w} : m_DNmap'[e] = m_DNmap[e]
        /\ m_DNmap'[w].m_DN \in {w, NoDN} /\ loading = {}
        /\ w \in DN \ crossed => m_DNmap'[w].m_DN = w
    BY <1>4, <1>6, <2>1 DEF Running
  <2>4. UpdateInv'
    <3>1. wsPc = "newRow" => Entry(wsDn)'
      <4>1. ASSUME wsPc = "newRow", wsDn = w PROVE m_DNmap'[w] # NoUser
        <5>1. Entry(acdDn)
          BY <2>1, <4>1 DEF UpdateInv
        <5> QED
          BY <1>6, <2>1, <5>1 DEF TransformDelete, Entry
      <4>2. ASSUME wsPc = "newRow", wsDn # w PROVE m_DNmap'[wsDn] # NoUser
        BY <2>3, <4>2 DEF UpdateInv, Entry, TypeOK, WsType
      <4> QED
        BY <2>2, <4>1, <4>2 DEF Entry
    <3> QED
      BY <2>2, <2>3, <3>1 DEF UpdateInv, Entry, Running
  <2>5. \A e \in DN \ {w} : /\ (Registered(e)' <=> Registered(e)) /\ (HasRow(e)' <=> HasRow(e))
                            /\ Updating(e) => Updating(e)'
                            /\ Erasing(e)' => Erasing(e)
    BY <2>2, <2>3 DEF Registered, Entry, HasRow, Updating, Erasing
  <2>6. w \in DN \ crossed' => RowRight(w)'
    <3>1. w \in DN \ crossed => Updating(w)' /\ ~Erasing(w)'
      <4>1. w \in DN \ crossed => ~Erasing(w)
        BY <2>1, <2>2 DEF HeldInv, AcdHolds, Transferring
      <4> QED
        BY <2>2, <2>3, <4>1 DEF Updating, Erasing
    <3> QED
      BY <2>2, <3>1 DEF RowRight
  <2> QED
    BY <2>2, <2>4, <2>5, <2>6, PersistStep
<1>7. ASSUME TransformInsert PROVE PersistInv'
  <2>1. PICK w \in Key : w = acdRef.m_DN
    BY DEF AcdType, DNuser
  <2>2. PICK r : r.strdn = w /\ dnuser' = dnuser \cup {r}
    <3> DEFINE r == [strdn |-> acdRef.m_DN, m_commpanyid |-> acdRef.m_commpanyid, by |-> "acd"]
    <3>1. r.strdn = w
      BY <2>1
    <3>2. dnuser' = dnuser \cup {r}
      BY <1>7 DEF TransformInsert, InsertTable
    <3> QED
      BY <3>1, <3>2
  <2>3. /\ acdPc = "insertRow" /\ acdPc' = "bridge" /\ loading = {} /\ w \in {acdDn, NoDN}
        /\ UNCHANGED <<m_DNmap, loading, wsPc, wsDn, acdDn, acdRef, crossed>>
    BY <1>7, <2>1 DEF TransformInsert, UpdateInv, Running
  <2>4. UpdateInv'
    BY <2>2, <2>3 DEF UpdateInv, Entry, Running
  <2>5. \A e \in DN \ {w} : /\ (Registered(e)' <=> Registered(e)) /\ (HasRow(e)' <=> HasRow(e))
                            /\ Updating(e) => Updating(e)'
                            /\ Erasing(e)' => Erasing(e)
    BY <2>1, <2>2, <2>3 DEF Registered, Entry, HasRow, Updating, Erasing
  <2>6. w \in DN \ crossed' => RowRight(w)'
    <3>1. w \in DN \ crossed => AcdHolds(w) /\ Entry(w) /\ ~Erasing(w) /\ Registered(w)
      BY <2>3 DEF HeldInv, AcdHolds, Transferring, GhostOnlyFromSignout
    <3>2. w \in DN \ crossed => ~Erasing(w)' /\ Registered(w)' /\ HasRow(w)'
      BY <2>2, <2>3, <3>1 DEF Erasing, Registered, Entry, HasRow
    <3> QED
      BY <2>3, <3>2 DEF RowRight
  <2> QED
    BY <2>3, <2>4, <2>5, <2>6, PersistStep
<1> QED
  BY <1>1, <1>2, <1>3, <1>5, <1>6, <1>7 DEF AcdThread

\* Events and callers leave rows alone; a restart reads the rows one by one.
LEMMA PersistOthers == TypeOK /\ PersistInv /\ (EvThread \/ Callers \/ Recovery) => PersistInv'
<1> SUFFICES ASSUME TypeOK, PersistInv, EvThread \/ Callers \/ Recovery PROVE PersistInv'
  OBVIOUS
<1> TableType /\ WsType /\ CallType /\ UpdateInv
  BY DEF TypeOK, PersistInv
<1> DN \subseteq Key /\ NoDN \notin DN
  BY DNAssumption DEF Key
<1> USE DEF tableVars, wsVars, evVars, acdVars, callVars, histVars
<1>1. ASSUME SameAgents,
             UNCHANGED <<dnuser, loading, wsPc, wsDn, acdPc, acdDn, acdRef, crossed>>
      PROVE  PersistInv'
  <2>1. \A d \in DN : (Updating(d) => Updating(d)') /\ (Erasing(d)' => Erasing(d))
    BY <1>1 DEF Updating, Erasing
  <2> QED
    BY <1>1, <2>1, PersistFrame DEF UpdateInv, WsType
<1>2. ASSUME NEW c \in Call, ChannelAnswer(c) \/ ChannelDestroy(c) PROVE PersistInv'
  <2>1. SameAgents
    <3>1. legOf[c] \in Key /\ "talking" \in Status /\ "ready" \in Status
      BY DEF CallType, Status
    <3>2. CASE Entry(legOf[c])
      <4>1. PICK s \in Status : m_DNmap' = SetStatus(m_DNmap, legOf[c], s)
        BY <1>2, <3>1, <3>2 DEF ChannelAnswer, ChannelDestroy
      <4> QED
        BY <3>1, <3>2, <4>1, StatusFacts
    <3>3. CASE ~Entry(legOf[c])
      BY <1>2, <3>3, SameFacts DEF ChannelAnswer, ChannelDestroy
    <3> QED
      BY <3>2, <3>3
  <2> QED
    BY <1>1, <1>2, <2>1 DEF ChannelAnswer, ChannelDestroy
<1>3. ASSUME \/ DestroySignal \/ DestroySignalAgain \/ Callers
             \/ \E c \in Call : MissEvent(c)
      PROVE  PersistInv'
  <2>1. /\ m_DNmap' = m_DNmap
        /\ UNCHANGED <<dnuser, loading, wsPc, wsDn, acdPc, acdDn, acdRef, crossed>>
    BY <1>3 DEF DestroySignal, DestroySignalAgain, MissEvent, Callers, TransformAgent, CallerHangsUp,
                LegAnswered, LegEnds, DirectCall
  <2> QED
    BY <1>1, <2>1, SameFacts
<1>4. ASSUME Restart PROVE PersistInv'
  <2>1. /\ acdPc' = "get" /\ wsPc' = "idle" /\ loading' = dnuser /\ dnuser' = dnuser
        /\ \A k \in Key : ~Entry(k)'
    BY <1>4 DEF Restart, NextSession, Entry
  <2>2. UpdateInv'
    BY <2>1 DEF UpdateInv
  <2>3. \A d \in DN : ~HasRow(d)' /\ ~Registered(d)'
    BY <2>1 DEF HasRow, Registered
  <2> QED
    BY <2>2, <2>3 DEF PersistInv, RowRight
<1>5. ASSUME NEW r \in loading, LoadDNSet(r) PROVE PersistInv'
  <2>1. PICK w \in Key : w = r.strdn
    BY DEF TableType, Row
  <2>2. /\ wsPc = "idle" /\ acdPc = "get" /\ loading \subseteq dnuser /\ r \in dnuser
        /\ loading' = loading \ {r} /\ dnuser' = dnuser
        /\ UNCHANGED <<wsPc, wsDn, acdPc, acdDn, acdRef, crossed>>
    BY <1>5 DEF LoadDNSet, UpdateInv, Running
  <2>3. /\ m_DNmap'[w].m_DN = w
        /\ \A e \in Key \ {w} : m_DNmap'[e] = m_DNmap[e]
    BY <1>5, <2>1 DEF LoadDNSet, TableType
  <2>4. m_DNmap'[w] # NoUser
    <3>1. m_DNmap'[w] \in DNuser
      BY <1>5, <2>1 DEF LoadDNSet, TableType, DNuser, Row, Status
    <3> QED
      BY <3>1, NoUserAssumption
  <2>5. UpdateInv'
    BY <2>2, <2>3, <2>4 DEF UpdateInv, Entry
  <2>6. \A e \in DN \ {w} : /\ (Registered(e)' <=> Registered(e)) /\ (HasRow(e)' <=> HasRow(e))
                            /\ Updating(e) => Updating(e)'
                            /\ Erasing(e)' => Erasing(e)
    BY <2>1, <2>2, <2>3 DEF Registered, Entry, HasRow, Updating, Erasing
  <2>7. RowRight(w)'
    BY <2>1, <2>2, <2>3, <2>4 DEF RowRight, Registered, Entry, HasRow, Erasing
  <2> QED
    BY <2>2, <2>5, <2>6, <2>7, PersistStep
<1> QED
  BY <1>2, <1>3, <1>4, <1>5 DEF EvThread, Recovery

\* PersistInv is inductive relative to TypeOK and HeldInv.
LEMMA PersistAlways == Spec => []PersistInv
<1>1. Init => PersistInv
  <2> SUFFICES ASSUME Init PROVE PersistInv
    OBVIOUS
  <2>1. UpdateInv
    BY DEF Init, UpdateInv, Entry
  <2>2. \A d \in DN : ~HasRow(d) /\ ~Registered(d)
    BY DEF Init, HasRow, Registered, Entry, Key
  <2> QED
    BY <2>1, <2>2 DEF PersistInv, RowRight
<1>2. TypeOK /\ HeldInv /\ PersistInv /\ [Next]_vars => PersistInv'
  <2> SUFFICES ASSUME TypeOK, HeldInv, PersistInv, [Next]_vars PROVE PersistInv'
    OBVIOUS
  <2>1. CASE Next
    BY <2>1, PersistWs, PersistAcd, PersistOthers DEF Next
  <2>2. CASE UNCHANGED vars
    <3>1. UNCHANGED <<m_DNmap, dnuser, loading, wsPc, wsDn, acdPc, acdDn, acdRef, crossed>>
      BY <2>2 DEF vars, tableVars, wsVars, acdVars, histVars
    <3>2. \A d \in DN : (Updating(d) => Updating(d)') /\ (Erasing(d)' => Erasing(d))
      BY <3>1 DEF Updating, Erasing
    <3>3. wsDn \in Key /\ (~Running => wsPc = "idle" /\ acdPc = "get")
      BY DEF TypeOK, WsType, PersistInv, UpdateInv
    <3> QED
      BY <3>1, <3>2, <3>3, SameFacts, PersistFrame
  <2> QED
    BY <2>1, <2>2
<1> QED
  BY <1>1, <1>2, TypeCorrect, HeldAlways, PTL DEF Spec

\* Outside an update dnuser has a row for exactly the agents in m_DNmap, however the
\* requests, Changestate of the acd thread, crashes and LoadDNSet interleave.
THEOREM RowsAreKept == Spec => []PersistedIffRegistered
<1>1. PersistInv => PersistedIffRegistered
  BY DEF PersistInv, RowRight, PersistedIffRegistered, HasRow, Running
<1> QED
  BY <1>1, PersistAlways, PTL

\* For any agents and rows: whenever the process dies with no thread between the halves of
\* an update, LoadDNSet finds the rows of those who were signed in and no others.
THEOREM RestartsForgetNobody == Spec => RestartForgetsNobody
<1>1. ASSUME TypeOK, PersistedIffRegistered, Next, restarts' > restarts, Running
      PROVE  \A d \in DN \ crossed :
               ~Updating(d) => (Registered(d) <=> \E r \in loading' : r.strdn = d)
  <2>1. loading' = dnuser
    <3> USE DEF tableVars, wsVars, evVars, acdVars, callVars, histVars
    <3>1. WsThread => restarts' = restarts
      BY DEF WsThread, SigninNew, SigninInsert, SigninRow, SigninAgain, ResetDNinfo,
             MakeReadySilently, SignoutDelete, SignoutErase, SetDNstatus,
             SetDNstatusSignal, SetDNstatusDelete, SetDNstatusInsert
    <3>2. AcdThread => restarts' = restarts
      BY DEF AcdThread, Get, ScanReturn, ScanMatch, ScanMiss, ScanChoose, ScanNone, Wait,
             Advance, TransformRing, TransformDelete, TransformInsert, BridgeOk, BridgeFails
    <3>3. EvThread \/ Callers \/ (\E r \in loading : LoadDNSet(r)) => restarts' = restarts
      BY DEF EvThread, ChannelAnswer, ChannelDestroy, MissEvent, DestroySignal, DestroySignalAgain,
             Callers, TransformAgent, CallerHangsUp, DirectCall, LegAnswered, LegEnds,
             LoadDNSet
    <3>4. restarts' # restarts
      BY <1>1 DEF TypeOK, HistType
    <3> QED
      BY <1>1, <3>1, <3>2, <3>3, <3>4 DEF Next, Recovery, Restart
  <2> QED
    BY <1>1, <2>1 DEF PersistedIffRegistered
<1>2. TypeOK /\ PersistedIffRegistered /\ [Next]_vars =>
      [ restarts' > restarts /\ Running
        => \A d \in DN \ crossed :
             ~Updating(d) => (Registered(d) <=> \E r \in loading' : r.strdn = d) ]_vars
  BY <1>1
<1>3. Spec => [](TypeOK /\ PersistedIffRegistered)
  BY TypeCorrect, RowsAreKept, PTL
<1> QED
  BY <1>2, <1>3, PTL DEF Spec, RestartForgetsNobody

----------------------------------------------------------------------------
(* Agents who ring *)

\* The states of a call that was never bridged.
Unbridged == {"new", "queued", "held"}

\* RingingHasCause says that every agent who rings for the acd thread has a call.
RingsForAcd(d) ==
    /\ Entry(d) /\ m_DNmap[d].m_agentstatus = "ringing" /\ writer[d] = "acd"
    /\ d \notin unheard
    /\ ~ (acdPc \in Transferring /\ acdDn = d)
HasCall(d) == \E c \in Call : legOf[c] = d /\ (Live(c) \/ evs[c] # <<>>)

\* The events of a leg end with its end, and wait for a server that runs only.
LastEvent(c) == evs[c][Len(evs[c])]
EventsInv ==
    \A c \in Call : evs[c] # <<>> => Running /\ (Live(c) \/ LastEvent(c) = "DESTROY")

\* A call has no leg before it is bridged, so a bridge takes no other agent's call away;
\* and while LoadDNSet runs nobody rings whose event FreeSWITCH could fail to deliver.
RingInv ==
    /\ EventsInv
    /\ \A c \in m_q : callState[c] = "queued"
    /\ acdPc # "get" => callState[acdCall] = "held"
    /\ \A c \in Call : callState[c] \in Unbridged => legOf[c] = NoDN
    /\ ~Running => \A k \in Key : Entry(k) => writer[k] = "load"
    /\ \A d \in DN : RingsForAcd(d) => HasCall(d)

\* A step that keeps each leg's events, and whether it is up.
LEMMA EventsFrame ==
    ASSUME EventsInv, UNCHANGED <<evs, loading>>, NEW c \in Call,
           \A b \in Call \ {c} : Live(b)' <=> Live(b), Live(c) => Live(c)'
    PROVE  EventsInv'
  BY DEF EventsInv, LastEvent, Running

\* A sequence whose last element is not its first has more than one.
LEMMA EndComesLast ==
    ASSUME NEW S, NEW s \in Seq(S), s # <<>>, Head(s) # s[Len(s)]
    PROVE  Tail(s) # <<>>
<1>1. Len(s) \in Nat /\ Len(s) # 0 /\ Head(s) = s[1]
  OBVIOUS
<1>2. Len(s) # 1
  BY <1>1
<1>3. Len(Tail(s)) = Len(s) - 1
  BY <1>1, HeadTailProperties
<1>4. Len(Tail(s)) # Len(<<>>)
  BY <1>1, <1>2, <1>3
<1> QED
  BY <1>4

\* Taking an event leaves the last one in its place.
LEMMA EventsTaken ==
    ASSUME EventsInv, CallType, NEW c \in Call, NEW e, TakeEvent(c, e),
           UNCHANGED <<loading, callState>>
    PROVE  EventsInv'
<1>1. \A b \in Call \ {c} : evs'[b] = evs[b]
  BY DEF TakeEvent, CallType
<1>2. evs[c] \in Seq({"ANSWER", "DESTROY"}) /\ evs[c] # <<>> /\ evs'[c] = Tail(evs[c])
  BY DEF TakeEvent, CallType
<1>3. ASSUME evs'[c] # <<>> PROVE evs'[c][Len(evs'[c])] = evs[c][Len(evs[c])]
  BY <1>2, <1>3
<1>4. \A b \in Call : Live(b)' <=> Live(b)
  BY DEF Live
<1>5. Running /\ Running'
  BY DEF TakeEvent, Running
<1>6. ASSUME NEW b \in Call, evs'[b] # <<>> PROVE (Live(b) \/ LastEvent(b) = "DESTROY")'
  <2>1. CASE b = c
    BY <1>2, <1>3, <1>4, <1>6, <2>1 DEF EventsInv, LastEvent
  <2>2. CASE b # c
    BY <1>1, <1>4, <1>6, <2>2 DEF EventsInv, LastEvent
  <2> QED
    BY <2>1, <2>2
<1> QED
  BY <1>5, <1>6 DEF EventsInv

\* A step that leaves the calls alone and makes nobody ring.
LEMMA RingFrame ==
    ASSUME RingInv, UNCHANGED <<m_q, callState, legOf, evs, loading>>,
           acdPc' # "get" => acdPc # "get" /\ acdCall' = acdCall,
           Running \/ UNCHANGED <<m_DNmap, writer>>,
           \A d \in DN : RingsForAcd(d)' => RingsForAcd(d)
    PROVE  RingInv'
<1>1. \A d \in DN : HasCall(d)' <=> HasCall(d)
  BY DEF HasCall, Live
<1>3. EventsInv'
  BY DEF RingInv, EventsInv, LastEvent, Live, Running
<1>2. ~Running' => \A k \in Key : Entry(k)' => writer'[k] = "load"
  BY DEF RingInv, Running, Entry
<1> QED
  BY <1>1, <1>2, <1>3 DEF RingInv

\* Whoever writes an entry's status, other than the acd thread, makes nobody ring for it.
LEMMA RingOthers ==
    ASSUME NEW k, UNCHANGED <<acdPc, acdDn, unheard>>, k \in DN => writer'[k] # "acd",
           \A d \in DN \ {k} : m_DNmap'[d] = m_DNmap[d] /\ writer'[d] = writer[d]
    PROVE  \A d \in DN : RingsForAcd(d)' => RingsForAcd(d)
  BY DEF RingsForAcd, Entry

\* The WebSocket thread writes no status "ringing" as the acd thread does.
LEMMA RingWs == TypeOK /\ PersistInv /\ RingInv /\ WsThread => RingInv'
<1> SUFFICES ASSUME TypeOK, PersistInv, RingInv, WsThread PROVE RingInv'
  OBVIOUS
<1> TableType /\ WsType /\ HistType /\ UpdateInv
  BY DEF TypeOK, PersistInv
<1> DN \subseteq Key
  BY DEF Key
<1> USE DEF tableVars, wsVars, evVars, acdVars, callVars, histVars
<1>0. ASSUME NEW k \in Key, UNCHANGED <<acdVars, callVars, loading, unheard>>, Running,
             writer'[k] # "acd",
             \A d \in Key \ {k} : m_DNmap'[d] = m_DNmap[d] /\ writer'[d] = writer[d]
      PROVE  RingInv'
  BY <1>0, RingOthers, RingFrame
<1>1. ASSUME UNCHANGED <<m_DNmap, writer, acdVars, callVars, loading, unheard>> PROVE RingInv'
  <2>1. \A d \in DN : RingsForAcd(d)' => RingsForAcd(d)
    BY <1>1 DEF RingsForAcd, Entry
  <2> QED
    BY <1>1, <2>1, RingFrame
<1>2. ASSUME \/ \E d \in DN : SigninNew(d) \/ SignoutDelete(d)
             \/ SigninRow \/ SetDNstatusSignal \/ SetDNstatusDelete \/ SetDNstatusInsert
      PROVE  RingInv'
  BY <1>1, <1>2 DEF SigninNew, SignoutDelete, SigninRow, SetDNstatusSignal,
                    SetDNstatusDelete, SetDNstatusInsert
<1>3. ASSUME SigninInsert PROVE RingInv'
  <2>1. CASE Entry(wsDn)
    BY <1>1, <1>3, <2>1 DEF SigninInsert
  <2>2. CASE ~Entry(wsDn)
    <3>1. PICK w \in DN : w = wsDn
      BY <1>3 DEF SigninInsert, WsType
    <3>2. /\ UNCHANGED <<acdVars, callVars, loading, unheard>> /\ Running
          /\ writer'[w] # "acd"
          /\ \A d \in Key \ {w} : m_DNmap'[d] = m_DNmap[d] /\ writer'[d] = writer[d]
      BY <1>3, <2>2, <3>1 DEF SigninInsert, TableType, HistType, UpdateInv
    <3> QED
      BY <1>0, <3>2
  <2> QED
    BY <2>1, <2>2
<1>4. ASSUME NEW d \in DN, NEW w \in {"relogin", "reset"}, MakeReadySilently(d, w)
      PROVE  RingInv'
  <2>1. \A e \in Key \ {d} : m_DNmap'[e] = m_DNmap[e]
    BY <1>4, StatusFacts DEF MakeReadySilently, Status
  <2>2. /\ UNCHANGED <<acdVars, callVars, loading, unheard>> /\ Running
        /\ writer'[d] # "acd" /\ \A e \in Key \ {d} : writer'[e] = writer[e]
    BY <1>4 DEF MakeReadySilently, Request, HistType
  <2> QED
    BY <1>0, <2>1, <2>2
<1>5. ASSUME SignoutErase PROVE RingInv'
  <2>1. PICK w \in DN : w = wsDn
    BY <1>5 DEF SignoutErase, WsType
  <2>2. /\ UNCHANGED <<acdVars, callVars, loading, writer, unheard>> /\ Running
        /\ m_DNmap'[w] = NoUser /\ \A d \in Key \ {w} : m_DNmap'[d] = m_DNmap[d]
    BY <1>5, <2>1 DEF SignoutErase, TableType, UpdateInv
  <2>3. \A d \in DN : RingsForAcd(d)' => RingsForAcd(d)
    BY <2>2 DEF RingsForAcd, Entry
  <2> QED
    BY <2>2, <2>3, RingFrame
<1>6. ASSUME NEW d \in DN, NEW s \in Status, SetDNstatus(d, s) PROVE RingInv'
  <2>1. \A e \in Key \ {d} : m_DNmap'[e] = m_DNmap[e]
    BY <1>6, StatusFacts DEF SetDNstatus, Registered
  <2>2. /\ UNCHANGED <<acdVars, callVars, loading, unheard>> /\ Running
        /\ writer'[d] # "acd" /\ \A e \in Key \ {d} : writer'[e] = writer[e]
    BY <1>6 DEF SetDNstatus, Request, HistType
  <2> QED
    BY <1>0, <2>1, <2>2
<1> QED
  BY <1>2, <1>3, <1>4, <1>5, <1>6 DEF WsThread, SigninAgain, ResetDNinfo

\* The acd thread makes an agent ring, and does not let go of it before the call is at the
\* agent's phone or the bridge has failed.
LEMMA RingAcd == TypeOK /\ PersistInv /\ RingInv /\ AcdThread => RingInv'
<1> SUFFICES ASSUME TypeOK, PersistInv, RingInv, AcdThread PROVE RingInv'
  OBVIOUS
<1> TableType /\ AcdType /\ CallType /\ HistType /\ UpdateInv
  BY DEF TypeOK, PersistInv
<1> DN \subseteq Key /\ NoDN \notin DN
  BY DNAssumption DEF Key
<1> USE DEF tableVars, wsVars, evVars, acdVars, callVars, histVars
<1>1. ASSUME NEW c \in Call, Get(c) PROVE RingInv'
  <2>1. /\ UNCHANGED <<m_DNmap, writer, legOf, evs, loading, unheard>> /\ Running
        /\ m_q' = m_q \ {c} /\ callState' = [callState EXCEPT ![c] = "held"]
        /\ acdPc = "get" /\ acdCall' = c /\ c \in m_q
    BY <1>1 DEF Get, Top
  <2>2. callState[c] = "queued" /\ legOf[c] = NoDN
    BY <2>1 DEF RingInv, Unbridged
  <2>3. /\ callState'[c] = "held" /\ \A b \in Call \ {c} : callState'[b] = callState[b]
    BY <2>1 DEF CallType
  <2>4. ASSUME NEW d \in DN, RingsForAcd(d)' PROVE HasCall(d)'
    <3>1. RingsForAcd(d)
      BY <2>1, <2>4 DEF RingsForAcd, Entry, Transferring
    <3>2. PICK b \in Call : legOf[b] = d /\ (Live(b) \/ evs[b] # <<>>)
      BY <3>1 DEF RingInv, HasCall
    <3>3. b # c
      BY <2>2, <3>2
    <3> QED
      BY <2>1, <2>3, <3>2, <3>3 DEF HasCall, Live
  <2>5. \A b \in m_q' : callState'[b] = "queued"
    BY <2>1, <2>3 DEF RingInv, CallType
  <2>6. \A b \in Call : callState'[b] \in Unbridged => legOf'[b] = NoDN
    BY <2>1, <2>2, <2>3 DEF RingInv
  <2>7. EventsInv'
    BY <2>1, <2>2, <2>3, EventsFrame DEF RingInv, Live
  <2> QED
    BY <2>1, <2>3, <2>4, <2>5, <2>6, <2>7 DEF RingInv, Running
<1>2. ASSUME ScanReturn \/ ScanMatch \/ ScanMiss \/ ScanChoose \/ ScanNone \/ Wait
             \/ TransformInsert
      PROVE  RingInv'
  <2>1. /\ UNCHANGED <<m_DNmap, writer, callVars, loading, acdCall, unheard>> /\ acdPc # "get"
        /\ acdPc \in Transferring => acdPc' \in Transferring /\ acdDn' = acdDn
    BY <1>2 DEF ScanReturn, ScanMatch, ScanMiss, ScanChoose, ScanNone, Wait, Advance,
                TransformInsert, Transferring
  <2>2. \A d \in DN : RingsForAcd(d)' => RingsForAcd(d)
    BY <2>1 DEF RingsForAcd, Entry
  <2> QED
    BY <2>1, <2>2, RingFrame
<1>3. ASSUME TransformRing \/ TransformDelete PROVE RingInv'
  <2>1. PICK w \in Key : w = acdDn
    BY DEF AcdType
  <2>2. /\ UNCHANGED <<callVars, loading, acdCall, acdDn>> /\ acdPc # "get"
        /\ acdPc' \in Transferring
    BY <1>3 DEF TransformRing, TransformDelete, Transferring
  <2>3. \A d \in Key \ {w} : /\ m_DNmap'[d] = m_DNmap[d] /\ writer'[d] = writer[d]
                            /\ (d \in unheard' <=> d \in unheard)
    <3>1. \A d \in Key \ {w} : writer'[d] = writer[d] /\ (d \in unheard' <=> d \in unheard)
      BY <1>3, <2>1 DEF TransformRing, TransformDelete, HistType
    <3>2. \A d \in Key \ {w} : m_DNmap'[d] = m_DNmap[d]
      <4>1. CASE Entry(w)
        BY <1>3, <2>1, <4>1, StatusFacts DEF TransformRing, TransformDelete, Status
      <4>2. CASE ~Entry(w)
        BY <1>3, <2>1, <4>2 DEF TransformRing, TransformDelete, TableType
      <4> QED
        BY <4>1, <4>2
    <3> QED
      BY <3>1, <3>2
  <2>4. ASSUME NEW d \in DN, RingsForAcd(d)' PROVE RingsForAcd(d)
    <3>1. d # w
      <4>1. ~ (acdPc' \in Transferring /\ acdDn' = d)
        BY <2>4 DEF RingsForAcd, Transferring
      <4> QED
        BY <2>1, <2>2, <4>1
    <3>3. d \in Key \ {w}
      BY <3>1
    <3>2. m_DNmap'[d] = m_DNmap[d] /\ writer'[d] = writer[d] /\ (d \in unheard' <=> d \in unheard)
      BY <2>3, <3>3, Zenon
    <3> QED
      BY <2>1, <2>4, <3>1, <3>2 DEF RingsForAcd, Entry
  <2>5. Running
    BY <2>2 DEF UpdateInv
  <2> QED
    BY <2>2, <2>4, <2>5, RingFrame
<1>4. ASSUME BridgeOk \/ BridgeFails PROVE RingInv'
  <2>1. /\ acdPc = "bridge" /\ acdPc' = "get" /\ Running /\ acdCall \in Call
        /\ UNCHANGED <<m_DNmap, loading, m_q, evs, unheard>>
    BY <1>4 DEF BridgeOk, BridgeFails, NextSession, UpdateInv, AcdType
  <2>2. PICK b \in Call : b = acdCall
    BY <2>1
  <2>3. callState[b] = "held" /\ legOf[b] = NoDN /\ b \notin m_q
    BY <2>1, <2>2 DEF RingInv, Unbridged
  <2>4. /\ callState'[b] \in {"ringing", "failed"}
        /\ \A c \in Call \ {b} : callState'[c] = callState[c] /\ legOf'[c] = legOf[c]
    BY <1>4, <2>2 DEF BridgeOk, BridgeFails, CallType
  <2>5. \A d \in DN : HasCall(d) => HasCall(d)'
    <3> SUFFICES ASSUME NEW d \in DN, HasCall(d) PROVE HasCall(d)'
      OBVIOUS
    <3>1. PICK c \in Call : legOf[c] = d /\ (Live(c) \/ evs[c] # <<>>)
      BY DEF HasCall
    <3>2. c # b
      BY <2>3, <3>1
    <3> QED
      BY <2>1, <2>4, <3>1, <3>2 DEF HasCall, Live
  <2>6. ASSUME NEW d \in DN, RingsForAcd(d)' PROVE HasCall(d)'
    <3>1. CASE d # acdDn
      <4>1. RingsForAcd(d)
        BY <1>4, <2>1, <2>6, <3>1 DEF RingsForAcd, Entry, BridgeOk, BridgeFails, HistType
      <4> QED
        BY <2>5, <4>1 DEF RingInv
    <3>2. CASE d = acdDn
      <4>1. CASE BridgeOk
        <5>1. legOf'[b] = d /\ callState'[b] = "ringing"
          BY <2>2, <3>2, <4>1 DEF BridgeOk, CallType
        <5> QED
          BY <5>1 DEF HasCall, Live
      <4>2. CASE BridgeFails
        <5>1. writer'[d] # "acd"
          BY <3>2, <4>2 DEF BridgeFails, HistType
        <5> QED
          BY <2>6, <5>1 DEF RingsForAcd
      <4> QED
        BY <1>4, <4>1, <4>2
    <3> QED
      BY <3>1, <3>2
  <2>7. \A c \in m_q' : callState'[c] = "queued"
    BY <2>1, <2>3, <2>4 DEF RingInv, CallType
  <2>8. \A c \in Call : callState'[c] \in Unbridged => legOf'[c] = NoDN
    BY <2>4 DEF RingInv, Unbridged
  <2>9. EventsInv'
    BY <2>1, <2>3, <2>4, EventsFrame DEF RingInv, Live
  <2> QED
    BY <2>1, <2>6, <2>7, <2>8, <2>9 DEF RingInv, Running
<1> QED
  BY <1>1, <1>2, <1>3, <1>4 DEF AcdThread

\* The event that answers or ends a leg gives the agent another status; FreeSWITCH emits
\* it for every leg that ends while the server runs.
LEMMA RingEnv == TypeOK /\ PersistInv /\ RingInv /\ (EvThread \/ Callers \/ Recovery) => RingInv'
<1> SUFFICES ASSUME TypeOK, PersistInv, RingInv, EvThread \/ Callers \/ Recovery PROVE RingInv'
  OBVIOUS
<1> TableType /\ AcdType /\ CallType /\ HistType /\ UpdateInv
  BY DEF TypeOK, PersistInv
<1> DN \subseteq Key /\ NoDN \notin DN
  BY DNAssumption DEF Key
<1> USE DEF tableVars, wsVars, evVars, acdVars, callVars, histVars
<1>1. ASSUME NEW c \in Call, ChannelAnswer(c) \/ ChannelDestroy(c) PROVE RingInv'
  <2>1. PICK k \in Key : k = legOf[c]
    BY DEF CallType
  <2>2. /\ UNCHANGED <<m_q, callState, legOf, loading, acdPc, acdDn, acdCall, unheard>> /\ Running
        /\ \A b \in Call \ {c} : evs'[b] = evs[b]
    BY <1>1 DEF ChannelAnswer, ChannelDestroy, TakeEvent, CallType
  <2>3. /\ \A d \in Key \ {k} : m_DNmap'[d] = m_DNmap[d] /\ writer'[d] = writer[d]
        /\ Entry(k)' => writer'[k] # "acd"
    <3>1. CASE Entry(k)
      <4>1. PICK s \in Status : m_DNmap' = SetStatus(m_DNmap, k, s)
        BY <1>1, <2>1, <3>1 DEF ChannelAnswer, ChannelDestroy, Status
      <4>2. \A d \in Key \ {k} : m_DNmap'[d] = m_DNmap[d]
        BY <3>1, <4>1, StatusFacts
      <4>3. writer'[k] # "acd" /\ \A d \in Key \ {k} : writer'[d] = writer[d]
        BY <1>1, <2>1, <3>1 DEF ChannelAnswer, ChannelDestroy, HistType
      <4> QED
        BY <4>2, <4>3
    <3>2. CASE ~Entry(k)
      BY <1>1, <2>1, <3>2 DEF ChannelAnswer, ChannelDestroy, Entry
    <3> QED
      BY <3>1, <3>2
  <2>4. ASSUME NEW d \in DN, RingsForAcd(d)' PROVE HasCall(d)'
    <3>1. d # k
      BY <2>3, <2>4 DEF RingsForAcd
    <3>2. RingsForAcd(d)
      BY <2>2, <2>3, <2>4, <3>1 DEF RingsForAcd, Entry
    <3>3. PICK b \in Call : legOf[b] = d /\ (Live(b) \/ evs[b] # <<>>)
      BY <3>2 DEF RingInv, HasCall
    <3>4. b # c
      BY <2>1, <3>1, <3>3
    <3> QED
      BY <2>2, <3>3, <3>4 DEF HasCall, Live
  <2>5. EventsInv'
    BY <1>1, <2>2, EventsTaken DEF ChannelAnswer, ChannelDestroy, RingInv
  <2> QED
    BY <2>2, <2>4, <2>5 DEF RingInv, Running
<1>2. ASSUME DestroySignal \/ DestroySignalAgain PROVE RingInv'
  <2>1. UNCHANGED <<m_DNmap, writer, callVars, loading, acdVars, unheard>>
    BY <1>2 DEF DestroySignal, DestroySignalAgain
  <2>2. \A d \in DN : RingsForAcd(d)' => RingsForAcd(d)
    BY <2>1 DEF RingsForAcd, Entry
  <2> QED
    BY <2>1, <2>2, RingFrame
<1>3. ASSUME NEW c \in Call,
             \/ TransformAgent(c) \/ CallerHangsUp(c) \/ LegAnswered(c) \/ LegEnds(c)
             \/ \E d \in DN : DirectCall(c, d)
      PROVE  RingInv'
  <2>1. /\ UNCHANGED <<m_DNmap, writer, loading, acdPc, acdDn, acdCall, unheard>>
        /\ \A b \in Call \ {c} : /\ callState'[b] = callState[b] /\ legOf'[b] = legOf[b]
                                 /\ evs'[b] = evs[b]
    BY <1>3 DEF TransformAgent, CallerHangsUp, LegAnswered, LegEnds, DirectCall, CallType
  <2>2. acdPc # "get" => callState[acdCall] = "held" /\ acdCall \in Call
    BY DEF RingInv, AcdType
  <2>3. CASE TransformAgent(c)
    <3>1. /\ m_q' = m_q \cup {c} /\ callState[c] = "new" /\ callState'[c] = "queued"
          /\ UNCHANGED <<legOf, evs>>
      BY <2>3 DEF TransformAgent, CallType
    <3>2. \A b \in Call : Live(b)' <=> Live(b)
      BY <2>1, <3>1 DEF Live
    <3>3. \A d \in DN : (HasCall(d)' <=> HasCall(d)) /\ (RingsForAcd(d)' <=> RingsForAcd(d))
      BY <2>1, <3>1, <3>2 DEF HasCall, RingsForAcd, Entry
    <3>4. acdPc' # "get" => callState'[acdCall'] = "held"
      BY <2>1, <2>2, <3>1
    <3>5. \A b \in m_q' : callState'[b] = "queued"
      BY <2>1, <3>1 DEF RingInv, CallType
    <3>6. \A b \in Call : callState'[b] \in Unbridged => legOf'[b] = NoDN
      BY <2>1, <3>1 DEF RingInv, Unbridged
    <3>7. EventsInv'
      BY <2>1, <3>1, <3>2, EventsFrame DEF RingInv
    <3> QED
      BY <2>1, <3>3, <3>4, <3>5, <3>6, <3>7 DEF RingInv, Running, Entry
  <2>4. CASE CallerHangsUp(c)
    <3>1. UNCHANGED <<m_q, callState, legOf, evs>>
      BY <2>4 DEF CallerHangsUp
    <3>2. \A d \in DN : RingsForAcd(d)' => RingsForAcd(d)
      BY <2>1 DEF RingsForAcd, Entry
    <3> QED
      BY <2>1, <3>1, <3>2, RingFrame
  <2>5. CASE LegAnswered(c) \/ LegEnds(c) \/ \E d \in DN : DirectCall(c, d)
    <3>1. /\ m_q' = m_q /\ callState[c] \in {"new", "ringing", "talking"}
          /\ callState'[c] \in {"ringing", "talking", "ended"}
      BY <2>5 DEF LegAnswered, LegEnds, DirectCall, Live, CallType
    <3>2. acdPc' # "get" => callState'[acdCall'] = "held"
      BY <2>1, <2>2, <3>1
    <3>3. \A b \in m_q' : callState'[b] = "queued"
      BY <2>1, <3>1 DEF RingInv, CallType
    <3>4. \A b \in Call : callState'[b] \in Unbridged => legOf'[b] = NoDN
      BY <2>1, <3>1 DEF RingInv, Unbridged
    <3>5. ASSUME NEW d \in DN, RingsForAcd(d)' PROVE HasCall(d)'
      <4>1. RingsForAcd(d)
        BY <2>1, <3>5 DEF RingsForAcd, Entry
      <4>2. PICK b \in Call : legOf[b] = d /\ (Live(b) \/ evs[b] # <<>>)
        BY <4>1 DEF RingInv, HasCall
      <4>3. CASE b # c
        BY <2>1, <4>2, <4>3 DEF HasCall, Live
      <4>4. CASE b = c
        <5>1. callState[c] # "new"
          BY <4>2, <4>4 DEF RingInv, Unbridged
        <5>2. legOf'[c] = d
          BY <2>5, <4>2, <4>4, <5>1 DEF LegAnswered, LegEnds, DirectCall
        <5>3. CASE LegAnswered(c)
          <6>1. callState'[c] = "talking"
            BY <5>3 DEF LegAnswered, CallType
          <6> QED
            BY <5>2, <6>1 DEF HasCall, Live
        <5>4. CASE LegEnds(c)
          <6>1. Running
            BY <4>1 DEF RingInv, RingsForAcd
          <6>2. evs'[c] = Append(evs[c], "DESTROY") /\ evs[c] \in Seq({"ANSWER", "DESTROY"})
            BY <5>4, <6>1 DEF LegEnds, CallType
          <6>3. evs'[c] # <<>>
            BY <6>2
          <6> QED
            BY <5>2, <6>3 DEF HasCall
        <5> QED
          BY <2>5, <5>1, <5>3, <5>4 DEF DirectCall
      <4> QED
        BY <4>3, <4>4
    <3>6. EventsInv'
      <4>1. CASE LegEnds(c)
        <5>1. CASE Running
          <6>1. evs'[c] = Append(evs[c], "DESTROY") /\ evs[c] \in Seq({"ANSWER", "DESTROY"})
            BY <4>1, <5>1 DEF LegEnds, CallType
          <6>2. evs'[c][Len(evs'[c])] = "DESTROY"
            BY <6>1
          <6> QED
            BY <2>1, <5>1, <6>2 DEF RingInv, EventsInv, LastEvent, Live, Running
        <5>2. CASE ~Running
          <6>1. UNCHANGED <<evs, loading>> /\ \A b \in Call : evs[b] = <<>>
            BY <2>1, <4>1, <5>2 DEF LegEnds, RingInv, EventsInv, CallType
          <6> QED
            BY <6>1 DEF EventsInv
        <5> QED
          BY <5>1, <5>2
      <4>2. CASE LegAnswered(c)
        <5>1. /\ callState'[c] = "talking" /\ (evs'[c] # <<>> => Running)
          BY <4>2 DEF LegAnswered, CallType, RingInv, EventsInv
        <5> QED
          BY <2>1, <5>1 DEF RingInv, EventsInv, LastEvent, Live, Running
      <4>3. CASE \E d \in DN : DirectCall(c, d)
        <5>1. evs' = evs /\ callState'[c] = "ringing"
          BY <4>3 DEF DirectCall, CallType
        <5> QED
          BY <2>1, <5>1, EventsFrame DEF RingInv, Live
      <4> QED
        BY <2>5, <4>1, <4>2, <4>3
    <3> QED
      BY <2>1, <3>2, <3>3, <3>4, <3>5, <3>6 DEF RingInv, Running, Entry
  <2> QED
    BY <1>3, <2>3, <2>4, <2>5
<1>6. ASSUME NEW c \in Call, MissEvent(c) PROVE RingInv'
  <2>1. PICK e \in {"ANSWER", "DESTROY"} :
          /\ TakeEvent(c, e)
          /\ unheard' = IF e = "DESTROY" THEN unheard \cup {legOf[c]} ELSE unheard
    BY <1>6 DEF MissEvent
  <2>2. /\ UNCHANGED <<m_DNmap, writer, m_q, callState, legOf, loading, acdPc, acdDn, acdCall>>
        /\ Running /\ unheard \subseteq unheard'
        /\ \A b \in Call \ {c} : evs'[b] = evs[b]
    BY <1>6, <2>1 DEF MissEvent, TakeEvent, CallType
  <2>3. ASSUME NEW d \in DN, RingsForAcd(d)' PROVE HasCall(d)'
    <3>1. RingsForAcd(d)
      BY <2>2, <2>3 DEF RingsForAcd, Entry
    <3>2. PICK b \in Call : legOf[b] = d /\ (Live(b) \/ evs[b] # <<>>)
      BY <3>1 DEF RingInv, HasCall
    <3>3. CASE b # c
      BY <2>2, <3>2, <3>3 DEF HasCall, Live
    <3>4. CASE b = c
      <4>1. e # "DESTROY"
        BY <2>1, <2>3, <3>2, <3>4 DEF RingsForAcd
      <4>2. CASE Live(c)
        BY <2>2, <3>2, <3>4, <4>2 DEF HasCall, Live
      <4>3. CASE ~Live(c)
        <5>1. /\ evs[c] \in Seq({"ANSWER", "DESTROY"}) /\ evs[c] # <<>>
              /\ Head(evs[c]) # "DESTROY" /\ evs[c][Len(evs[c])] = "DESTROY"
              /\ evs'[c] = Tail(evs[c])
          BY <2>1, <4>1, <4>3 DEF TakeEvent, RingInv, EventsInv, LastEvent, CallType
        <5>2. Tail(evs[c]) # <<>>
          BY <5>1, EndComesLast
        <5> QED
          BY <2>2, <3>2, <3>4, <5>1, <5>2 DEF HasCall
      <4> QED
        BY <4>2, <4>3
    <3> QED
      BY <3>3, <3>4
  <2>4. EventsInv'
    BY <2>1, <2>2, EventsTaken DEF RingInv
  <2> QED
    BY <2>2, <2>3, <2>4 DEF RingInv, Running
<1>4. ASSUME Restart PROVE RingInv'
  <2>1. /\ acdPc' = "get" /\ m_q' = {} /\ legOf' = legOf /\ \A k \in Key : ~Entry(k)'
        /\ \A c \in Call : callState'[c] = IF callState[c] \in {"queued", "held"}
                                           THEN "failed" ELSE callState[c]
    BY <1>4 DEF Restart, NextSession, Entry
  <2>2. \A c \in Call : callState'[c] \in Unbridged => legOf'[c] = NoDN
    BY <2>1 DEF RingInv, Unbridged
  <2>3. EventsInv'
    BY <1>4 DEF Restart, EventsInv
  <2> QED
    BY <2>1, <2>2, <2>3 DEF RingInv, RingsForAcd
<1>5. ASSUME NEW r \in loading, LoadDNSet(r) PROVE RingInv'
  <2>1. PICK w \in Key : w = r.strdn
    BY DEF TableType, Row
  <2>2. /\ UNCHANGED <<m_q, callState, legOf, evs, acdPc, acdDn, acdCall>>
        /\ writer'[w] = "load" /\ ~Running
        /\ \A d \in Key \ {w} : m_DNmap'[d] = m_DNmap[d] /\ writer'[d] = writer[d]
    BY <1>5, <2>1 DEF LoadDNSet, TableType, HistType, Running
  <2>3. \A k \in Key : Entry(k)' => writer'[k] = "load"
    BY <2>2 DEF RingInv, Entry
  <2>4. \A d \in DN : ~RingsForAcd(d)'
    BY <2>3 DEF RingsForAcd
  <2>5. EventsInv'
    BY <2>2 DEF RingInv, EventsInv
  <2> QED
    BY <2>2, <2>3, <2>4, <2>5 DEF RingInv
<1> QED
  BY <1>1, <1>2, <1>3, <1>4, <1>5, <1>6 DEF EvThread, Callers, Recovery

\* RingInv is inductive relative to TypeOK and PersistInv.
LEMMA RingAlways == Spec => []RingInv
<1>1. Init => RingInv
  <2> SUFFICES ASSUME Init PROVE RingInv
    OBVIOUS
  <2>1. \A k \in Key : ~Entry(k)
    BY DEF Init, Entry
  <2>2. \A d \in DN : ~RingsForAcd(d)
    BY <2>1 DEF RingsForAcd, Key
  <2> QED
    BY <2>1, <2>2 DEF Init, RingInv, EventsInv
<1>2. TypeOK /\ PersistInv /\ RingInv /\ [Next]_vars => RingInv'
  <2> SUFFICES ASSUME TypeOK, PersistInv, RingInv, [Next]_vars PROVE RingInv'
    OBVIOUS
  <2>1. CASE Next
    BY <2>1, RingWs, RingAcd, RingEnv DEF Next
  <2>2. CASE UNCHANGED vars
    <3>1. /\ UNCHANGED <<m_DNmap, writer, m_q, callState, legOf, evs, loading>>
          /\ UNCHANGED <<acdPc, acdDn, acdCall, unheard>>
      BY <2>2 DEF vars, tableVars, callVars, acdVars, evVars, histVars
    <3>2. \A d \in DN : RingsForAcd(d)' => RingsForAcd(d)
      BY <3>1 DEF RingsForAcd, Entry
    <3> QED
      BY <3>1, <3>2, RingFrame
  <2> QED
    BY <2>1, <2>2
<1> QED
  BY <1>1, <1>2, TypeCorrect, PersistAlways, PTL DEF Spec

\* An agent inline_TransformAgent set ringing, and whose bridge did not fail, has a call:
\* the event that sets it free again is on its way or will be.
THEOREM RingingAgentsHaveCalls == Spec => []RingingHasCause
<1>1. RingInv => RingingHasCause
  BY DEF RingInv, RingingHasCause, RingsForAcd, HasCall
<1> QED
  BY <1>1, RingAlways, PTL

----------------------------------------------------------------------------
(* Calls offered to an agent *)

\* The calls about whose agent the acd thread alone decides.
Undisturbed == Call \ (direct \cup forced)

\* The scan stands on an entry that is erased, or about to be: it may match.
Gone(d) == acdPc = "scan" /\ acdAt = d /\ (~Entry(d) \/ Erasing(d))

\* The agents the acd thread can give a call: ready, matched, chosen, or on erased memory.
Free(d) == Ready(d) \/ d \in acdSeen \/ (acdPc \in Transferring /\ acdDn = d) \/ Gone(d)
Connecting == acdPc \in Transferring \ {"ring"}

\* An agent with an undisturbed call is not one of them, and is not ready again while the
\* thread connects the call.
OfferInv ==
    /\ \A c \in Call \ direct : Live(c) => legOf[c] \in DN
    /\ \A c \in Undisturbed : Live(c) => ~Free(legOf[c])
    /\ Connecting /\ acdCall \notin forced => ~Ready(acdDn)
    /\ OneOfferPerAgent

\* A step that connects no call, and makes no agent free whose calls it does not count.
LEMMA OfferStep ==
    ASSUME OfferInv, forced \subseteq forced',
           \A c \in Call \ direct' : Live(c)' => c \notin direct /\ Live(c) /\ legOf'[c] = legOf[c],
           \A d \in DN : Free(d)' => Free(d) \/ AtPhone(d) \subseteq forced',
           Connecting' /\ acdCall' \notin forced' => ~Ready(acdDn)'
    PROVE  OfferInv'
<1>1. \A c \in Call \ direct' : Live(c)' => legOf'[c] \in DN
  BY DEF OfferInv
<1>2. ASSUME NEW c \in Undisturbed', Live(c)' PROVE ~Free(legOf[c])'
  <2>1. c \in Undisturbed /\ Live(c) /\ legOf'[c] = legOf[c] /\ c \notin forced'
    BY <1>2 DEF Undisturbed
  <2>2. legOf[c] \in DN /\ ~Free(legOf[c])
    BY <2>1 DEF OfferInv, Undisturbed
  <2>3. c \in AtPhone(legOf[c])
    BY <2>1 DEF AtPhone, Undisturbed
  <2>4. PICK d \in DN : d = legOf[c]
    BY <2>2
  <2>5. ~Free(d)'
    BY <2>1, <2>2, <2>3, <2>4
  <2> QED
    BY <2>1, <2>4, <2>5 DEF Free, Ready, Entry, Gone, Erasing
<1>3. OneOfferPerAgent'
  <2> SUFFICES ASSUME NEW c1 \in Call \ direct', NEW c2 \in Call \ direct', c1 # c2, Live(c1)',
                      Live(c2)', legOf'[c1] = legOf'[c2]
               PROVE  {c1, c2} \cap forced' # {}
    BY DEF OneOfferPerAgent
  <2>1. {c1, c2} \cap forced # {}
    BY DEF OfferInv, OneOfferPerAgent
  <2> QED
    BY <2>1
<1> QED
  BY <1>1, <1>2, <1>3 DEF OfferInv, Undisturbed

\* A step of another thread: whoever makes an agent ready, or takes its entry from under
\* the scan, counts the calls at the agent's phone.
LEMMA OfferFrame ==
    ASSUME AcdType, OfferInv, UNCHANGED <<acdPc, acdDn, acdSeen, acdCall, acdAt>>,
           forced \subseteq forced',
           \A c \in Call \ direct' : Live(c)' => c \notin direct /\ Live(c) /\ legOf'[c] = legOf[c],
           \A d \in Key : /\ Ready(d)' => Ready(d) \/ AtPhone(d) \subseteq forced'
                          /\ Gone(d)' => Gone(d) \/ AtPhone(d) \subseteq forced'
    PROVE  OfferInv'
<1>1. \A d \in DN : Free(d)' => Free(d) \/ AtPhone(d) \subseteq forced'
  BY DEF Free, Key
<1>2. ASSUME Connecting', acdCall' \notin forced' PROVE ~Ready(acdDn)'
  <2>1. PICK w \in Key, b \in Call : w = acdDn /\ b = acdCall
    BY <1>2 DEF AcdType, Connecting, Transferring
  <2>2. ~Ready(w) /\ b \in AtPhone(w) /\ b \notin forced'
    BY <1>2, <2>1 DEF OfferInv, Connecting, AtPhone
  <2>3. ~Ready(w)'
    BY <2>2
  <2> QED
    BY <2>1, <2>3 DEF Ready, Entry
<1> QED
  BY <1>1, <1>2, OfferStep

\* Signin, SetDNstatus and ResetDNinfo count the calls at the agent they make ready, Signout
\* those at an agent whose entry the acd thread holds.
LEMMA OfferWs == TypeOK /\ OfferInv /\ WsThread => OfferInv'
<1> SUFFICES ASSUME TypeOK, OfferInv, WsThread PROVE OfferInv'
  OBVIOUS
<1> TableType /\ WsType /\ HistType /\ AcdType
  BY DEF TypeOK
<1> DN \subseteq Key
  BY DEF Key
<1> USE DEF tableVars, wsVars, evVars, acdVars, callVars, histVars
<1>0. ASSUME NEW k \in DN, UNCHANGED <<acdVars, callVars>>, forced \subseteq forced',
             \A d \in Key \ {k} : m_DNmap'[d] = m_DNmap[d],
             \A d \in Key : Erasing(d)' => Erasing(d),
             Entry(k)' \/ Erasing(k) \/ ~Entry(k),
             Ready(k)' => Ready(k) \/ AtPhone(k) \subseteq forced'
      PROVE  OfferInv'
  <2>1. \A d \in Key \ {k} : (Ready(d)' => Ready(d)) /\ (Entry(d)' <=> Entry(d))
    BY <1>0 DEF Ready, Entry
  <2>2. \A c \in Call : Live(c)' <=> Live(c)
    BY <1>0 DEF Live
  <2>3. \A d \in Key : Gone(d)' => Gone(d)
    BY <1>0, <2>1 DEF Gone
  <2> QED
    BY <1>0, <2>1, <2>2, <2>3, OfferFrame
<1>1. ASSUME UNCHANGED <<m_DNmap, acdVars, callVars>>, forced \subseteq forced',
             \A d \in Key : Erasing(d)' => Erasing(d) \/ ~AcdHolds(d) \/ AtPhone(d) \subseteq forced'
      PROVE  OfferInv'
  <2>1. \A d \in Key : (Ready(d)' => Ready(d)) /\ (Entry(d)' <=> Entry(d))
    BY <1>1 DEF Ready, Entry
  <2>2. \A c \in Call : Live(c)' <=> Live(c)
    BY <1>1 DEF Live
  <2>3. \A d \in Key : Gone(d)' => Gone(d) \/ AtPhone(d) \subseteq forced'
    BY <1>1, <2>1 DEF Gone, AcdHolds
  <2> QED
    BY <1>1, <2>1, <2>2, <2>3, OfferFrame
<1>2. ASSUME \/ \E d \in DN : SigninNew(d)
             \/ SigninRow \/ SetDNstatusSignal \/ SetDNstatusDelete \/ SetDNstatusInsert
      PROVE  OfferInv'
  <2>1. UNCHANGED <<m_DNmap, acdVars, callVars, forced>> /\ wsPc' # "erase"
    BY <1>2 DEF SigninNew, SigninRow, SetDNstatusSignal, SetDNstatusDelete, SetDNstatusInsert
  <2> QED
    BY <1>1, <2>1 DEF Erasing
<1>3. ASSUME SigninInsert PROVE OfferInv'
  <2>1. wsPc' # "erase" /\ UNCHANGED <<acdVars, callVars>>
    BY <1>3 DEF SigninInsert
  <2>2. CASE Entry(wsDn)
    BY <1>1, <1>3, <2>1, <2>2 DEF SigninInsert, Erasing
  <2>3. CASE ~Entry(wsDn)
    <3>1. PICK w \in DN : w = wsDn
      BY <1>3 DEF SigninInsert, WsType
    <3>2. /\ ~Entry(w) /\ forced' = forced \cup AtPhone(w)
          /\ \A d \in Key \ {w} : m_DNmap'[d] = m_DNmap[d]
      BY <1>3, <2>3, <3>1 DEF SigninInsert, TableType
    <3> QED
      BY <1>0, <2>1, <3>2 DEF Erasing
  <2> QED
    BY <2>2, <2>3
<1>4. ASSUME NEW d \in DN, NEW w, MakeReadySilently(d, w) PROVE OfferInv'
  <2>1. Entry(d)' /\ \A e \in Key \ {d} : m_DNmap'[e] = m_DNmap[e]
    BY <1>4, StatusFacts DEF MakeReadySilently, Status
  <2>2. /\ UNCHANGED <<acdVars, callVars, wsPc, wsDn>> /\ forced' = forced \cup AtPhone(d)
    BY <1>4 DEF MakeReadySilently
  <2> QED
    BY <1>0, <2>1, <2>2 DEF Erasing
<1>5. ASSUME SignoutErase PROVE OfferInv'
  <2>1. PICK w \in DN : w = wsDn
    BY <1>5 DEF SignoutErase, WsType
  <2>2. /\ UNCHANGED <<acdVars, callVars, forced>> /\ Erasing(w) /\ wsPc' = "idle"
        /\ m_DNmap'[w] = NoUser /\ \A d \in Key \ {w} : m_DNmap'[d] = m_DNmap[d]
    BY <1>5, <2>1 DEF SignoutErase, TableType, Erasing
  <2>3. ~Ready(w)'
    BY <2>2 DEF Ready, Entry
  <2> QED
    BY <1>0, <2>2, <2>3 DEF Erasing
<1>6. ASSUME NEW d \in DN, NEW s \in Status, SetDNstatus(d, s) PROVE OfferInv'
  <2>1. /\ \A e \in Key \ {d} : m_DNmap'[e] = m_DNmap[e]
        /\ Entry(d)' /\ (Ready(d)' => s = "ready")
    BY <1>6, StatusFacts DEF SetDNstatus, Registered, Ready
  <2>2. /\ UNCHANGED <<acdVars, callVars>> /\ wsPc' # "erase"
        /\ forced' = IF s = "ready" THEN forced \cup AtPhone(d) ELSE forced
    BY <1>6 DEF SetDNstatus
  <2> QED
    BY <1>0, <2>1, <2>2 DEF Erasing
<1>7. ASSUME NEW d \in DN, SignoutDelete(d) PROVE OfferInv'
  <2>1. /\ UNCHANGED <<m_DNmap, acdVars, callVars>> /\ wsPc' = "erase" /\ wsDn' = d
        /\ forced' = IF AcdHolds(d) THEN forced \cup AtPhone(d) ELSE forced
    BY <1>7 DEF SignoutDelete, CrossIf
  <2> QED
    BY <1>1, <2>1 DEF Erasing
<1> QED
  BY <1>2, <1>3, <1>4, <1>5, <1>6, <1>7 DEF WsThread, SigninAgain, ResetDNinfo

\* The end of one leg makes the agent ready during another and counts it; callers and
\* FreeSWITCH connect nobody on behalf of the acd thread; LoadDNSet counts, too.
LEMMA OfferEnv == TypeOK /\ OfferInv /\ (EvThread \/ Callers \/ Recovery) => OfferInv'
<1> SUFFICES ASSUME TypeOK, OfferInv, EvThread \/ Callers \/ Recovery PROVE OfferInv'
  OBVIOUS
<1> TableType /\ CallType /\ HistType /\ AcdType
  BY DEF TypeOK
<1> DN \subseteq Key
  BY DEF Key
<1> USE DEF tableVars, wsVars, evVars, acdVars, callVars, histVars
<1>1. ASSUME NEW k \in Key, UNCHANGED <<acdVars, wsVars, callState, legOf, direct>>,
             forced \subseteq forced',
             \A d \in Key \ {k} : m_DNmap'[d] = m_DNmap[d],
             Entry(k) => Entry(k)',
             Ready(k)' => Ready(k) \/ AtPhone(k) \subseteq forced'
      PROVE  OfferInv'
  <2>1. \A d \in Key \ {k} : (Ready(d)' => Ready(d)) /\ (Entry(d)' <=> Entry(d))
    BY <1>1 DEF Ready, Entry
  <2>2. \A c \in Call : Live(c)' <=> Live(c)
    BY <1>1 DEF Live
  <2>3. \A d \in Key : Gone(d)' => Gone(d)
    BY <1>1, <2>1 DEF Gone, Erasing
  <2> QED
    BY <1>1, <2>1, <2>2, <2>3, OfferFrame
<1>2. ASSUME NEW c \in Call, ChannelAnswer(c) \/ ChannelDestroy(c) PROVE OfferInv'
  <2>1. PICK k \in Key : k = legOf[c]
    BY DEF CallType
  <2>2. UNCHANGED <<acdVars, wsVars, callState, legOf, direct>>
    BY <1>2 DEF ChannelAnswer, ChannelDestroy
  <2>3. CASE ~Entry(k)
    <3>1. UNCHANGED <<m_DNmap, forced>>
      BY <1>2, <2>1, <2>3 DEF ChannelAnswer, ChannelDestroy
    <3>2. (Ready(k)' => Ready(k)) /\ (Entry(k)' <=> Entry(k))
      BY <3>1 DEF Ready, Entry
    <3> QED
      BY <1>1, <2>2, <3>1, <3>2
  <2>4. CASE Entry(k)
    <3>1. PICK s \in Status : /\ m_DNmap' = SetStatus(m_DNmap, k, s) /\ forced \subseteq forced'
                              /\ s = "ready" => AtPhone(k) \subseteq forced'
      BY <1>2, <2>1, <2>4 DEF ChannelAnswer, ChannelDestroy, Status
    <3>2. /\ \A e \in Key \ {k} : m_DNmap'[e] = m_DNmap[e]
          /\ Entry(k)' /\ (Ready(k)' => s = "ready")
      BY <2>4, <3>1, StatusFacts DEF Ready
    <3> QED
      BY <1>1, <2>2, <3>1, <3>2
  <2> QED
    BY <2>3, <2>4
<1>3. ASSUME UNCHANGED <<m_DNmap, acdVars, wsVars, forced>>,
             \A c \in Call \ direct' : Live(c)' => c \notin direct /\ Live(c) /\ legOf'[c] = legOf[c]
      PROVE  OfferInv'
  <2>1. \A d \in Key : (Ready(d)' => Ready(d)) /\ (Gone(d)' => Gone(d))
    BY <1>3 DEF Ready, Entry, Gone, Erasing
  <2> QED
    BY <1>3, <2>1, OfferFrame
<1>4. ASSUME DestroySignal \/ DestroySignalAgain \/ \E c \in Call : MissEvent(c) PROVE OfferInv'
  <2>1. UNCHANGED <<m_DNmap, acdVars, wsVars, forced, callState, legOf, direct>>
    BY <1>4 DEF DestroySignal, DestroySignalAgain, MissEvent
  <2>2. \A c \in Call : Live(c)' <=> Live(c)
    BY <2>1 DEF Live
  <2> QED
    BY <1>3, <2>1, <2>2
<1>5. ASSUME NEW c \in Call,
             \/ TransformAgent(c) \/ CallerHangsUp(c) \/ LegAnswered(c) \/ LegEnds(c)
             \/ \E d \in DN : DirectCall(c, d)
      PROVE  OfferInv'
  <2>1. UNCHANGED <<m_DNmap, acdVars, wsVars, forced>>
    BY <1>5 DEF TransformAgent, CallerHangsUp, LegAnswered, LegEnds, DirectCall
  <2>2. direct \subseteq direct' /\ \A b \in Call \ {c} : callState'[b] = callState[b] /\ legOf'[b] = legOf[b]
    BY <1>5 DEF TransformAgent, CallerHangsUp, LegAnswered, LegEnds, DirectCall, CallType
  <2>3. c \notin direct' => (Live(c)' => Live(c) /\ legOf'[c] = legOf[c])
    BY <1>5 DEF TransformAgent, CallerHangsUp, LegAnswered, LegEnds, DirectCall, CallType, Live
  <2>4. \A b \in Call \ direct' : Live(b)' => b \notin direct /\ Live(b) /\ legOf'[b] = legOf[b]
    BY <2>2, <2>3 DEF Live
  <2> QED
    BY <1>3, <2>1, <2>4
<1>6. ASSUME Restart PROVE OfferInv'
  <2>1. /\ acdPc' = "get" /\ acdSeen' = {} /\ UNCHANGED <<legOf, direct, forced>>
        /\ \A d \in DN : ~Entry(d)'
    BY <1>6 DEF Restart, NextSession, Entry
  <2>2. \A c \in Call : Live(c)' => Live(c)
    BY <1>6 DEF Restart, Live
  <2>3. ~Connecting' /\ \A d \in DN : ~Free(d)'
    BY <2>1 DEF Free, Connecting, Ready, Transferring, Gone
  <2> QED
    BY <2>1, <2>2, <2>3, OfferStep
<1>7. ASSUME NEW r \in loading, LoadDNSet(r) PROVE OfferInv'
  <2>1. PICK w \in Key : w = r.strdn
    BY DEF TableType, Row
  <2>2. /\ UNCHANGED <<acdVars, wsVars, callState, legOf, direct>>
        /\ forced' = forced \cup AtPhone(w)
        /\ \A d \in Key \ {w} : m_DNmap'[d] = m_DNmap[d]
    BY <1>7, <2>1 DEF LoadDNSet, TableType
  <2>3. m_DNmap'[w] \in DNuser
    BY <1>7, <2>1 DEF LoadDNSet, TableType, Row, DNuser, Status
  <2>4. Entry(w)'
    BY <2>3, NoUserAssumption DEF Entry
  <2> QED
    BY <1>1, <2>2, <2>4
<1> QED
  BY <1>2, <1>4, <1>5, <1>6, <1>7 DEF EvThread, Callers, Recovery

\* GetavailableAgent takes an agent it sees ready, or an entry that is gone, and
\* inline_TransformAgent makes it ring before the call is connected.
LEMMA OfferAcd == TypeOK /\ HeldInv /\ OfferInv /\ AcdThread => OfferInv'
<1> SUFFICES ASSUME TypeOK, HeldInv, OfferInv, AcdThread PROVE OfferInv'
  OBVIOUS
<1> TableType /\ AcdType /\ CallType /\ HistType
  BY DEF TypeOK
<1> DN \subseteq Key /\ NoDN \notin DN /\ End \notin DN
  BY DNAssumption DEF Key, End
<1> USE DEF tableVars, wsVars, evVars, acdVars, callVars, histVars
<1>0. ASSUME UNCHANGED <<m_DNmap, wsVars, direct, legOf>>, forced \subseteq forced',
             \A c \in Call : Live(c)' => Live(c),
             \A d \in DN : \/ d \in acdSeen' \/ (acdPc' \in Transferring /\ acdDn' = d) \/ Gone(d)'
                           => Free(d) \/ AtPhone(d) \subseteq forced',
             Connecting' => Connecting /\ UNCHANGED <<acdCall, acdDn>>
      PROVE  OfferInv'
  <2>1. \A d \in Key : Ready(d)' <=> Ready(d)
    BY <1>0 DEF Ready, Entry
  <2>2. \A d \in DN : Free(d)' => Free(d) \/ AtPhone(d) \subseteq forced'
    BY <1>0, <2>1 DEF Free
  <2>3. Connecting' /\ acdCall' \notin forced' => ~Ready(acdDn)'
    BY <1>0 DEF OfferInv, Ready, Entry
  <2> QED
    BY <1>0, <2>2, <2>3, OfferStep
<1>1. ASSUME NEW c \in Call, Get(c) PROVE OfferInv'
  <2>1. /\ UNCHANGED <<m_DNmap, wsVars, direct, legOf>>
        /\ acdSeen' = {} /\ acdDn' = NoDN /\ acdPc' \in {"ring", "scan"}
        /\ acdAt' \in First(Keys)
        /\ CrossIf(wsPc = "erase" /\ wsDn = acdAt', wsDn)
    BY <1>1 DEF Get
  <2>2. \A b \in Call : Live(b)' => Live(b)
    BY <1>1 DEF Get, Live, CallType
  <2>3. forced \subseteq forced'
    BY <2>1 DEF CrossIf
  <2>4. ASSUME NEW d \in DN, Gone(d)' PROVE AtPhone(d) \subseteq forced'
    <3>1. d = acdAt' /\ d \in Keys
      BY <2>1, <2>4 DEF Gone, First
    <3>2. Erasing(d)
      BY <2>1, <2>4, <3>1 DEF Gone, Erasing, Keys, Entry
    <3> QED
      BY <2>1, <3>1, <3>2 DEF CrossIf, Erasing
  <2> QED
    BY <1>0, <2>1, <2>2, <2>3, <2>4 DEF Connecting, Transferring
<1>2. ASSUME ScanMatch \/ ScanMiss \/ ScanNone \/ Wait PROVE OfferInv'
  <2>1. /\ UNCHANGED <<m_DNmap, wsVars, direct, legOf, callState>>
        /\ acdPc' \in {"scan", "wait"}
    BY <1>2 DEF ScanMatch, ScanMiss, ScanNone, Wait, Advance
  <2>2. ASSUME NEW d \in DN, d \in acdSeen' PROVE Free(d)
    <3>1. CASE d \in acdSeen
      BY <3>1 DEF Free
    <3>2. CASE d \notin acdSeen
      <4>1. acdPc = "scan" /\ d = acdAt /\ MayMatch(d)
        BY <1>2, <2>2, <3>2 DEF ScanMatch, ScanMiss, ScanNone, Wait
      <4> QED
        BY <4>1 DEF MayMatch, Candidate, Free, Gone
    <3> QED
      BY <3>1, <3>2
  <2>3. acdPc' \notin Transferring /\ \A c \in Call : Live(c)' => Live(c)
    BY <2>1 DEF Transferring, Live
  <2>4. /\ forced \subseteq forced'
        /\ \A d \in DN : Gone(d)' => AtPhone(d) \subseteq forced'
    <3>1. CASE ScanNone
      BY <3>1 DEF ScanNone, Gone
    <3>2. CASE ScanMatch \/ ScanMiss \/ Wait
      <4>1. /\ acdAt' \in Keys \cup {End}
            /\ \/ CrossIf(wsPc = "erase" /\ wsDn \in {acdAt'} \cup acdSeen', wsDn)
               \/ CrossIf(wsPc = "erase" /\ wsDn = acdAt', wsDn)
        BY <3>2 DEF ScanMatch, ScanMiss, Wait, Advance, Successors, First, KeysAfter
      <4>2. ASSUME NEW d \in DN, Gone(d)' PROVE d = acdAt' /\ Erasing(d)
        <5>1. d = acdAt' /\ d \in Keys
          BY <4>1, <4>2 DEF Gone
        <5> QED
          BY <2>1, <4>2, <5>1 DEF Gone, Erasing, Keys, Entry
      <4> QED
        BY <4>1, <4>2 DEF CrossIf, Erasing
    <3> QED
      BY <1>2, <3>1, <3>2
  <2> QED
    BY <1>0, <2>1, <2>2, <2>3, <2>4 DEF Connecting
<1>3. ASSUME ScanReturn \/ ScanChoose PROVE OfferInv'
  <2>1. /\ UNCHANGED <<m_DNmap, wsVars, forced, direct, legOf, callState>>
        /\ acdPc' = "ring" /\ acdSeen' = {}
    BY <1>3 DEF ScanReturn, ScanChoose
  <2>2. ASSUME NEW d \in DN, acdDn' = d PROVE Free(d)
    <3>1. CASE ScanReturn
      <4>1. acdPc = "scan" /\ d = acdAt /\ MayMatch(d)
        BY <2>2, <3>1 DEF ScanReturn
      <4> QED
        BY <4>1 DEF MayMatch, Candidate, Free, Gone
    <3>2. CASE ScanChoose
      BY <2>2, <3>2 DEF ScanChoose, Free
    <3> QED
      BY <1>3, <3>1, <3>2
  <2>3. \A c \in Call : Live(c)' => Live(c)
    BY <2>1 DEF Live
  <2> QED
    BY <1>0, <2>1, <2>2, <2>3 DEF Connecting, Gone
<1>4. ASSUME TransformRing PROVE OfferInv'
  <2>1. PICK w \in Key : w = acdDn
    BY DEF AcdType
  <2>2. /\ acdPc = "ring" /\ acdPc' = "deleteRow"
        /\ UNCHANGED <<acdDn, acdSeen, forced, direct, legOf, callState>>
    BY <1>4 DEF TransformRing
  <2>3. ~Ready(w)' /\ \A d \in Key \ {w} : m_DNmap'[d] = m_DNmap[d]
    <3>1. CASE Entry(w)
      <4>1. m_DNmap' = SetStatus(m_DNmap, w, "ringing") /\ "ringing" \in Status
        BY <1>4, <2>1, <3>1 DEF TransformRing, Status
      <4> QED
        BY <3>1, <4>1, StatusFacts DEF Ready
    <3>2. CASE ~Entry(w)
      <4>1. PICK g : m_DNmap' = [m_DNmap EXCEPT ![w] = Ghost(g, "ringing")]
        BY <1>4, <2>1, <3>2 DEF TransformRing
      <4>2. /\ m_DNmap'[w].m_agentstatus = "ringing"
            /\ \A d \in Key \ {w} : m_DNmap'[d] = m_DNmap[d]
        BY <4>1 DEF TableType, Ghost
      <4> QED
        BY <4>2 DEF Ready
    <3> QED
      BY <3>1, <3>2
  <2>4. \A d \in DN \ {w} : Ready(d)' => Ready(d)
    BY <2>3 DEF Ready, Entry
  <2>5. \A c \in Call : Live(c)' <=> Live(c)
    BY <2>2 DEF Live
  <2>6. \A d \in DN : Free(d)' => Free(d)
    BY <2>1, <2>2, <2>3, <2>4 DEF Free, Transferring, Gone
  <2>7. ~Ready(acdDn)'
    BY <2>1, <2>2, <2>3 DEF Ready, Entry
  <2> QED
    BY <2>2, <2>5, <2>6, <2>7, OfferStep
<1>5. ASSUME TransformDelete PROVE OfferInv'
  <2>1. PICK w \in Key, b \in Call : w = acdDn /\ b = acdCall
    BY <1>5 DEF AcdType, TransformDelete
  <2>2. /\ acdPc = "deleteRow" /\ acdPc' = "insertRow"
        /\ UNCHANGED <<acdDn, acdCall, acdSeen, direct, legOf, callState>>
        /\ forced \subseteq forced'
    BY <1>5 DEF TransformDelete
  <2>3. b \in AtPhone(w)
    BY <2>1, <2>2 DEF AtPhone, Transferring
  <2>4. /\ \A d \in Key \ {w} : m_DNmap'[d] = m_DNmap[d]
        /\ b \in forced' \/ m_DNmap'[w] = m_DNmap[w]
    BY <1>5, <2>1, <2>3 DEF TransformDelete, TableType
  <2>5. \A c \in Call : Live(c)' <=> Live(c)
    BY <2>2 DEF Live
  <2>6. \A d \in DN \ {w} : Ready(d)' => Ready(d)
    BY <2>4 DEF Ready, Entry
  <2>7. \A d \in DN : Free(d)' => Free(d)
    BY <2>1, <2>2, <2>6 DEF Free, Transferring, Gone
  <2>8. ASSUME b \notin forced' PROVE ~Ready(w)'
    <3>1. ~Ready(w)
      BY <2>1, <2>2, <2>8 DEF OfferInv, Connecting, Transferring
    <3> QED
      BY <2>4, <2>8, <3>1 DEF Ready, Entry
  <2>9. Connecting' /\ acdCall' \notin forced' => ~Ready(acdDn)'
    BY <2>1, <2>2, <2>8 DEF Ready, Entry
  <2> QED
    BY <2>2, <2>5, <2>7, <2>9, OfferStep
<1>6. ASSUME TransformInsert \/ BridgeFails PROVE OfferInv'
  <2>1. /\ UNCHANGED <<m_DNmap, wsVars, forced, direct, legOf, acdSeen>>
        /\ acdPc \in {"insertRow", "bridge"} /\ acdPc' \in {"bridge", "get"}
        /\ acdPc' = "bridge" => UNCHANGED <<acdDn, acdCall>>
    BY <1>6 DEF TransformInsert, BridgeFails, NextSession
  <2>2. \A c \in Call : Live(c)' => Live(c)
    BY <1>6 DEF TransformInsert, BridgeFails, Live, CallType
  <2>3. \A d \in DN : \/ d \in acdSeen' \/ (acdPc' \in Transferring /\ acdDn' = d) \/ Gone(d)'
                      => Free(d)
    BY <2>1 DEF Free, Transferring, Gone
  <2>4. Connecting' => Connecting /\ UNCHANGED <<acdCall, acdDn>>
    BY <2>1 DEF Connecting, Transferring
  <2> QED
    BY <1>0, <2>1, <2>2, <2>3, <2>4
<1>7. ASSUME BridgeOk PROVE OfferInv'
  <2>1. PICK w \in DN, b \in Call : w = acdDn /\ b = acdCall
    BY <1>7 DEF BridgeOk, AcdType, Key
  <2>2. /\ acdPc = "bridge" /\ acdPc' = "get" /\ acdSeen' = {}
        /\ UNCHANGED <<m_DNmap, forced, direct>>
    BY <1>7 DEF BridgeOk, NextSession, HeldInv
  <2>3. /\ legOf'[b] = w /\ \A c \in Call \ {b} : legOf'[c] = legOf[c] /\ callState'[c] = callState[c]
    BY <1>7, <2>1 DEF BridgeOk, CallType
  <2>4. Undisturbed' = Undisturbed /\ \A c \in Call \ {b} : Live(c)' <=> Live(c)
    BY <2>2, <2>3 DEF Undisturbed, Live
  <2>5. /\ b \in Undisturbed => ~Ready(w)
        /\ \A c \in Undisturbed : Live(c) => legOf[c] # w
    BY <2>1, <2>2 DEF OfferInv, Free, Connecting, Transferring, Undisturbed
  <2>6. \A d \in DN : Free(d)' => Ready(d)
    BY <2>2 DEF Free, Transferring, Ready, Entry, Gone
  <2>7. ASSUME NEW c \in Undisturbed, Live(c)' PROVE ~Free(legOf[c])'
    <3>1. CASE c = b
      BY <2>3, <2>5, <2>6, <3>1
    <3>2. CASE c # b
      <4>1. legOf[c] \in DN /\ ~Free(legOf[c])
        BY <2>4, <2>7, <3>2 DEF OfferInv, Undisturbed
      <4> QED
        BY <2>3, <2>6, <3>2, <4>1 DEF Free, Undisturbed
    <3> QED
      BY <3>1, <3>2
  <2>8. \A c \in Call \ direct' : Live(c)' => legOf'[c] \in DN
    BY <2>2, <2>3, <2>4 DEF OfferInv
  <2>9. OneOfferPerAgent'
    <3> SUFFICES ASSUME NEW c1 \in Call \ direct, NEW c2 \in Call \ direct, c1 # c2, Live(c1)',
                        Live(c2)', legOf'[c1] = legOf'[c2]
                 PROVE  {c1, c2} \cap forced # {}
      BY <2>2 DEF OneOfferPerAgent
    <3>1. ASSUME NEW c \in Call \ direct, c # b, Live(c)', legOf'[c] = w
          PROVE  c \in forced
      BY <2>3, <2>4, <2>5, <3>1 DEF Undisturbed
    <3>2. CASE c1 = b
      BY <2>3, <3>1, <3>2
    <3>3. CASE c2 = b
      BY <2>3, <3>1, <3>3
    <3>4. CASE c1 # b /\ c2 # b
      BY <2>3, <2>4, <3>4 DEF OfferInv, OneOfferPerAgent
    <3> QED
      BY <3>2, <3>3, <3>4
  <2>10. \A c \in Undisturbed' : Live(c)' => ~Free(legOf[c])'
    BY <2>4, <2>7 DEF Free, Ready, Entry, Gone, Erasing
  <2>11. ~Connecting'
    BY <2>2 DEF Connecting, Transferring
  <2> QED
    BY <2>8, <2>9, <2>10, <2>11 DEF OfferInv
<1> QED
  BY <1>1, <1>2, <1>3, <1>4, <1>5, <1>6, <1>7 DEF AcdThread

\* OfferInv is inductive relative to TypeOK and HeldInv.
LEMMA OfferAlways == Spec => []OfferInv
<1>1. Init => OfferInv
  <2> SUFFICES ASSUME Init PROVE OfferInv
    OBVIOUS
  <2>1. \A c \in Call : ~Live(c)
    BY DEF Init, Live
  <2>2. ~Connecting
    BY DEF Init, Connecting, Transferring
  <2> QED
    BY <2>1, <2>2 DEF OfferInv, OneOfferPerAgent, Undisturbed
<1>2. TypeOK /\ HeldInv /\ OfferInv /\ [Next]_vars => OfferInv'
  <2> SUFFICES ASSUME TypeOK, HeldInv, OfferInv, [Next]_vars PROVE OfferInv'
    OBVIOUS
  <2>1. CASE Next
    BY <2>1, OfferWs, OfferAcd, OfferEnv DEF Next
  <2>2. CASE UNCHANGED vars
    <3>1. /\ UNCHANGED <<m_DNmap, callState, legOf, direct, acdPc, acdDn, acdSeen, acdCall, acdAt>>
          /\ UNCHANGED <<forced, wsPc, wsDn>> /\ AcdType
      BY <2>2 DEF vars, tableVars, wsVars, callVars, acdVars, histVars, TypeOK
    <3>2. /\ \A c \in Call : Live(c)' <=> Live(c)
          /\ \A d \in Key : (Ready(d)' => Ready(d)) /\ (Gone(d)' => Gone(d))
      BY <3>1 DEF Live, Ready, Entry, Gone, Erasing
    <3> QED
      BY <3>1, <3>2, OfferFrame
  <2> QED
    BY <2>1, <2>2
<1> QED
  BY <1>1, <1>2, TypeCorrect, HeldAlways, PTL DEF Spec

\* Of two calls the acd thread has connected to one agent at a time, one was disturbed: while
\* that call was at the agent's phone, or being connected, a login, a reset, a status
\* message, a restart or the end of another leg made the agent ready, or the agent signed
\* out under the thread's hands.
THEOREM OffersAreExclusive == Spec => []OneOfferPerAgent
<1>1. OfferInv => OneOfferPerAgent
  BY DEF OfferInv
<1> QED
  BY <1>1, OfferAlways, PTL

----------------------------------------------------------------------------
(* The refinement of AcdService *)

\* A call is in the queue, or held by the acd thread, exactly when its state says so.
LEMMA ServiceInit == Init => ServiceInv
  BY DEF Init, ServiceInv, CallsIn

\* Only what the acd thread, callers and crashes do concerns AcdService.
CallOrder == <<m_q, callState, acdCall, acdPc = "get">>

\* No other thread, and no step of the acd thread between taking a call and letting it
\* go, moves a call.
LEMMA OthersMoveNoCall ==
    TypeOK /\ (WsThread \/ EvThread \/ ScanReturn \/ ScanMatch \/ ScanMiss \/ ScanChoose
               \/ ScanNone \/ Wait \/ TransformRing \/ TransformDelete \/ TransformInsert
               \/ (\E c \in Call : CallerHangsUp(c)) \/ (\E r \in loading : LoadDNSet(r)))
    => UNCHANGED CallOrder
<1> USE DEF CallOrder, tableVars, wsVars, evVars, acdVars, callVars, histVars
<1>1. WsThread => UNCHANGED CallOrder
  BY DEF WsThread, SigninNew, SigninInsert, SigninRow, SigninAgain, ResetDNinfo,
         MakeReadySilently, SignoutDelete, SignoutErase, SetDNstatus, SetDNstatusSignal,
         SetDNstatusDelete, SetDNstatusInsert
<1>2. EvThread => UNCHANGED CallOrder
  BY DEF EvThread, ChannelAnswer, ChannelDestroy, MissEvent, DestroySignal, DestroySignalAgain
<1>3. ScanReturn \/ ScanMatch \/ ScanMiss \/ ScanChoose \/ ScanNone \/ Wait
      => UNCHANGED CallOrder
  BY DEF ScanReturn, ScanMatch, ScanMiss, ScanChoose, ScanNone, Wait, Advance
<1>4. TransformRing \/ TransformDelete \/ TransformInsert => UNCHANGED CallOrder
  BY DEF TransformRing, TransformDelete, TransformInsert
<1>5. (\E c \in Call : CallerHangsUp(c)) \/ (\E r \in loading : LoadDNSet(r))
      => UNCHANGED CallOrder
  BY DEF CallerHangsUp, LoadDNSet
<1> QED
  BY <1>1, <1>2, <1>3, <1>4, <1>5

\* Every step moves calls as a step of AcdService does, or moves none, and keeps the
\* queue and the thread's local variable in agreement with the calls' states.
LEMMA ServiceStep ==
    TypeOK /\ ServiceInv /\ [Next]_vars
    => ServiceInv' /\ [Service!Next]_(Service!vars)
<1> SUFFICES ASSUME TypeOK, ServiceInv, [Next]_vars
             PROVE  ServiceInv' /\ [Service!Next]_(Service!vars)
  OBVIOUS
<1> CallType /\ AcdType
  BY DEF TypeOK
<1> DEFINE W == CallsIn({"queued"})
           T == CallsIn({"held"})
           C == CallsIn({"ringing", "talking", "ended"})
           L == CallsIn({"failed"})
<1> USE DEF Service!vars
<1>0. UNCHANGED CallOrder => ServiceInv' /\ UNCHANGED Service!vars
  BY DEF CallOrder, ServiceInv, CallsIn
<1>1. ASSUME NEW c \in Call, Get(c) PROVE ServiceInv' /\ Service!Take(c)
  <2>1. /\ callState' = [callState EXCEPT ![c] = "held"] /\ Top(c) /\ m_q' = m_q \ {c}
        /\ acdPc = "get" /\ acdPc' \in {"ring", "scan"} /\ acdCall' = c
    BY <1>1 DEF Get
  <2> QED
    <3>1. W' = W \ {c} /\ T' = T \cup {c} /\ C' = C \ {c} /\ L' = L \ {c}
      BY <2>1 DEF CallsIn, CallType
    <3>2. c \in W /\ c \notin T \cup C \cup L /\ T = {} /\ m_q = W
      BY <2>1 DEF ServiceInv, Top, CallsIn
    <3>3. W' = W \ {c} /\ T' = {c} /\ C' = C /\ L' = L
      BY <3>1, <3>2
    <3>4. ServiceInv'
      BY <2>1, <3>2, <3>3 DEF ServiceInv
    <3> QED
      BY <2>1, <3>2, <3>3, <3>4 DEF Service!Take, Top
<1>2. ASSUME BridgeOk PROVE ServiceInv' /\ Service!Connect(acdCall)
  <2>1. /\ callState' = [callState EXCEPT ![acdCall] = "ringing"] /\ acdCall \in Call
        /\ acdPc = "bridge" /\ acdPc' = "get" /\ m_q' = m_q
    BY <1>2 DEF BridgeOk, NextSession, AcdType
  <2> QED
    <3>1. PICK c \in Call : c = acdCall
      BY <2>1
    <3>2. T = {c} /\ m_q = W /\ c \notin W \cup C \cup L
      BY <2>1, <3>1 DEF ServiceInv, CallsIn
    <3>3. W' = W \ {c} /\ T' = T \ {c} /\ C' = C \cup {c} /\ L' = L \ {c}
      BY <2>1, <3>1 DEF CallsIn, CallType
    <3>4. W' = W /\ T' = {} /\ C' = C \cup {c} /\ L' = L
      BY <3>2, <3>3
    <3>5. ServiceInv'
      BY <2>1, <3>2, <3>4 DEF ServiceInv
    <3> QED
      BY <3>1, <3>2, <3>4, <3>5 DEF Service!Connect
<1>3. ASSUME BridgeFails PROVE ServiceInv' /\ Service!Lose(acdCall)
  <2>1. /\ callState' = [callState EXCEPT ![acdCall] = "failed"] /\ acdCall \in Call
        /\ acdPc = "bridge" /\ acdPc' = "get" /\ m_q' = m_q
    BY <1>3 DEF BridgeFails, NextSession, AcdType
  <2> QED
    <3>1. PICK c \in Call : c = acdCall
      BY <2>1
    <3>2. T = {c} /\ m_q = W /\ c \notin W \cup C \cup L
      BY <2>1, <3>1 DEF ServiceInv, CallsIn
    <3>3. W' = W \ {c} /\ T' = T \ {c} /\ C' = C \ {c} /\ L' = L \cup {c}
      BY <2>1, <3>1 DEF CallsIn, CallType
    <3>4. W' = W /\ T' = {} /\ C' = C /\ L' = L \cup {c}
      BY <3>2, <3>3
    <3>5. ServiceInv'
      BY <2>1, <3>2, <3>4 DEF ServiceInv
    <3> QED
      BY <3>1, <3>2, <3>4, <3>5 DEF Service!Lose
<1>4. ASSUME NEW c \in Call, TransformAgent(c) PROVE ServiceInv' /\ Service!Ask(c)
  <2>1. /\ callState' = [callState EXCEPT ![c] = "queued"] /\ callState[c] = "new"
        /\ m_q' = m_q \cup {c} /\ acdPc' = acdPc /\ acdCall' = acdCall
    BY <1>4 DEF TransformAgent, acdVars
  <2> QED
    <3>1. W' = W \cup {c} /\ T' = T \ {c} /\ C' = C \ {c} /\ L' = L \ {c}
      BY <2>1 DEF CallsIn, CallType
    <3>2. c \notin W \cup T \cup C \cup L
      BY <2>1 DEF CallsIn
    <3>3. W' = W \cup {c} /\ T' = T /\ C' = C /\ L' = L
      BY <3>1, <3>2
    <3>4. ServiceInv'
      BY <2>1, <3>3 DEF ServiceInv
    <3> QED
      BY <3>2, <3>3, <3>4 DEF Service!Ask, Service!Unknown
<1>5. ASSUME NEW c \in Call, NEW d \in DN, DirectCall(c, d)
      PROVE  ServiceInv' /\ Service!Bypass(c)
  <2>1. /\ callState' = [callState EXCEPT ![c] = "ringing"] /\ callState[c] = "new"
        /\ m_q' = m_q /\ acdPc' = acdPc /\ acdCall' = acdCall
    BY <1>5 DEF DirectCall, acdVars
  <2> QED
    <3>1. W' = W \ {c} /\ T' = T \ {c} /\ C' = C \cup {c} /\ L' = L \ {c}
      BY <2>1 DEF CallsIn, CallType
    <3>2. c \notin W \cup T \cup C \cup L
      BY <2>1 DEF CallsIn
    <3>3. W' = W /\ T' = T /\ C' = C \cup {c} /\ L' = L
      BY <3>1, <3>2
    <3>4. ServiceInv'
      BY <2>1, <3>3 DEF ServiceInv
    <3> QED
      BY <3>2, <3>3, <3>4 DEF Service!Bypass, Service!Unknown
<1>6. ASSUME NEW c \in Call, LegAnswered(c) \/ LegEnds(c)
      PROVE  ServiceInv' /\ UNCHANGED Service!vars
  <2>1. /\ \/ callState' = [callState EXCEPT ![c] = "talking"]
           \/ callState' = [callState EXCEPT ![c] = "ended"]
        /\ callState[c] \in {"ringing", "talking"}
        /\ m_q' = m_q /\ acdPc' = acdPc /\ acdCall' = acdCall
    BY <1>6 DEF LegAnswered, LegEnds, Live, acdVars
  <2>2. \A b \in Call : \/ b # c /\ callState'[b] = callState[b]
                        \/ b = c /\ callState'[b] \in {"talking", "ended"}
    BY <2>1 DEF CallType
  <2> QED
    BY <2>1, <2>2 DEF ServiceInv, CallsIn
<1>7. ASSUME Restart PROVE ServiceInv' /\ Service!Crash
  <2>1. /\ callState' = [c \in Call |-> IF callState[c] \in {"queued", "held"}
                                        THEN "failed" ELSE callState[c]]
        /\ m_q' = {} /\ acdPc' = "get"
    BY <1>7 DEF Restart, NextSession
  <2> QED
    BY <2>1 DEF ServiceInv, Service!Crash, CallsIn
<1>8. CASE UNCHANGED vars
  BY <1>0, <1>8 DEF vars, CallOrder, acdVars, callVars
<1>9. CASE WsThread \/ EvThread
  BY <1>0, <1>9, OthersMoveNoCall
<1>10. CASE AcdThread
  <2>1. CASE \E c \in Call : Get(c)
    BY <1>1, <2>1 DEF Service!Next
  <2>2. CASE BridgeOk \/ BridgeFails
    <3>1. acdCall \in Call
      BY <2>2 DEF BridgeOk, BridgeFails, AcdType
    <3> QED
      BY <1>2, <1>3, <2>2, <3>1 DEF Service!Next
  <2>3. CASE ~(\E c \in Call : Get(c)) /\ ~BridgeOk /\ ~BridgeFails
    BY <1>0, <1>10, <2>3, OthersMoveNoCall DEF AcdThread
  <2> QED
    BY <2>1, <2>2, <2>3
<1>11. CASE Callers
  BY <1>0, <1>4, <1>5, <1>6, <1>11, OthersMoveNoCall DEF Callers, Service!Next
<1>12. CASE Recovery
  BY <1>0, <1>7, <1>12, OthersMoveNoCall DEF Recovery, Service!Next
<1> QED
  BY <1>8, <1>9, <1>10, <1>11, <1>12 DEF Next

\* For any calls, agents and companies: ACDqueue::run serves calls in the order in which
\* they began, one at a time, connects none twice, and loses one from the queue only in a
\* crash.
THEOREM ServiceRefined == Spec => CallsServedInOrder
<1>1. Init => Service!Init
  BY DEF Init, Service!Init, CallsIn
<1>2. Spec => []TypeOK
  BY TypeCorrect
<1> QED
  BY <1>1, <1>2, ServiceInit, ServiceStep, PTL DEF Spec, CallsServedInOrder, Service!Spec

=============================================================================

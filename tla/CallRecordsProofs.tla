------------------------- MODULE CallRecordsProofs -------------------------
(***************************************************************************)
(* The life of a call record and of the route table, for any calls, agents *)
(* and tables.  Every event FreeSWITCH has sent is on its way, missed or   *)
(* processed, in the order of a call's life; from which of them process_   *)
(* event has seen follows what the record says and where it is.            *)
(***************************************************************************)
EXTENDS CallRecords, WellFoundedInduction, TLAPS

----------------------------------------------------------------------------
(* The inductive invariant *)

\* The order in which FreeSWITCH sends the events of a call.
Rank(e) ==
    CASE e = "none" -> 0
      [] e = "ORIGINATE" -> 1
      [] e = "ANSWER" -> 2
      [] e = "HANGUP" -> 3
      [] e = "HANGUP_COMPLETE" -> 4
      [] e = "DESTROY" -> 5

\* The events of a call that have been sent, those on their way, and those missed.
Sent(c) == {e \in EventKind : /\ Rank(e) <= Rank(stage[c])
                              /\ e = "ANSWER" => c \in answered}
Coming(c) == {e \in EventKind : \E i \in 1..Len(stream) : stream[i] = <<c, e>>}
Missed(c) == {e \in EventKind : <<c, e>> \in misses}

\* The events of a call arrive in the order of their ranks.
StreamOrdered ==
    \A i, j \in 1..Len(stream) :
        i < j /\ stream[i][1] = stream[j][1] => Rank(stream[i][2]) < Rank(stream[j][2])

\* What is missed is older than what is coming; after an event that is coming, all are.
EventsAccounted ==
    \A c \in Call :
        /\ Coming(c) \subseteq Sent(c) /\ Missed(c) \subseteq Sent(c)
        /\ \A e \in Missed(c), f \in Coming(c) : Rank(e) < Rank(f)
        /\ \A e \in Coming(c), f \in Sent(c) : Rank(e) < Rank(f) => f \in Coming(c)
        /\ c \in answered => stage[c] \notin {"none", "ORIGINATE"}

\* Nothing is under way in a process that has died.
DeadIsEmpty == ~alive => stream = <<>> /\ evPc = "recv" /\ wsPc = "idle"

\* The record agrees with the events that process_event has seen.
Agrees(record, c) ==
    /\ record.N_callstate = "1" <=> "ANSWER" \in Sent(c) \ (Coming(c) \cup Missed(c))
    /\ record.N_call_duration = "billsec"
          <=> "HANGUP_COMPLETE" \in Sent(c) \ (Coming(c) \cup Missed(c))

\* All events of the call are behind process_event, and CHANNEL_DESTROY was not missed.
Through(c) ==
    /\ "DESTROY" \in Sent(c)
    /\ Coming(c) = {} /\ "DESTROY" \notin Missed(c)

\* A record in callInfoMap.
Mapped(c) ==
    callInfoMap[c] # Absent =>
        /\ c \in accepted /\ written[c] = <<>>
        /\ "ORIGINATE" \in Sent(c) \ (Coming(c) \cup Missed(c))
        /\ "DESTROY" \in Sent(c) => "DESTROY" \in Coming(c) \cup Missed(c)
        /\ Agrees(callInfoMap[c], c)

\* A call in the middle of CHANNEL_ORIGINATE.
BeingSetUp(c) ==
    evCall = c /\ evPc \in {"originate", "gateway"} =>
        /\ written[c] = <<>>
        /\ "ORIGINATE" \in Sent(c)
        /\ Coming(c) = Sent(c) \ {"ORIGINATE"} /\ Missed(c) = {}
        /\ evPc = "originate" =>
              /\ callInfoMap[c] = Absent
              /\ evInfo.N_callstate = "c1" /\ evInfo.N_call_duration = "0"

\* A record that has left the map and is not written yet.
BeingWritten(c) ==
    evCall = c /\ evPc = "insert" =>
        /\ callInfoMap[c] = Absent /\ written[c] = <<>>
        /\ Through(c)
        /\ Agrees(evInfo, c)

\* A record in the database.
Stored(c) ==
    written[c] # <<>> =>
        /\ Len(written[c]) = 1
        /\ callInfoMap[c] = Absent /\ evCall # c
        /\ Through(c)
        /\ Agrees(written[c][1], c)

\* A record that was accepted and not lost is in one of the three places.
NotGone(c) ==
    c \in accepted \ lost =>
        callInfoMap[c] # Absent \/ (evPc = "insert" /\ evCall = c) \/ written[c] # <<>>

LifeOf(c) == Mapped(c) /\ BeingSetUp(c) /\ BeingWritten(c) /\ Stored(c) /\ NotGone(c)

RecordInv ==
    /\ TypeOK
    /\ StreamOrdered /\ EventsAccounted /\ DeadIsEmpty
    /\ \A c \in Call : LifeOf(c)

\* A table in the middle of a reload: the rows pushed and those still to push are a table.
PartOf(table) ==
    /\ Len(table) = Len(m_gRoute) + Len(result)
    /\ \A i \in 1..Len(m_gRoute) : table[i] = m_gRoute[i]
    /\ \A i \in 1..Len(result) : table[Len(m_gRoute) + i] = result[i]

\* The call in hand was set up, so far, with the table that is there now.
SetUpWithThis ==
    evPc \in {"originate", "gateway"} /\ evCall \notin blurred =>
        /\ ~Reloading /\ ~cut
        /\ evInfo.N_company_id = getGroupId(m_gRoute, CallerOf[evCall])

RouteInv ==
    /\ TableComplete
    /\ Reloading => PartOf(asRead)
    /\ SetUpWithThis
    /\ dialled \in [Call -> {Absent} \cup
                       [company : Nat, gateway : Nat \cup {Absent}, ordered : BOOLEAN]]
    /\ RecordOfOneRow /\ GatewayOfCompany

CallInv == RecordInv /\ RouteInv

----------------------------------------------------------------------------
(* Events *)

\* The ranks tell the events apart.
LEMMA RankFacts ==
    /\ Rank("none") = 0 /\ Rank("ORIGINATE") = 1 /\ Rank("ANSWER") = 2
    /\ Rank("HANGUP") = 3 /\ Rank("HANGUP_COMPLETE") = 4 /\ Rank("DESTROY") = 5
    /\ \A e \in EventKind : Rank(e) \in 1..5
    /\ \A e, f \in EventKind : Rank(e) = Rank(f) => e = f
<1>1. Rank("none") = 0 /\ Rank("ORIGINATE") = 1 /\ Rank("ANSWER") = 2
  BY DEF Rank
<1>2. Rank("HANGUP") = 3 /\ Rank("HANGUP_COMPLETE") = 4 /\ Rank("DESTROY") = 5
  BY DEF Rank
<1> QED
  BY <1>1, <1>2 DEF EventKind

\* Sent, Coming and Missed depend on what FreeSWITCH and the stream have only.
LEMMA SameEvents ==
    ASSUME NEW c \in Call, UNCHANGED <<stage, answered>>
    PROVE  /\ Sent(c)' = Sent(c)
           /\ UNCHANGED stream => Coming(c)' = Coming(c)
           /\ UNCHANGED misses => Missed(c)' = Missed(c)
  BY DEF Sent, Coming, Missed

\* process_event takes the oldest of the call's events.
LEMMA ReceivesFacts ==
    ASSUME RecordInv, NEW c \in Call, NEW e \in EventKind, Receives(c, e)
    PROVE  /\ stream' \in Seq(Call \X EventKind)
           /\ StreamOrdered'
           /\ e \in Coming(c) /\ e \in Sent(c)
           /\ Coming(c)' = Coming(c) \ {e}
           /\ \A d \in Call \ {c} : Coming(d)' = Coming(d)
           /\ \A f \in Coming(c)' : Rank(e) < Rank(f)
           /\ \A f \in Sent(c) : Rank(e) < Rank(f) => f \in Coming(c)'
           /\ \A f \in Missed(c) : Rank(f) < Rank(e)
<1> DEFINE n == Len(stream)
<1>1. stream \in Seq(Call \X EventKind) /\ stream # <<>> /\ stream' = Tail(stream)
  BY DEF RecordInv, TypeOK, Receives
<1>2. /\ stream' \in Seq(Call \X EventKind) /\ n \in Nat \ {0} /\ Len(stream') = n - 1
      /\ \A i \in 1..n - 1 : stream'[i] = stream[i + 1]
      /\ stream[1] = <<c, e>>
  BY <1>1 DEF Receives
<1>3. \A i \in 1..n : stream[i] \in Call \X EventKind
  BY <1>1
<1> HIDE DEF n
<1>4. \A i, j \in 1..n :
         i < j /\ stream[i][1] = stream[j][1] => Rank(stream[i][2]) < Rank(stream[j][2])
  BY DEF RecordInv, StreamOrdered, n
<1>5. StreamOrdered'
  <2> SUFFICES ASSUME NEW i \in 1..n - 1, NEW j \in 1..n - 1, i < j,
                      stream'[i][1] = stream'[j][1]
               PROVE  Rank(stream'[i][2]) < Rank(stream'[j][2])
    BY <1>2 DEF StreamOrdered
  <2>1. i + 1 \in 1..n /\ j + 1 \in 1..n /\ i + 1 < j + 1
    BY <1>2
  <2>2. stream'[i] = stream[i + 1] /\ stream'[j] = stream[j + 1]
    BY <1>2
  <2> QED
    BY <2>1, <2>2, <1>4
<1>6. e \in Coming(c)
  BY <1>2 DEF Coming, n
<1>7. \A i \in 2..n, f \in EventKind : stream[i] = <<c, f>> => Rank(e) < Rank(f)
  <2> TAKE i \in 2..n, f \in EventKind
  <2> HAVE stream[i] = <<c, f>>
  <2>1. stream[1][1] = c /\ stream[1][2] = e /\ stream[i][1] = c /\ stream[i][2] = f
    BY <1>2
  <2>2. 1 \in 1..n /\ i \in 1..n /\ 1 < i
    BY <1>2
  <2> QED
    BY <2>1, <2>2, <1>4
<1>8. ASSUME NEW d \in Call, NEW f \in EventKind
      PROVE  f \in Coming(d)' <=> \E i \in 2..n : stream[i] = <<d, f>>
  <2>1. f \in Coming(d)' <=> \E i \in 1..n - 1 : stream'[i] = <<d, f>>
    BY <1>2 DEF Coming
  <2>2. ASSUME NEW i \in 1..n - 1, stream'[i] = <<d, f>>
        PROVE  \E j \in 2..n : stream[j] = <<d, f>>
    <3>1. i + 1 \in 2..n /\ stream[i + 1] = <<d, f>>
      BY <2>2, <1>2
    <3> QED
      BY <3>1
  <2>3. ASSUME NEW j \in 2..n, stream[j] = <<d, f>>
        PROVE  \E i \in 1..n - 1 : stream'[i] = <<d, f>>
    <3>1. j - 1 \in 1..n - 1 /\ (j - 1) + 1 = j
      BY <1>2
    <3>2. stream'[j - 1] = <<d, f>>
      BY <3>1, <2>3, <1>2
    <3> QED
      BY <3>1, <3>2
  <2> QED
    BY <2>1, <2>2, <2>3
<1>9. ASSUME NEW d \in Call, NEW f \in EventKind
      PROVE  f \in Coming(d) <=> \/ \E i \in 2..n : stream[i] = <<d, f>>
                                 \/ d = c /\ f = e
  <2>1. f \in Coming(d) <=> \E i \in 1..n : stream[i] = <<d, f>>
    BY DEF Coming, n
  <2>2. \A i \in 1..n : i = 1 \/ i \in 2..n
    BY <1>2
  <2>3. 1 \in 1..n /\ 2..n \subseteq 1..n
    BY <1>2
  <2>4. stream[1] = <<d, f>> <=> d = c /\ f = e
    BY <1>2
  <2> QED
    BY <2>1, <2>2, <2>3, <2>4
<1>10. \A f \in EventKind : f \in Coming(c)' => Rank(e) < Rank(f)
  BY <1>8, <1>7
<1>11. Coming(c) \subseteq EventKind /\ Coming(c)' \subseteq EventKind
  BY DEF Coming
<1>12. e \notin Coming(c)'
  BY <1>10, RankFacts
<1>13. Coming(c)' = Coming(c) \ {e}
  BY <1>8, <1>9, <1>11, <1>12
<1>14. ASSUME NEW d \in Call \ {c} PROVE Coming(d)' = Coming(d)
  <2>1. Coming(d) \subseteq EventKind /\ Coming(d)' \subseteq EventKind
    BY DEF Coming
  <2>2. \A f \in EventKind : f \in Coming(d)' <=> f \in Coming(d)
    BY <1>8, <1>9, <1>14
  <2> QED
    BY <2>1, <2>2
<1>15. e \in Sent(c) /\ (\A f \in Missed(c) : Rank(f) < Rank(e))
       /\ \A f \in Sent(c) : Rank(e) < Rank(f) => f \in Coming(c)
  BY <1>6 DEF RecordInv, EventsAccounted
<1>16. \A f \in Sent(c) : Rank(e) < Rank(f) => f \in Coming(c)'
  BY <1>13, <1>15, RankFacts
<1> QED
  BY <1>2, <1>5, <1>6, <1>10, <1>11, <1>13, <1>14, <1>15, <1>16

\* FreeSWITCH sends the next event of a call: it is coming, or missed by a dead process.
LEMMA FsEventFacts ==
    ASSUME RecordInv, NEW c \in Call, NEW e \in EventKind, FsEvent(c, e)
    PROVE  /\ Sent(c)' = Sent(c) \cup {e}
           /\ \A f \in Sent(c) : Rank(f) < Rank(e)
           /\ c \in answered' => stage'[c] \notin {"none", "ORIGINATE"}
           /\ \A d \in Call \ {c} : /\ Sent(d)' = Sent(d) /\ stage'[d] = stage[d]
                                    /\ d \in answered' <=> d \in answered
<1>1. /\ stage' = [stage EXCEPT ![c] = e] /\ e \in FollowedBy(stage[c])
      /\ answered' = IF e = "ANSWER" THEN answered \cup {c} ELSE answered
      /\ stage \in [Call -> EventKind \cup {"none"}]
      /\ c \in answered => stage[c] \notin {"none", "ORIGINATE"}
  BY DEF FsEvent, RecordInv, TypeOK, EventsAccounted
<1>2. stage'[c] = e /\ \A d \in Call \ {c} : stage'[d] = stage[d]
  BY <1>1
<1>3. \A d \in Call \ {c} : Sent(d)' = Sent(d)
  BY <1>1, <1>2 DEF Sent
<1>4. \/ stage[c] = "none" /\ e = "ORIGINATE"
      \/ stage[c] = "ORIGINATE" /\ e \in {"ANSWER", "HANGUP"}
      \/ stage[c] = "ANSWER" /\ e = "HANGUP"
      \/ stage[c] = "HANGUP" /\ e = "HANGUP_COMPLETE"
      \/ stage[c] = "HANGUP_COMPLETE" /\ e = "DESTROY"
  BY <1>1 DEF FollowedBy, EventKind
<1>5. \A f \in EventKind : f \in {"ORIGINATE", "ANSWER", "HANGUP", "HANGUP_COMPLETE", "DESTROY"}
  BY DEF EventKind
<1>6. ASSUME NEW f \in EventKind PROVE f \in Sent(c)' <=> f \in Sent(c) \cup {e}
  BY <1>1, <1>2, <1>4, <1>5, RankFacts DEF Sent
<1>7. Sent(c)' = Sent(c) \cup {e}
  BY <1>6 DEF Sent
<1>8. \A f \in Sent(c) : Rank(f) < Rank(e)
  BY <1>4, RankFacts DEF Sent
<1>9. c \in answered' => stage'[c] \notin {"none", "ORIGINATE"}
  BY <1>1, <1>2, <1>4
<1> QED
  BY <1>1, <1>2, <1>3, <1>7, <1>8, <1>9

\* What the step does not touch of a call stays true.
LEMMA OtherCalls ==
    ASSUME NEW d \in Call, LifeOf(d),
           Sent(d)' = Sent(d), Coming(d)' = Coming(d), Missed(d)' = Missed(d),
           callInfoMap'[d] = callInfoMap[d], written'[d] = written[d],
           d \in accepted' <=> d \in accepted, d \in lost => d \in lost',
           \/ evCall # d /\ evCall' # d
           \/ UNCHANGED evVars
    PROVE  LifeOf(d)'
  BY DEF LifeOf, Mapped, BeingSetUp, BeingWritten, Stored, NotGone, Agrees, Through, evVars

----------------------------------------------------------------------------
(* The steps and the records *)

\* The rows loaddb has read are rows, and all of them are the table.
LEMMA LoadedRows ==
    ASSUME stored \in Seq(Route), NEW n \in 0..Len(stored)
    PROVE  Loaded(n) \in Seq(Route) /\ (n = Len(stored) => Loaded(n) = stored)
<1>1. /\ Loaded(n) \in Seq(Route) /\ Len(Loaded(n)) = n
      /\ \A i \in 1..n : Loaded(n)[i] = stored[i]
  BY DEF Loaded
<1> QED
  BY <1>1

\* main starts with no calls.
LEMMA RecordInit == Init => RecordInv
<1> SUFFICES ASSUME Init PROVE RecordInv
  OBVIOUS
<1>1. NewInfo \in Record
  BY DEF NewInfo, Record
<1>2. TypeOK
  <2>0. m_gRoute \in Seq(Route) /\ cut \in BOOLEAN
    <3>1. PICK n \in 0..Len(stored) : m_gRoute = Loaded(n) /\ cut = (n # Len(stored))
      BY DEF Init
    <3>2. stored \in Seq(Route)
      BY TablesAssumption DEF Init
    <3> QED
      BY <3>1, <3>2, LoadedRows
  <2>1. /\ stored \in Tables /\ asRead \in Tables /\ result \in Seq(Route)
        /\ reloads \in 0..MaxReloads /\ restarts \in 0..MaxRestarts /\ m_DNmap \subseteq Agent
    BY TablesAssumption, BoundsAssumption DEF Init
  <2>2. /\ callInfoMap \in [Call -> Record \cup {Absent}] /\ evInfo \in Record
        /\ stage \in [Call -> EventKind \cup {"none"}]
        /\ stream \in Seq(Call \X EventKind) /\ written \in [Call -> Seq(Record)]
    BY <1>1 DEF Init
  <2> QED
    BY <2>0, <2>1, <2>2 DEF Init, TypeOK
<1>3. StreamOrdered /\ DeadIsEmpty
  BY DEF Init, StreamOrdered, DeadIsEmpty
<1>4. ASSUME NEW c \in Call PROVE Sent(c) = {} /\ Coming(c) = {} /\ Missed(c) = {}
  BY RankFacts DEF Init, Sent, Coming, Missed
<1>5. EventsAccounted
  BY <1>4 DEF Init, EventsAccounted
<1>6. ASSUME NEW c \in Call PROVE LifeOf(c)
  BY <1>4, AbsentAssumption
     DEF Init, LifeOf, Mapped, BeingSetUp, BeingWritten, Stored, NotGone
<1> QED
  BY <1>2, <1>3, <1>5, <1>6 DEF RecordInv

\* The tables, the sign-ins and a restart touch no call.
LEMMA RecordQuiet ==
    ASSUME RecordInv,
           UNCHANGED <<callInfoMap, evVars, fsVars, outVars, accepted, misses, lost>>,
           TypeOK', DeadIsEmpty'
    PROVE  RecordInv'
<1>1. UNCHANGED <<callInfoMap, evPc, evCall, evInfo, stage, answered, stream, written,
                  accepted, misses, lost>>
  BY DEF evVars, fsVars, outVars
<1>2. \A c \in Call : Sent(c)' = Sent(c) /\ Coming(c)' = Coming(c) /\ Missed(c)' = Missed(c)
  BY <1>1, SameEvents
<1>3. StreamOrdered'
  BY <1>1 DEF RecordInv, StreamOrdered
<1>4. EventsAccounted'
  BY <1>1, <1>2 DEF RecordInv, EventsAccounted
<1>5. ASSUME NEW c \in Call PROVE LifeOf(c)'
  BY <1>1, <1>2, OtherCalls DEF RecordInv, evVars
<1> QED
  BY <1>3, <1>4, <1>5 DEF RecordInv

\* The process dies: what was coming is missed, what was in memory is lost.
LEMMA RecordDies ==
    ASSUME RecordInv, Dies
    PROVE  RecordInv'
<1> USE DEF RecordInv
<1>1. /\ UNCHANGED <<stored, m_gRoute, reloads, asRead, cut, m_DNmap, stage, answered,
                     written, restarts, accepted, blurred>>
      /\ callInfoMap' = [c \in Call |-> Absent]
      /\ evPc' = "recv" /\ evCall' = Absent /\ evInfo' = NewInfo
      /\ stream' = <<>> /\ result' = <<>> /\ wsPc' = "idle" /\ alive' = FALSE
      /\ lost' = lost \cup {c \in Call : callInfoMap[c] # Absent} \cup ({evCall} \ {Absent})
      /\ misses' = misses \cup Range(stream)
  BY DEF Dies, outVars
<1>2. \A x : x \in Range(stream) <=> \E i \in 1..Len(stream) : stream[i] = x
  <2>1. stream \in Seq(Call \X EventKind)
    BY DEF TypeOK
  <2> QED
    BY <2>1 DEF Range
<1>3. NewInfo \in Record
  BY DEF NewInfo, Record
<1>4. Range(stream) \subseteq Call \X EventKind
  <2>1. \A i \in 1..Len(stream) : stream[i] \in Call \X EventKind
    BY DEF TypeOK
  <2> QED
    BY <1>2, <2>1
<1>5. TypeOK'
  <2>1. callInfoMap' \in [Call -> Record \cup {Absent}] /\ evInfo' \in Record
    BY <1>1, <1>3
  <2>2. lost' \subseteq Call /\ misses' \subseteq Call \X EventKind
    BY <1>1, <1>4 DEF TypeOK
  <2>3. stream' \in Seq(Call \X EventKind) /\ result' \in Seq(Route)
    BY <1>1
  <2>4. evCall' \in Call \cup {Absent} /\ (evCall' = Absent <=> evPc' = "recv")
    BY <1>1
  <2> QED
    BY <1>1, <2>1, <2>2, <2>3, <2>4 DEF TypeOK
<1>6. StreamOrdered' /\ DeadIsEmpty'
  BY <1>1 DEF StreamOrdered, DeadIsEmpty
<1>7. ASSUME NEW c \in Call
      PROVE  Sent(c)' = Sent(c) /\ Coming(c)' = {} /\ Missed(c)' = Missed(c) \cup Coming(c)
  <2>1. Sent(c)' = Sent(c) /\ Coming(c)' = {}
    BY <1>1 DEF Sent, Coming
  <2>2. \A e \in EventKind : <<c, e>> \in misses' <=> <<c, e>> \in misses \/ e \in Coming(c)
    BY <1>1, <1>2 DEF Coming
  <2>3. Missed(c)' = Missed(c) \cup Coming(c)
    BY <2>2 DEF Missed, Coming
  <2> QED
    BY <2>1, <2>3
<1>8. EventsAccounted'
  BY <1>1, <1>7 DEF EventsAccounted
<1>9. ASSUME NEW c \in Call PROVE LifeOf(c)'
  <2>1. callInfoMap'[c] = Absent /\ evCall' # c /\ written'[c] = written[c]
    BY <1>1, AbsentAssumption
  <2>2. Mapped(c)' /\ BeingSetUp(c)' /\ BeingWritten(c)'
    BY <2>1 DEF Mapped, BeingSetUp, BeingWritten
  <2>3. Stored(c)'
    BY <2>1, <1>7 DEF LifeOf, Stored, Through, Agrees
  <2>4. NotGone(c)'
    BY <2>1, <1>1, AbsentAssumption DEF LifeOf, NotGone
  <2> QED
    BY <2>2, <2>3, <2>4 DEF LifeOf
<1> QED
  BY <1>5, <1>6, <1>8, <1>9

\* An event more, for a process that lives or one that does not.
LEMMA RecordFsEvent ==
    ASSUME RecordInv, NEW c \in Call, NEW e \in EventKind, FsEvent(c, e)
    PROVE  RecordInv'
<1> USE DEF RecordInv
<1>1. /\ UNCHANGED <<callInfoMap, evVars, written, accepted, lost, alive, wsPc>>
      /\ stage' = [stage EXCEPT ![c] = e]
      /\ stream' = IF alive THEN Append(stream, <<c, e>>) ELSE stream
      /\ misses' = IF alive THEN misses ELSE misses \cup {<<c, e>>}
      /\ stream \in Seq(Call \X EventKind) /\ alive \in BOOLEAN
      /\ misses \subseteq Call \X EventKind
  BY DEF FsEvent, tableVars, outVars, procVars, TypeOK
<1>2. /\ Sent(c)' = Sent(c) \cup {e}
      /\ \A f \in Sent(c) : Rank(f) < Rank(e)
      /\ c \in answered' => stage'[c] \notin {"none", "ORIGINATE"}
      /\ \A d \in Call \ {c} : /\ Sent(d)' = Sent(d) /\ stage'[d] = stage[d]
                               /\ d \in answered' <=> d \in answered
  BY FsEventFacts
<1>3. TypeOK'
  <2>1. stream' \in Seq(Call \X EventKind) /\ misses' \subseteq Call \X EventKind
    BY <1>1
  <2>2. stage' \in [Call -> EventKind \cup {"none"}] /\ answered' \subseteq Call
    BY <1>1 DEF FsEvent, TypeOK
  <2> QED
    BY <2>1, <2>2 DEF FsEvent, TypeOK, tableVars, evVars, outVars, procVars
<1>4. CASE alive
  <2> DEFINE n == Len(stream)
  <2>1. /\ n \in Nat /\ Len(stream') = n + 1 /\ stream'[n + 1] = <<c, e>>
        /\ \A i \in 1..n : stream'[i] = stream[i]
    BY <1>1, <1>4
  <2> HIDE DEF n
  <2>2. ASSUME NEW d \in Call, NEW f \in EventKind
        PROVE  f \in Coming(d)' <=> f \in Coming(d) \/ (d = c /\ f = e)
    <3>1. f \in Coming(d)' <=> \E i \in 1..n + 1 : stream'[i] = <<d, f>>
      BY <2>1 DEF Coming
    <3>2. f \in Coming(d) <=> \E i \in 1..n : stream[i] = <<d, f>>
      BY DEF Coming, n
    <3>3. \A i \in 1..n + 1 : i \in 1..n \/ i = n + 1
      BY <2>1
    <3>4. n + 1 \in 1..n + 1 /\ 1..n \subseteq 1..n + 1
      BY <2>1
    <3>5. stream'[n + 1] = <<d, f>> <=> d = c /\ f = e
      BY <2>1
    <3> QED
      BY <2>1, <3>1, <3>2, <3>3, <3>4, <3>5
  <2>3. \A d \in Call : Coming(d)' = IF d = c THEN Coming(c) \cup {e} ELSE Coming(d)
    <3> TAKE d \in Call
    <3>1. Coming(d) \subseteq EventKind /\ Coming(d)' \subseteq EventKind
      BY DEF Coming
    <3> QED
      BY <2>2, <3>1
  <2>4. \A d \in Call : Missed(d)' = Missed(d)
    BY <1>1, <1>4 DEF Missed
  <2>5. \A i \in 1..n : stream[i][1] = c => stream[i][2] \in Coming(c)
    <3> TAKE i \in 1..n
    <3> HAVE stream[i][1] = c
    <3>1. stream[i] = <<stream[i][1], stream[i][2]>> /\ stream[i][2] \in EventKind
      BY <1>1 DEF n
    <3> QED
      BY <3>1 DEF Coming, n
  <2>6. StreamOrdered'
    <3> SUFFICES ASSUME NEW i \in 1..n + 1, NEW j \in 1..n + 1, i < j,
                        stream'[i][1] = stream'[j][1]
                 PROVE  Rank(stream'[i][2]) < Rank(stream'[j][2])
      BY <2>1 DEF StreamOrdered
    <3>1. i \in 1..n /\ stream'[i] = stream[i]
      BY <2>1
    <3>2. CASE j \in 1..n
      BY <3>1, <3>2, <2>1 DEF StreamOrdered, n
    <3>3. CASE j = n + 1
      <4>1. stream'[j][1] = c /\ stream'[j][2] = e
        BY <3>3, <2>1
      <4>2. stream[i][2] \in Sent(c)
        BY <4>1, <3>1, <2>5 DEF EventsAccounted
      <4> QED
        BY <4>1, <4>2, <3>1, <1>2
    <3> QED
      BY <3>2, <3>3, <2>1
  <2>7. EventsAccounted'
    <3> SUFFICES ASSUME NEW d \in Call
                 PROVE  /\ Coming(d)' \subseteq Sent(d)' /\ Missed(d)' \subseteq Sent(d)'
                        /\ \A g \in Missed(d)', f \in Coming(d)' : Rank(g) < Rank(f)
                        /\ \A g \in Coming(d)', f \in Sent(d)' :
                              Rank(g) < Rank(f) => f \in Coming(d)'
                        /\ d \in answered' => stage'[d] \notin {"none", "ORIGINATE"}
      BY DEF EventsAccounted
    <3>1. CASE d # c
      BY <3>1, <2>3, <2>4, <1>2 DEF EventsAccounted
    <3>2. CASE d = c
      <4>1. Coming(c)' = Coming(c) \cup {e} /\ Missed(c)' = Missed(c)
        BY <2>3, <2>4
      <4>2. Coming(c) \subseteq Sent(c) /\ Missed(c) \subseteq Sent(c)
        BY DEF EventsAccounted
      <4>3. \A g \in Coming(c)', f \in Sent(c)' : Rank(g) < Rank(f) => f \in Coming(c)'
        <5>1. \A f \in Sent(c) : Rank(f) \in Int /\ Rank(e) \in Int
          BY RankFacts DEF Sent
        <5> QED
          BY <5>1, <4>1, <1>2 DEF EventsAccounted
      <4>4. \A g \in Missed(c)', f \in Coming(c)' : Rank(g) < Rank(f)
        BY <4>1, <4>2, <1>2 DEF EventsAccounted
      <4> QED
        BY <3>2, <4>1, <4>2, <4>3, <4>4, <1>2
    <3> QED
      BY <3>1, <3>2
  <2>8. DeadIsEmpty'
    BY <1>1, <1>4 DEF DeadIsEmpty
  <2>9. ASSUME NEW d \in Call PROVE LifeOf(d)'
    <3>1. CASE d # c
      BY <3>1, <1>1, <1>2, <2>3, <2>4, OtherCalls
    <3>2. CASE d = c
      <4>1. /\ Coming(c)' = Coming(c) \cup {e} /\ Missed(c)' = Missed(c)
            /\ Sent(c)' = Sent(c) \cup {e} /\ e \notin Sent(c)
        BY <2>3, <2>4, <1>2, RankFacts
      <4>2. "DESTROY" \notin Sent(c)
        BY <1>2, RankFacts
      <4>3. \A x : (Agrees(x, c) => Agrees(x, c)')
        BY <4>1 DEF Agrees
      <4>4. Mapped(c)'
        BY <4>1, <1>1, <4>3 DEF LifeOf, Mapped, Agrees
      <4>5. BeingSetUp(c)'
        BY <4>1, <1>1 DEF LifeOf, BeingSetUp, evVars
      <4>6. BeingWritten(c)' /\ Stored(c)' /\ NotGone(c)'
        BY <4>2, <1>1 DEF LifeOf, BeingWritten, Stored, NotGone, evVars, Through
      <4> QED
        BY <3>2, <4>4, <4>5, <4>6 DEF LifeOf
    <3> QED
      BY <3>1, <3>2
  <2> QED
    BY <1>3, <2>6, <2>7, <2>8, <2>9
<1>5. CASE ~alive
  <2>1. stream' = stream /\ stream = <<>> /\ evPc = "recv" /\ wsPc = "idle"
        /\ misses' = misses \cup {<<c, e>>}
    BY <1>1, <1>5 DEF DeadIsEmpty
  <2>2. \A d \in Call : Coming(d) = {} /\ Coming(d)' = {}
    BY <2>1 DEF Coming
  <2>3. \A d \in Call : Missed(d)' = IF d = c THEN Missed(c) \cup {e} ELSE Missed(d)
    BY <2>1 DEF Missed
  <2>4. StreamOrdered' /\ DeadIsEmpty'
    BY <2>1, <1>1 DEF StreamOrdered, DeadIsEmpty, evVars
  <2>5. EventsAccounted'
    BY <1>2, <2>2, <2>3 DEF EventsAccounted
  <2>6. ASSUME NEW d \in Call PROVE LifeOf(d)'
    <3>1. CASE d # c
      BY <3>1, <1>1, <1>2, <2>2, <2>3, OtherCalls
    <3>2. CASE d = c
      <4>1. /\ Coming(c)' = {} /\ Coming(c) = {} /\ Missed(c)' = Missed(c) \cup {e}
            /\ Sent(c)' = Sent(c) \cup {e} /\ e \notin Sent(c)
        BY <2>2, <2>3, <1>2, RankFacts
      <4>2. "DESTROY" \notin Sent(c)
        BY <1>2, RankFacts
      <4>4. Mapped(c)'
        BY <4>1, <1>1 DEF LifeOf, Mapped, Agrees
      <4>5. BeingSetUp(c)'
        BY <2>1, <1>1 DEF BeingSetUp, evVars
      <4>6. BeingWritten(c)' /\ Stored(c)' /\ NotGone(c)'
        BY <4>2, <1>1 DEF LifeOf, BeingWritten, Stored, NotGone, evVars, Through
      <4> QED
        BY <3>2, <4>4, <4>5, <4>6 DEF LifeOf
    <3> QED
      BY <3>1, <3>2
  <2> QED
    BY <1>3, <2>4, <2>5, <2>6
<1> QED
  BY <1>4, <1>5

\* An event is taken from the stream, and processed or missed.  process_event had nothing
\* in hand, and nothing has been written for the call.
LEMMA AfterReceive ==
    ASSUME RecordInv, NEW c \in Call, NEW e \in EventKind, Receives(c, e),
           misses' = misses \/ misses' = misses \cup {<<c, e>>}
    PROVE  /\ stream' \in Seq(Call \X EventKind)
           /\ StreamOrdered' /\ EventsAccounted'
           /\ Sent(c)' = Sent(c) /\ e \in Sent(c) /\ e \in Coming(c) /\ e \notin Missed(c)
           /\ Coming(c)' = Coming(c) \ {e}
           /\ \A f \in Coming(c)' : Rank(e) < Rank(f)
           /\ \A f \in Sent(c) : Rank(e) < Rank(f) => f \in Coming(c)'
           /\ \A f \in Missed(c) : Rank(f) < Rank(e)
           /\ misses' = misses => Missed(c)' = Missed(c)
           /\ misses' # misses => Missed(c)' = Missed(c) \cup {e}
           /\ \A d \in Call \ {c} : /\ Sent(d)' = Sent(d) /\ Coming(d)' = Coming(d)
                                    /\ Missed(d)' = Missed(d)
           /\ alive /\ evPc = "recv" /\ evCall = Absent
           /\ written[c] = <<>>
<1>1. /\ stream' \in Seq(Call \X EventKind)
      /\ StreamOrdered'
      /\ e \in Coming(c) /\ e \in Sent(c)
      /\ Coming(c)' = Coming(c) \ {e}
      /\ \A d \in Call \ {c} : Coming(d)' = Coming(d)
      /\ \A f \in Coming(c)' : Rank(e) < Rank(f)
      /\ \A f \in Sent(c) : Rank(e) < Rank(f) => f \in Coming(c)'
      /\ \A f \in Missed(c) : Rank(f) < Rank(e)
  BY ReceivesFacts
<1>2. UNCHANGED <<stage, answered>> /\ alive /\ evPc = "recv" /\ evCall = Absent
  BY DEF Receives, RecordInv, TypeOK
<1>3. \A d \in Call : Sent(d)' = Sent(d)
  BY <1>2, SameEvents
<1>4. \A d \in Call \ {c} : Missed(d)' = Missed(d)
  BY DEF Missed
<1>5. /\ misses' = misses => Missed(c)' = Missed(c)
      /\ misses' # misses => Missed(c)' = Missed(c) \cup {e}
  BY DEF Missed
<1>6. e \notin Missed(c)
  BY <1>1, RankFacts
<1>7. written[c] = <<>>
  BY <1>1 DEF RecordInv, LifeOf, Stored, Through
<1>8. EventsAccounted'
  <2> SUFFICES ASSUME NEW d \in Call
               PROVE  /\ Coming(d)' \subseteq Sent(d)' /\ Missed(d)' \subseteq Sent(d)'
                      /\ \A g \in Missed(d)', f \in Coming(d)' : Rank(g) < Rank(f)
                      /\ \A g \in Coming(d)', f \in Sent(d)' :
                            Rank(g) < Rank(f) => f \in Coming(d)'
                      /\ d \in answered' => stage'[d] \notin {"none", "ORIGINATE"}
    BY DEF EventsAccounted
  <2>1. CASE d # c
    BY <2>1, <1>1, <1>2, <1>3, <1>4 DEF RecordInv, EventsAccounted
  <2>2. CASE d = c
    <3>1. /\ Coming(c) \subseteq Sent(c) /\ Missed(c) \subseteq Sent(c)
          /\ \A g \in Missed(c), f \in Coming(c) : Rank(g) < Rank(f)
          /\ \A g \in Coming(c), f \in Sent(c) : Rank(g) < Rank(f) => f \in Coming(c)
          /\ c \in answered => stage[c] \notin {"none", "ORIGINATE"}
      BY DEF RecordInv, EventsAccounted
    <3>2. Missed(c)' = Missed(c) \/ Missed(c)' = Missed(c) \cup {e}
      BY <1>5
    <3>3. \A g \in Missed(c)', f \in Coming(c)' : Rank(g) < Rank(f)
      BY <1>1, <3>1, <3>2
    <3>4. \A f \in Sent(c) : Rank(f) \in Int
      BY RankFacts DEF Sent
    <3>5. \A g \in Coming(c)', f \in Sent(c) : Rank(g) < Rank(f) => f \in Coming(c)'
      BY <1>1, <3>1, <3>4
    <3> QED
      BY <1>1, <1>2, <1>3, <2>2, <3>1, <3>2, <3>3, <3>5
  <2> QED
    BY <2>1, <2>2
<1> QED
  BY <1>1, <1>2, <1>3, <1>4, <1>5, <1>6, <1>7, <1>8

\* The event is missed, ignored, or changes nothing that is written in the end.
LEMMA RecordPass ==
    ASSUME RecordInv, NEW c \in Call, NEW e \in EventKind, Receives(c, e),
           UNCHANGED <<tableVars, m_DNmap, callInfoMap, evVars, outVars, procVars,
                       accepted, lost, blurred>>,
           \/ misses' = misses \cup {<<c, e>>}
           \/ misses' = misses /\ (callInfoMap[c] = Absent \/ e = "HANGUP")
    PROVE  RecordInv'
<1> USE DEF RecordInv
<1>0. misses' = misses \/ misses' = misses \cup {<<c, e>>}
  OBVIOUS
<1>1. /\ stream' \in Seq(Call \X EventKind)
      /\ StreamOrdered' /\ EventsAccounted'
      /\ Sent(c)' = Sent(c) /\ Coming(c)' = Coming(c) \ {e}
      /\ e \in Coming(c) /\ e \notin Missed(c)
      /\ misses' = misses => Missed(c)' = Missed(c)
      /\ misses' # misses => Missed(c)' = Missed(c) \cup {e}
      /\ \A d \in Call \ {c} : /\ Sent(d)' = Sent(d) /\ Coming(d)' = Coming(d)
                               /\ Missed(d)' = Missed(d)
      /\ alive /\ evPc = "recv" /\ evCall = Absent
      /\ written[c] = <<>>
  BY <1>0, AfterReceive
<1>2. TypeOK'
  BY <1>1 DEF TypeOK, Receives, tableVars, evVars, outVars, procVars
<1>3. DeadIsEmpty'
  BY <1>1 DEF DeadIsEmpty, procVars
<1>4. UNCHANGED <<callInfoMap, evPc, evCall, evInfo, written, accepted, lost>>
  BY DEF evVars, outVars
<1>5. ASSUME NEW d \in Call PROVE LifeOf(d)'
  <2>1. CASE d # c
    BY <2>1, <1>1, <1>4, OtherCalls DEF evVars
  <2>2. CASE d = c
    <3>1. evCall' # c
      BY <1>1, <1>4, AbsentAssumption
    <3>2. BeingSetUp(c)' /\ BeingWritten(c)' /\ Stored(c)' /\ NotGone(c)'
      BY <3>1, <1>1, <1>4 DEF LifeOf, BeingSetUp, BeingWritten, Stored, NotGone
    <3>3. Mapped(c)'
      <4>1. CASE callInfoMap[c] = Absent
        BY <4>1, <1>4 DEF Mapped
      <4>2. CASE callInfoMap[c] # Absent /\ misses' # misses
        BY <4>2, <1>1, <1>4 DEF LifeOf, Mapped, Agrees
      <4>3. CASE callInfoMap[c] # Absent /\ misses' = misses /\ e = "HANGUP"
        BY <4>3, <1>1, <1>4 DEF LifeOf, Mapped, Agrees
      <4>4. CASE callInfoMap[c] # Absent /\ misses' = misses /\ e # "HANGUP"
        <5>1. <<c, e>> \in misses
          BY <4>4
        <5> QED
          BY <5>1, <1>1 DEF Missed
      <4> QED
        BY <4>1, <4>2, <4>3, <4>4
    <3> QED
      BY <2>2, <3>2, <3>3 DEF LifeOf
  <2> QED
    BY <2>1, <2>2
<1> QED
  BY <1>1, <1>2, <1>3, <1>5

\* CHANNEL_ORIGINATE of an agent's call: nothing has been seen of the call before.
LEMMA RecordOriginate ==
    ASSUME RecordInv, NEW c \in Call, Originate(c)
    PROVE  RecordInv'
<1> USE DEF RecordInv
<1> DEFINE e == "ORIGINATE"
<1>0. e \in EventKind /\ Receives(c, e) /\ misses' = misses
  BY DEF Originate, EventKind
<1>1. /\ stream' \in Seq(Call \X EventKind)
      /\ StreamOrdered' /\ EventsAccounted'
      /\ Sent(c)' = Sent(c) /\ Coming(c)' = Coming(c) \ {e} /\ e \in Sent(c)
      /\ e \in Coming(c)
      /\ \A f \in Coming(c)' : Rank(e) < Rank(f)
      /\ \A f \in Sent(c) : Rank(e) < Rank(f) => f \in Coming(c)'
      /\ \A f \in Missed(c) : Rank(f) < Rank(e)
      /\ Missed(c)' = Missed(c)
      /\ \A d \in Call \ {c} : /\ Sent(d)' = Sent(d) /\ Coming(d)' = Coming(d)
                               /\ Missed(d)' = Missed(d)
      /\ alive /\ evPc = "recv" /\ evCall = Absent
      /\ written[c] = <<>>
  BY <1>0, AfterReceive
<1>2. /\ UNCHANGED <<tableVars, m_DNmap, callInfoMap, outVars, procVars, accepted, misses,
                     lost, stage, answered>>
      /\ evPc' = "originate" /\ evCall' = c
      /\ evInfo' = [NewInfo EXCEPT !.N_company_id = getGroupId(m_gRoute, CallerOf[c])]
      /\ blurred' \subseteq blurred \cup {c}
  BY DEF Originate, Receives, BlursIfIncomplete
<1>3. getGroupId(m_gRoute, CallerOf[c]) \in Nat
  <2>1. \A i \in RowOf(m_gRoute, CallerOf[c]) : m_gRoute[i].group_id \in Nat
    <3>1. \A i \in 1..Len(m_gRoute) : m_gRoute[i] \in Route
      BY DEF TypeOK
    <3>2. \A r \in Route : r.group_id \in Nat
      BY DEF Route
    <3> QED
      BY <3>1, <3>2 DEF RowOf
  <2> QED
    BY <2>1 DEF getGroupId
<1>4. evInfo' \in Record /\ evInfo'.N_callstate = "c1" /\ evInfo'.N_call_duration = "0"
  BY <1>2, <1>3 DEF NewInfo, Record
<1>5. TypeOK'
  BY <1>1, <1>2, <1>4, AbsentAssumption DEF TypeOK, tableVars, outVars, procVars
<1>6. DeadIsEmpty'
  BY <1>1, <1>2 DEF DeadIsEmpty, procVars
<1>7. ASSUME NEW d \in Call PROVE LifeOf(d)'
  <2>1. UNCHANGED <<callInfoMap, written, accepted, lost>>
    BY <1>2 DEF outVars
  <2>2. CASE d # c
    <3>1. evCall # d /\ evCall' # d
      BY <1>1, <1>2, <2>2, AbsentAssumption
    <3> QED
      BY <2>1, <2>2, <3>1, <1>1, OtherCalls
  <2>3. CASE d = c
    <3>1. callInfoMap[c] = Absent
      BY <1>1 DEF LifeOf, Mapped
    <3>2. \A f \in Sent(c) \ {e} : Rank(e) < Rank(f)
      BY RankFacts DEF Sent, EventKind
    <3>3. Coming(c) \subseteq Sent(c)
      BY DEF EventsAccounted
    <3>4. Coming(c)' = Sent(c)' \ {e}
      BY <1>1, <3>2, <3>3
    <3>5. Missed(c) = {}
      <4>1. \A f \in Missed(c) : Rank(f) \in 1..5
        BY RankFacts DEF Missed
      <4> QED
        BY <1>1, <4>1, RankFacts
    <3>6. Mapped(c)' /\ BeingSetUp(c)' /\ BeingWritten(c)' /\ Stored(c)'
      BY <1>1, <1>2, <1>4, <2>1, <3>1, <3>4, <3>5
         DEF Mapped, BeingSetUp, BeingWritten, Stored
    <3>7. NotGone(c)'
      BY <1>1, <1>2, <2>1 DEF LifeOf, NotGone
    <3> QED
      BY <2>3, <3>6, <3>7 DEF LifeOf
  <2> QED
    BY <2>2, <2>3
<1> QED
  BY <1>1, <1>5, <1>6, <1>7

\* CHANNEL_ANSWER and CHANNEL_HANGUP_COMPLETE change the record in the map.
LEMMA RecordUpdate ==
    ASSUME RecordInv, NEW c \in Call, Answer(c) \/ HangupComplete(c)
    PROVE  RecordInv'
<1> USE DEF RecordInv
<1> DEFINE old == callInfoMap[c]
<1>0. PICK e \in {"ANSWER", "HANGUP_COMPLETE"} :
         /\ Receives(c, e)
         /\ callInfoMap' = [callInfoMap EXCEPT ![c] =
               IF old = Absent THEN old
               ELSE IF e = "ANSWER" THEN [old EXCEPT !.N_callstate = "1"]
                                    ELSE [old EXCEPT !.N_call_duration = "billsec"]]
  <2>1. CASE Answer(c)
    BY <2>1 DEF Answer, Update
  <2>2. CASE HangupComplete(c)
    BY <2>2 DEF HangupComplete, Update
  <2> QED
    BY <2>1, <2>2
<1>2. UNCHANGED <<tableVars, m_DNmap, evVars, outVars, procVars, histVars>>
  BY DEF Answer, HangupComplete, Update
<1>3. e \in EventKind /\ misses' = misses
  BY <1>2 DEF EventKind, histVars
<1>1. /\ stream' \in Seq(Call \X EventKind)
      /\ StreamOrdered' /\ EventsAccounted'
      /\ Sent(c)' = Sent(c) /\ Coming(c)' = Coming(c) \ {e} /\ e \in Sent(c)
      /\ Missed(c)' = Missed(c) /\ e \notin Missed(c) /\ e \in Coming(c)
      /\ \A d \in Call \ {c} : /\ Sent(d)' = Sent(d) /\ Coming(d)' = Coming(d)
                               /\ Missed(d)' = Missed(d)
      /\ alive /\ evPc = "recv" /\ evCall = Absent
      /\ written[c] = <<>>
  BY <1>0, <1>3, AfterReceive
<1>4. old \in Record \cup {Absent}
  BY DEF TypeOK
<1>5. callInfoMap' \in [Call -> Record \cup {Absent}]
  BY <1>0, <1>4 DEF TypeOK, Record
<1>6. TypeOK'
  BY <1>0, <1>1, <1>2, <1>5
     DEF TypeOK, Receives, tableVars, evVars, outVars, procVars, histVars
<1>7. DeadIsEmpty'
  BY <1>1, <1>2 DEF DeadIsEmpty, procVars
<1>8. UNCHANGED <<evPc, evCall, evInfo, written, accepted, lost>>
  BY <1>2 DEF evVars, outVars, histVars
<1>9. ASSUME NEW d \in Call PROVE LifeOf(d)'
  <2>1. CASE d # c
    <3>1. callInfoMap'[d] = callInfoMap[d]
      BY <1>0, <2>1 DEF TypeOK
    <3> QED
      BY <2>1, <3>1, <1>1, <1>8, OtherCalls DEF evVars
  <2>2. CASE d = c
    <3>1. evCall' # c /\ written'[c] = <<>>
      BY <1>1, <1>8, AbsentAssumption
    <3>2. callInfoMap'[c] = Absent <=> old = Absent
      <4>1. callInfoMap'[c] = IF old = Absent THEN old
               ELSE IF e = "ANSWER" THEN [old EXCEPT !.N_callstate = "1"]
                                    ELSE [old EXCEPT !.N_call_duration = "billsec"]
        BY <1>0 DEF TypeOK
      <4>2. old # Absent => callInfoMap'[c] \in Record
        BY <4>1, <1>4 DEF Record
      <4> QED
        BY <4>1, <4>2, AbsentAssumption
    <3>3. BeingSetUp(c)' /\ BeingWritten(c)' /\ Stored(c)' /\ NotGone(c)'
      BY <3>1, <3>2, <1>1, <1>8 DEF LifeOf, BeingSetUp, BeingWritten, Stored, NotGone
    <3>4. CASE old = Absent
      BY <3>2, <3>3, <3>4, <2>2 DEF Mapped, LifeOf
    <3>5. CASE old # Absent
      <4>1. old \in Record
        BY <3>5, <1>4
      <4>2. /\ callInfoMap'[c].N_callstate =
                  IF e = "ANSWER" THEN "1" ELSE old.N_callstate
            /\ callInfoMap'[c].N_call_duration =
                  IF e = "ANSWER" THEN old.N_call_duration ELSE "billsec"
        BY <4>1, <3>5, <1>0 DEF TypeOK, Record
      <4>3. Mapped(c)
        BY DEF LifeOf
      <4>4. Agrees(callInfoMap[c], c)'
        BY <4>2, <4>3, <3>5, <1>1 DEF Mapped, Agrees
      <4>5. Mapped(c)'
        BY <4>3, <4>4, <3>5, <1>1, <1>8 DEF Mapped
      <4> QED
        BY <4>5, <3>3, <2>2 DEF LifeOf
    <3> QED
      BY <3>4, <3>5
  <2> QED
    BY <2>1, <2>2
<1> QED
  BY <1>1, <1>6, <1>7, <1>9

\* CHANNEL_DESTROY: the record leaves the map and is in hand.
LEMMA RecordDestroy ==
    ASSUME RecordInv, NEW c \in Call, Destroy(c)
    PROVE  RecordInv'
<1> USE DEF RecordInv
<1> DEFINE e == "DESTROY"
<1>2. /\ UNCHANGED <<tableVars, m_DNmap, outVars, procVars, histVars>>
      /\ evPc' = "insert" /\ evCall' = c /\ evInfo' = callInfoMap[c]
      /\ callInfoMap' = [callInfoMap EXCEPT ![c] = Absent]
      /\ callInfoMap[c] # Absent
  BY DEF Destroy
<1>0. e \in EventKind /\ Receives(c, e) /\ misses' = misses
  BY <1>2 DEF Destroy, EventKind, histVars
<1>1. /\ stream' \in Seq(Call \X EventKind)
      /\ StreamOrdered' /\ EventsAccounted'
      /\ Sent(c)' = Sent(c) /\ Coming(c)' = Coming(c) \ {e} /\ e \in Sent(c)
      /\ e \notin Missed(c)
      /\ \A f \in Coming(c)' : Rank(e) < Rank(f)
      /\ Missed(c)' = Missed(c)
      /\ \A d \in Call \ {c} : /\ Sent(d)' = Sent(d) /\ Coming(d)' = Coming(d)
                               /\ Missed(d)' = Missed(d)
      /\ alive /\ evPc = "recv" /\ evCall = Absent
      /\ written[c] = <<>>
  BY <1>0, AfterReceive
<1>3. evInfo' \in Record /\ callInfoMap' \in [Call -> Record \cup {Absent}]
  BY <1>2 DEF TypeOK
<1>4. TypeOK'
  BY <1>0, <1>1, <1>2, <1>3, AbsentAssumption
     DEF TypeOK, Receives, tableVars, outVars, procVars, histVars
<1>5. DeadIsEmpty'
  BY <1>1, <1>2 DEF DeadIsEmpty, procVars
<1>6. UNCHANGED <<written, accepted, lost>>
  BY <1>2 DEF outVars, histVars
<1>7. ASSUME NEW d \in Call PROVE LifeOf(d)'
  <2>1. CASE d # c
    <3>1. evCall # d /\ evCall' # d /\ callInfoMap'[d] = callInfoMap[d]
      BY <1>1, <1>2, <2>1, AbsentAssumption DEF TypeOK
    <3> QED
      BY <2>1, <3>1, <1>1, <1>6, OtherCalls
  <2>2. CASE d = c
    <3>1. Coming(c)' = {}
      <4>1. \A f \in Coming(c)' : Rank(f) \in 1..5 /\ 5 < Rank(f)
        BY <1>1, RankFacts DEF Coming
      <4> QED
        BY <4>1
    <3>2. callInfoMap'[c] = Absent
      BY <1>2 DEF TypeOK
    <3>3. Agrees(callInfoMap[c], c)
      BY <1>2 DEF LifeOf, Mapped
    <3>4. Agrees(evInfo, c)'
      BY <1>1, <1>2, <3>3, <3>1, RankFacts DEF Agrees
    <3>5. Mapped(c)' /\ BeingSetUp(c)' /\ BeingWritten(c)' /\ Stored(c)' /\ NotGone(c)'
      BY <1>1, <1>2, <1>6, <3>1, <3>2, <3>4
         DEF Mapped, BeingSetUp, BeingWritten, Stored, NotGone, Through
    <3> QED
      BY <2>2, <3>5 DEF LifeOf
  <2> QED
    BY <2>1, <2>2
<1> QED
  BY <1>1, <1>4, <1>5, <1>7

\* The second half of CHANNEL_ORIGINATE puts the record into the map.
LEMMA RecordStore ==
    ASSUME RecordInv, OriginateStore
    PROVE  RecordInv'
<1> USE DEF RecordInv
<1> DEFINE c == evCall
           number == getGroupNumber(m_gRoute, CallerOf[c])
           info == [evInfo EXCEPT !.N_extension_number = number]
<1>1. /\ UNCHANGED <<tableVars, m_DNmap, evCall, fsVars, outVars, procVars, misses, lost>>
      /\ evPc = "originate" /\ evPc' = "gateway" /\ alive
      /\ evInfo' = info /\ callInfoMap' = [callInfoMap EXCEPT ![c] = info]
      /\ accepted' = accepted \cup {c} /\ blurred' \subseteq blurred \cup {c}
  BY DEF OriginateStore, BlursIfIncomplete
<1>2. c \in Call
  BY <1>1 DEF TypeOK
<1>3. number \in Nat
  <2>1. \A i \in RowOf(m_gRoute, CallerOf[c]) : m_gRoute[i].group \in Nat
    <3>1. \A i \in 1..Len(m_gRoute) : m_gRoute[i] \in Route
      BY DEF TypeOK
    <3>2. \A r \in Route : r.group \in Nat
      BY DEF Route
    <3> QED
      BY <3>1, <3>2 DEF RowOf
  <2> QED
    BY <2>1 DEF getGroupNumber
<1> HIDE DEF number
<1>4. /\ info \in Record /\ info.N_callstate = evInfo.N_callstate
      /\ info.N_call_duration = evInfo.N_call_duration
  <2>1. evInfo \in Record
    BY DEF TypeOK
  <2> QED
    BY <2>1, <1>3 DEF Record
<1> HIDE DEF info
<1>5. TypeOK'
  <2>1. callInfoMap' \in [Call -> Record \cup {Absent}] /\ evInfo' \in Record
    BY <1>1, <1>2, <1>4 DEF TypeOK
  <2>2. accepted' \subseteq Call /\ blurred' \subseteq Call
    BY <1>1, <1>2 DEF TypeOK
  <2> QED
    BY <1>1, <2>1, <2>2 DEF TypeOK, tableVars, fsVars, outVars, procVars
<1>6. \A d \in Call : Sent(d)' = Sent(d) /\ Coming(d)' = Coming(d) /\ Missed(d)' = Missed(d)
  BY <1>1, SameEvents DEF fsVars
<1>7. StreamOrdered' /\ EventsAccounted' /\ DeadIsEmpty'
  BY <1>1, <1>6 DEF StreamOrdered, EventsAccounted, DeadIsEmpty, fsVars, procVars
<1>8. ASSUME NEW d \in Call PROVE LifeOf(d)'
  <2>1. UNCHANGED <<written, lost>>
    BY <1>1 DEF outVars
  <2>2. CASE d # c
    <3>1. evCall # d /\ evCall' # d /\ callInfoMap'[d] = callInfoMap[d]
          /\ (d \in accepted' <=> d \in accepted)
      BY <1>1, <2>2 DEF TypeOK
    <3> QED
      BY <3>1, <2>1, <1>6, OtherCalls
  <2>3. CASE d = c
    <3>1. BeingSetUp(d)
      BY DEF LifeOf
    <3>2. /\ written[d] = <<>> /\ "ORIGINATE" \in Sent(d)
          /\ Coming(d) = Sent(d) \ {"ORIGINATE"} /\ Missed(d) = {}
          /\ evInfo.N_callstate = "c1" /\ evInfo.N_call_duration = "0"
      BY <3>1, <1>1, <2>3 DEF BeingSetUp
    <3>3. callInfoMap'[d] = info /\ info # Absent /\ d \in accepted' /\ evCall' = d
      BY <1>1, <2>3, <1>4, AbsentAssumption DEF TypeOK
    <3>4. Sent(d)' = Sent(d) /\ Coming(d)' = Coming(d) /\ Missed(d)' = Missed(d)
      BY <1>6
    <3>5. Mapped(d)'
      BY <3>2, <3>3, <3>4, <2>1, <1>4 DEF Mapped, Agrees
    <3>6. BeingSetUp(d)' /\ BeingWritten(d)' /\ Stored(d)' /\ NotGone(d)'
      BY <3>2, <3>3, <3>4, <2>1, <1>1 DEF BeingSetUp, BeingWritten, Stored, NotGone
    <3> QED
      BY <3>5, <3>6 DEF LifeOf
  <2> QED
    BY <2>2, <2>3
<1> QED
  BY <1>5, <1>7, <1>8

\* After the bridge, or the insert, process_event has nothing in hand.
LEMMA RecordDone ==
    ASSUME RecordInv, OriginateBridge \/ insertCallInfoSql \/ InsertFails
    PROVE  RecordInv'
<1> USE DEF RecordInv
<1>1. /\ UNCHANGED <<tableVars, m_DNmap, callInfoMap, fsVars, procVars, accepted, misses,
                     blurred>>
      /\ evPc' = "recv" /\ evCall' = Absent /\ evInfo' = NewInfo /\ alive
      /\ evPc \in {"gateway", "insert"}
  BY DEF OriginateBridge, Bridges, insertCallInfoSql, InsertFails, BackToRecv, outVars,
         histVars
<1>2. evCall \in Call
  BY <1>1 DEF TypeOK
<1>3. NewInfo \in Record
  BY DEF NewInfo, Record
<1>4. \/ evPc = "gateway" /\ UNCHANGED <<written, lost>>
      \/ /\ evPc = "insert" /\ UNCHANGED lost
         /\ written' = [written EXCEPT ![evCall] = Append(@, evInfo)]
      \/ evPc = "insert" /\ lost' = lost \cup {evCall} /\ UNCHANGED written
  BY DEF OriginateBridge, Bridges, insertCallInfoSql, InsertFails, outVars, histVars
<1>5. TypeOK'
  <2>1. written' \in [Call -> Seq(Record)] /\ lost' \subseteq Call
    <3>1. CASE evPc = "insert" /\ written' = [written EXCEPT ![evCall] = Append(@, evInfo)]
      <4>1. Append(written[evCall], evInfo) \in Seq(Record)
        BY <1>2 DEF TypeOK
      <4> QED
        BY <3>1, <4>1, <1>2, <1>4 DEF TypeOK
    <3>2. CASE UNCHANGED written
      BY <3>2, <1>2, <1>4 DEF TypeOK
    <3> QED
      BY <3>1, <3>2, <1>4
  <2> QED
    BY <1>1, <1>3, <2>1, AbsentAssumption DEF TypeOK, tableVars, fsVars, procVars
<1>6. \A d \in Call : Sent(d)' = Sent(d) /\ Coming(d)' = Coming(d) /\ Missed(d)' = Missed(d)
  BY <1>1, SameEvents DEF fsVars
<1>7. StreamOrdered' /\ EventsAccounted' /\ DeadIsEmpty'
  BY <1>1, <1>6 DEF StreamOrdered, EventsAccounted, DeadIsEmpty, fsVars, procVars
<1>8. ASSUME NEW d \in Call PROVE LifeOf(d)'
  <2>0. evCall' # d /\ callInfoMap'[d] = callInfoMap[d]
    BY <1>1, AbsentAssumption
  <2>1. CASE d # evCall
    <3>1. written'[d] = written[d] /\ (d \in accepted' <=> d \in accepted)
          /\ (d \in lost => d \in lost')
      BY <1>1, <1>4, <2>1 DEF TypeOK
    <3> QED
      BY <2>0, <2>1, <3>1, <1>6, OtherCalls
  <2>2. CASE d = evCall
    <3>0. Sent(d)' = Sent(d) /\ Coming(d)' = Coming(d) /\ Missed(d)' = Missed(d)
      BY <1>6
    <3>1. CASE evPc = "gateway" /\ UNCHANGED <<written, lost>>
      BY <2>0, <2>2, <3>0, <3>1, <1>1
         DEF LifeOf, Mapped, BeingSetUp, BeingWritten, Stored, NotGone, Agrees, Through
    <3>2. CASE evPc = "insert"
      <4>1. callInfoMap[d] = Absent /\ written[d] = <<>> /\ Through(d) /\ Agrees(evInfo, d)
        BY <2>2, <3>2 DEF LifeOf, BeingWritten
      <4>2. Mapped(d)' /\ BeingSetUp(d)' /\ BeingWritten(d)'
        BY <2>0, <4>1 DEF Mapped, BeingSetUp, BeingWritten
      <4>3. CASE UNCHANGED lost /\ written' = [written EXCEPT ![evCall] = Append(@, evInfo)]
        <5>1. written'[d] = Append(<<>>, evInfo)
          BY <2>2, <4>1, <4>3 DEF TypeOK
        <5>2. Len(written'[d]) = 1 /\ written'[d][1] = evInfo /\ written'[d] # <<>>
          BY <5>1
        <5>3. Through(d)' /\ Agrees(written[d][1], d)'
          BY <3>0, <4>1, <5>2 DEF Through, Agrees
        <5> QED
          BY <2>0, <4>1, <4>2, <5>2, <5>3 DEF Stored, NotGone, LifeOf
      <4>4. CASE lost' = lost \cup {evCall} /\ UNCHANGED written
        BY <2>2, <4>1, <4>2, <4>4 DEF Stored, NotGone, LifeOf
      <4> QED
        BY <3>2, <4>3, <4>4, <1>4
    <3> QED
      BY <3>1, <3>2, <1>4
  <2> QED
    BY <2>1, <2>2
<1> QED
  BY <1>5, <1>7, <1>8

\* The steps of the WebSocket thread, of the administrator and of main.
LEMMA RecordTables ==
    ASSUME RecordInv,
           \/ \E a \in Agent : Signin(a) \/ Signout(a)
           \/ reloaddb \/ PushRow \/ ReloadFails \/ ReloadEnds \/ EditTable \/ Restart
           \/ UNCHANGED vars
    PROVE  RecordInv'
<1> USE DEF RecordInv
<1>1. UNCHANGED <<callInfoMap, evVars, fsVars, outVars, accepted, misses, lost>>
  BY DEF Signin, Signout, reloaddb, StartsReload, PushRow, ReloadFails, ReloadEnds,
         EditTable, Restart, vars, histVars
<1>2. /\ stored \in Tables /\ stored \in Seq(Route) /\ m_gRoute \in Seq(Route)
      /\ result \in Seq(Route)
  BY TablesAssumption DEF TypeOK
<1>3. /\ stored' \in Tables /\ m_gRoute' \in Seq(Route) /\ result' \in Seq(Route)
      /\ wsPc' \in {"idle", "select"} /\ cut' \in BOOLEAN /\ asRead' \in Tables
      /\ reloads' \in 0..MaxReloads
      /\ m_DNmap' \subseteq Agent
      /\ alive' \in BOOLEAN /\ restarts' \in 0..MaxRestarts /\ blurred' \subseteq Call
  <2>1. CASE \E a \in Agent : Signin(a) \/ Signout(a)
    BY <2>1 DEF Signin, Signout, TypeOK, tableVars, procVars, histVars
  <2>2. CASE reloaddb
    <3>1. /\ stored' = stored /\ m_gRoute' = <<>> /\ result' = stored /\ wsPc' = "select"
          /\ asRead' = stored
      BY <2>2 DEF reloaddb, StartsReload
    <3>2. UNCHANGED <<cut, m_DNmap, alive, restarts>>
      BY <2>2 DEF reloaddb, StartsReload, procVars
    <3>3. reloads' \in 0..MaxReloads
      BY <2>2, BoundsAssumption DEF reloaddb, StartsReload, TypeOK
    <3>4. blurred' \subseteq Call
      BY <2>2 DEF reloaddb, StartsReload, TypeOK
    <3> QED
      BY <1>2, <3>1, <3>2, <3>3, <3>4 DEF TypeOK
  <2>3. CASE PushRow
    BY <1>2, <2>3 DEF PushRow, TypeOK, procVars, histVars
  <2>4. CASE ReloadFails \/ ReloadEnds
    <3>1. /\ UNCHANGED <<stored, m_gRoute, reloads, asRead, m_DNmap, alive, restarts, blurred>>
          /\ wsPc' = "idle" /\ cut' \in BOOLEAN
      BY <2>4 DEF ReloadFails, ReloadEnds, procVars, histVars
    <3>2. result' = <<>> \/ result' = result
      BY <2>4 DEF ReloadFails, ReloadEnds
    <3>3. result' \in Seq(Route)
      <4>1. <<>> \in Seq(Route)
        OBVIOUS
      <4> QED
        BY <3>2, <4>1, <1>2, Zenon
    <3> QED
      BY <3>1, <3>3, <1>2 DEF TypeOK
  <2>5. CASE EditTable
    BY <1>2, <2>5 DEF EditTable, TypeOK, procVars, histVars
  <2>6. CASE Restart
    <3>1. /\ UNCHANGED <<stored, result, wsPc, reloads, blurred>>
          /\ asRead' = stored /\ alive' = TRUE /\ m_DNmap' \subseteq Agent
      BY <2>6 DEF Restart, histVars
    <3>3. m_gRoute' \in Seq(Route) /\ cut' \in BOOLEAN
      <4>1. PICK n \in 0..Len(stored) : m_gRoute' = Loaded(n) /\ cut' = (n # Len(stored))
        BY <2>6 DEF Restart
      <4> QED
        BY <1>2, <4>1, LoadedRows
    <3>2. restarts' \in 0..MaxRestarts
      BY <2>6, BoundsAssumption DEF Restart, TypeOK
    <3> QED
      BY <3>1, <3>2, <3>3, <1>2 DEF TypeOK
  <2>7. CASE UNCHANGED vars
    BY <1>2, <2>7 DEF vars, TypeOK, tableVars, procVars, histVars
  <2> QED
    BY <2>1, <2>2, <2>3, <2>4, <2>5, <2>6, <2>7
<1>4. TypeOK'
  BY <1>1, <1>3 DEF TypeOK, evVars, fsVars, outVars
<1>5. DeadIsEmpty'
  BY <1>1 DEF DeadIsEmpty, Signin, Signout, reloaddb, StartsReload, PushRow, ReloadFails,
         ReloadEnds, EditTable, Restart, vars, tableVars, procVars, evVars, fsVars
<1> QED
  BY <1>1, <1>4, <1>5, RecordQuiet

\* Every step keeps what is known of the records.
LEMMA RecordNext ==
    ASSUME RecordInv, [Next]_vars
    PROVE  RecordInv'
<1>1. ASSUME NEW c \in Call, OriginateIgnored(c) \/ Hangup(c) \/ DestroyUnknown(c)
      PROVE  RecordInv'
  <2>1. PICK e \in {"ORIGINATE", "HANGUP", "DESTROY"} :
           Receives(c, e) /\ (callInfoMap[c] = Absent \/ e = "HANGUP")
    <3>1. CASE OriginateIgnored(c)
      <4>1. Receives(c, "ORIGINATE") /\ "ORIGINATE" \in EventKind
        BY <3>1 DEF OriginateIgnored, EventKind
      <4>2. "ORIGINATE" \in Coming(c)
        BY <4>1, ReceivesFacts
      <4>3. callInfoMap[c] = Absent
        BY <4>2 DEF RecordInv, LifeOf, Mapped
      <4> QED
        BY <4>1, <4>3
    <3>2. CASE Hangup(c) \/ DestroyUnknown(c)
      BY <3>2 DEF Hangup, DestroyUnknown
    <3> QED
      BY <1>1, <3>1, <3>2
  <2>2. e \in EventKind
    BY DEF EventKind
  <2>3. UNCHANGED <<tableVars, m_DNmap, callInfoMap, evVars, outVars, procVars,
                    accepted, lost, blurred>> /\ misses' = misses
    BY <1>1 DEF OriginateIgnored, Hangup, DestroyUnknown, histVars
  <2> QED
    BY <2>1, <2>2, <2>3, RecordPass
<1>2. ASSUME NEW c \in Call, NEW e \in EventKind, Miss(c, e) PROVE RecordInv'
  <2>1. /\ Receives(c, e) /\ misses' = misses \cup {<<c, e>>}
        /\ UNCHANGED <<tableVars, m_DNmap, callInfoMap, evVars, outVars, procVars,
                       accepted, lost, blurred>>
    BY <1>2 DEF Miss
  <2> QED
    BY <2>1, RecordPass
<1>3. ASSUME OriginateDies \/ InsertDies \/ ReloadDies PROVE RecordInv'
  BY <1>3, RecordDies DEF OriginateDies, InsertDies, ReloadDies
<1> QED
  BY <1>1, <1>2, <1>3, RecordOriginate, RecordUpdate, RecordDestroy, RecordStore, RecordDone,
     RecordTables, RecordFsEvent DEF Next, EvThread

----------------------------------------------------------------------------
(* The route table *)

\* The least-number principle.
LEMMA LeastNatural ==
    ASSUME NEW T \in SUBSET Nat, T # {}
    PROVE  \E m \in T : \A k \in T : m <= k
<1> DEFINE R == {ss \in Nat \X Nat : ss[1] < ss[2]}
<1>1. IsWellFoundedOn(R, Nat)
  BY NatLessThanWellFounded DEF OpToRel
<1> HIDE DEF R
<1>2. PICK m \in T : \A k \in T : ~ (<<k, m>> \in R)
  BY <1>1, WFMin
<1>3. \A k \in T : ~(k < m)
  BY <1>2 DEF R
<1>4. \A k \in T : m <= k
  BY <1>3
<1> QED
  BY <1>4

\* getGroupId and getGroupNumber find the agent's first row, both the same.
LEMMA RowFacts ==
    ASSUME NEW table \in Seq(Route), NEW a \in Agent
    PROVE  LET company == getGroupId(table, a)
               number == getGroupNumber(table, a) IN
           \/ \E i \in 1..Len(table) :
                 table[i] = [agent |-> a, group |-> number, group_id |-> company]
           \/ /\ \A i \in 1..Len(table) : table[i].agent # a
              /\ company = 0 /\ number = 0
<1>0. Len(table) \in Nat /\ \A i \in 1..Len(table) : table[i] \in Route
  OBVIOUS
<1>1. CASE RowOf(table, a) # {}
  <2> DEFINE i == CHOOSE k \in RowOf(table, a) : TRUE
  <2>1. i \in RowOf(table, a)
    BY <1>1
  <2>2. getGroupId(table, a) = table[i].group_id /\ getGroupNumber(table, a) = table[i].group
    BY <1>1 DEF getGroupId, getGroupNumber
  <2> HIDE DEF i
  <2>3. i \in 1..Len(table) /\ table[i].agent = a
    BY <2>1 DEF RowOf
  <2>4. table[i] = [agent |-> a, group |-> table[i].group, group_id |-> table[i].group_id]
    BY <1>0, <2>3 DEF Route
  <2> QED
    BY <2>2, <2>3, <2>4
<1>2. CASE RowOf(table, a) = {}
  <2> DEFINE T == {i \in 1..Len(table) : table[i].agent = a}
  <2>1. getGroupId(table, a) = 0 /\ getGroupNumber(table, a) = 0
    BY <1>2 DEF getGroupId, getGroupNumber
  <2>2. T = {}
    <3> SUFFICES ASSUME T # {} PROVE FALSE
      OBVIOUS
    <3>1. T \in SUBSET Nat
      BY <1>0
    <3>2. PICK m \in T : \A k \in T : m <= k
      BY <3>1, LeastNatural
    <3>3. m \in 1..Len(table) /\ table[m].agent = a
      BY <3>2
    <3>4. \A j \in 1..m - 1 : j \in 1..Len(table) /\ ~(m <= j)
      BY <3>3, <1>0
    <3>5. \A j \in 1..m - 1 : table[j].agent # a
      BY <3>2, <3>4
    <3>6. m \in RowOf(table, a)
      BY <3>3, <3>5 DEF RowOf
    <3> QED
      BY <3>6, <1>2
  <2>3. \A i \in 1..Len(table) : table[i].agent # a
    BY <2>2
  <2> QED
    BY <2>1, <2>3
<1> QED
  BY <1>1, <1>2

\* loaddb has read the table when the threads start, or a part of it.
LEMMA RouteInit == Init => RouteInv
<1> SUFFICES ASSUME Init PROVE RouteInv
  OBVIOUS
<1>0. ~cut => m_gRoute = stored
  <2>1. PICK n \in 0..Len(stored) : m_gRoute = Loaded(n) /\ cut = (n # Len(stored))
    BY DEF Init
  <2>2. stored \in Seq(Route)
    BY TablesAssumption DEF Init
  <2> QED
    BY <2>1, <2>2, LoadedRows
<1>1. TableComplete /\ ~Reloading /\ SetUpWithThis
  BY <1>0 DEF Init, TableComplete, Reloading, SetUpWithThis
<1>2. RecordOfOneRow /\ GatewayOfCompany
  BY DEF Init, RecordOfOneRow, GatewayOfCompany
<1> QED
  BY <1>1, <1>2 DEF RouteInv, Init

\* Steps that change neither the table nor a call that is being set up.
LEMMA RouteQuiet ==
    ASSUME RouteInv,
           UNCHANGED <<m_gRoute, result, wsPc, asRead, cut, alive, callInfoMap, evPc, evCall, evInfo,
                       dialled, blurred>>
    PROVE  RouteInv'
  BY DEF RouteInv, TableComplete, Reloading, PartOf, SetUpWithThis, RecordOfOneRow,
         GatewayOfCompany

\* The process dies, and with it the table and the records.
LEMMA RouteDies ==
    ASSUME RecordInv, RouteInv, Dies
    PROVE  RouteInv'
<1>1. /\ alive' = FALSE /\ wsPc' = "idle" /\ evPc' = "recv"
      /\ callInfoMap' = [c \in Call |-> Absent]
      /\ UNCHANGED <<dialled, blurred>>
  BY DEF Dies, outVars
<1>2. TableComplete' /\ ~Reloading' /\ SetUpWithThis'
  BY <1>1 DEF TableComplete, Reloading, SetUpWithThis
<1>3. RecordOfOneRow' /\ GatewayOfCompany'
  BY <1>1 DEF RecordOfOneRow, GatewayOfCompany, RouteInv
<1> QED
  BY <1>1, <1>2, <1>3 DEF RouteInv

\* A reload goes through parts of a table to a table, and blurs the call in hand.
LEMMA RouteReload ==
    ASSUME RecordInv, RouteInv,
           reloaddb \/ PushRow \/ ReloadFails \/ ReloadEnds \/ Restart
    PROVE  RouteInv'
<1>0. /\ m_gRoute \in Seq(Route) /\ result \in Seq(Route) /\ stored \in Tables
      /\ stored \in Seq(Route) /\ asRead \in Seq(Route)
      /\ cut \in BOOLEAN /\ alive \in BOOLEAN
  BY TablesAssumption DEF RecordInv, TypeOK
<1>1. UNCHANGED <<callInfoMap, evPc, evCall, evInfo, dialled>> /\ blurred \subseteq blurred'
  BY DEF reloaddb, StartsReload, PushRow, ReloadFails, ReloadEnds, Restart, evVars, outVars,
         histVars
<1>2. RecordOfOneRow' /\ GatewayOfCompany'
  BY <1>1 DEF RouteInv, RecordOfOneRow, GatewayOfCompany
<1>3. SetUpWithThis'
  <2>1. CASE reloaddb
    BY <2>1, <1>1 DEF reloaddb, StartsReload, SetUpWithThis
  <2>2. CASE PushRow \/ ReloadFails \/ ReloadEnds
    <3>1. Reloading /\ UNCHANGED blurred
      BY <2>2 DEF PushRow, ReloadFails, ReloadEnds, histVars
    <3> QED
      BY <3>1, <1>1 DEF RouteInv, SetUpWithThis
  <2>3. CASE Restart
    <3>1. evPc = "recv"
      BY <2>3 DEF Restart, RecordInv, DeadIsEmpty
    <3> QED
      BY <3>1, <1>1 DEF SetUpWithThis
  <2> QED
    BY <2>1, <2>2, <2>3
<1>4. TableComplete' /\ (Reloading' => PartOf(asRead)')
  <2>1. CASE reloaddb
    <3>1. wsPc' = "select" /\ m_gRoute' = <<>> /\ result' = stored
      BY <2>1 DEF reloaddb, StartsReload
    <3>2. asRead' = stored
      BY <2>1 DEF reloaddb, StartsReload
    <3>3. PartOf(asRead)'
      BY <3>1, <3>2, <1>0 DEF PartOf
    <3> QED
      BY <3>1, <3>3 DEF TableComplete, Reloading
  <2>2. CASE PushRow
    <3>1. /\ wsPc = "select" /\ wsPc' = "select" /\ result # <<>>
          /\ m_gRoute' = Append(m_gRoute, Head(result)) /\ result' = Tail(result)
      BY <2>2 DEF PushRow, Reloading
    <3>2. PICK table : table = asRead /\ table = asRead' /\ PartOf(table)
      BY <2>2, <3>1 DEF RouteInv, Reloading, PushRow
    <3> DEFINE m == Len(m_gRoute)
               n == Len(result)
    <3>4. /\ m \in Nat /\ n \in Nat \ {0} /\ Len(m_gRoute') = m + 1 /\ Len(result') = n - 1
          /\ \A i \in 1..m : m_gRoute'[i] = m_gRoute[i]
          /\ m_gRoute'[m + 1] = result[1]
          /\ \A i \in 1..n - 1 : result'[i] = result[i + 1]
      BY <3>1, <1>0
    <3>5. /\ Len(table) = m + n
          /\ \A i \in 1..m : table[i] = m_gRoute[i]
          /\ \A i \in 1..n : table[m + i] = result[i]
      BY <3>2 DEF PartOf
    <3> HIDE DEF m, n
    <3>6. \A i \in 1..m + 1 : table[i] = m_gRoute'[i]
      BY <3>4, <3>5
    <3>7. ASSUME NEW i \in 1..n - 1 PROVE table[(m + 1) + i] = result'[i]
      <4>1. i + 1 \in 1..n /\ (m + 1) + i = m + (i + 1)
        BY <3>4
      <4> QED
        BY <4>1, <3>4, <3>5
    <3>8. PartOf(table)'
      BY <3>4, <3>5, <3>6, <3>7 DEF PartOf
    <3>9. PartOf(asRead)'
      BY <3>2, <3>8 DEF PartOf
    <3> QED
      BY <3>1, <3>9 DEF TableComplete, Reloading
  <2>3. CASE ReloadFails
    BY <2>3 DEF ReloadFails, TableComplete, Reloading
  <2>4. CASE ReloadEnds
    <3>1. /\ wsPc = "select" /\ wsPc' = "idle" /\ result = <<>> /\ m_gRoute' = m_gRoute
          /\ asRead' = asRead
      BY <2>4 DEF ReloadEnds, Reloading
    <3>2. PICK table : table = asRead /\ PartOf(table)
      BY <3>1 DEF RouteInv, Reloading
    <3>3. table \in Seq(Route)
      BY <3>2, <1>0
    <3>4. Len(table) = Len(m_gRoute) /\ \A i \in 1..Len(m_gRoute) : table[i] = m_gRoute[i]
      BY <3>1, <3>2, <1>0 DEF PartOf
    <3>5. table = m_gRoute
      BY <3>3, <3>4, <1>0
    <3> QED
      BY <3>1, <3>2, <3>5 DEF TableComplete, Reloading
  <2>5. CASE Restart
    <3>1. wsPc' = "idle" /\ asRead' = stored
      BY <2>5 DEF Restart, RecordInv, DeadIsEmpty
    <3>2. PICK n \in 0..Len(stored) : m_gRoute' = Loaded(n) /\ cut' = (n # Len(stored))
      BY <2>5 DEF Restart
    <3>3. ~cut' => m_gRoute' = stored
      BY <1>0, <3>2, LoadedRows
    <3> QED
      BY <3>1, <3>3 DEF TableComplete, Reloading
  <2> QED
    BY <2>1, <2>2, <2>3, <2>4, <2>5
<1>5. dialled' \in [Call -> {Absent} \cup
                      [company : Nat, gateway : Nat \cup {Absent}, ordered : BOOLEAN]]
  BY <1>1 DEF RouteInv
<1> QED
  BY <1>2, <1>3, <1>4, <1>5 DEF RouteInv

\* CHANNEL_ORIGINATE takes the company from the table that is there.
LEMMA RouteOriginate ==
    ASSUME RecordInv, RouteInv, NEW c \in Call, Originate(c)
    PROVE  RouteInv'
<1>1. /\ UNCHANGED <<m_gRoute, result, wsPc, asRead, cut, alive, callInfoMap, dialled>>
      /\ evCall' = c /\ blurred' = blurred \cup (IF cut \/ Reloading THEN {c} ELSE {})
      /\ evInfo' = [NewInfo EXCEPT !.N_company_id = getGroupId(m_gRoute, CallerOf[c])]
  BY DEF Originate, BlursIfIncomplete, tableVars, outVars, procVars
<1>2. evInfo'.N_company_id = getGroupId(m_gRoute, CallerOf[c])
  BY <1>1 DEF NewInfo
<1>3. SetUpWithThis'
  BY <1>1, <1>2 DEF SetUpWithThis, Reloading
<1>4. TableComplete' /\ (Reloading' => PartOf(asRead)')
  BY <1>1 DEF RouteInv, TableComplete, Reloading, PartOf
<1>5. RecordOfOneRow' /\ GatewayOfCompany'
  BY <1>1 DEF RouteInv, RecordOfOneRow, GatewayOfCompany
<1> QED
  BY <1>1, <1>3, <1>4, <1>5 DEF RouteInv

\* The number comes from the same row, unless the call is blurred.
LEMMA RouteStore ==
    ASSUME RecordInv, RouteInv, OriginateStore
    PROVE  RouteInv'
<1> DEFINE a == CallerOf[evCall]
           number == getGroupNumber(m_gRoute, a)
           info == [evInfo EXCEPT !.N_extension_number = number]
<1>1. /\ UNCHANGED <<m_gRoute, result, wsPc, asRead, cut, alive, evCall, dialled>>
      /\ evPc = "originate" /\ alive
      /\ evInfo' = info /\ callInfoMap' = [callInfoMap EXCEPT ![evCall] = info]
      /\ blurred' = blurred \cup (IF cut \/ Reloading THEN {evCall} ELSE {})
  BY DEF OriginateStore, BlursIfIncomplete, tableVars, outVars, procVars
<1>2. evCall \in Call /\ evInfo \in Record /\ m_gRoute \in Seq(Route) /\ a \in Agent
  BY <1>1, CallAssumption DEF RecordInv, TypeOK
<1> HIDE DEF a, number
<1>3. info.N_company_id = evInfo.N_company_id /\ info.N_extension_number = number
  BY <1>2 DEF Record
<1> HIDE DEF info
<1>4. SetUpWithThis'
  BY <1>1, <1>3 DEF RouteInv, SetUpWithThis, Reloading
<1>5. TableComplete' /\ (Reloading' => PartOf(asRead)')
  BY <1>1 DEF RouteInv, TableComplete, Reloading, PartOf
<1>6. GatewayOfCompany'
  BY <1>1 DEF RouteInv, GatewayOfCompany
<1>7. RecordOfOneRow'
  <2> SUFFICES ASSUME NEW c \in Call \ blurred', callInfoMap'[c] # Absent
               PROVE  \E table \in Tables :
                         \/ \E i \in DOMAIN table : table[i] =
                               [agent |-> CallerOf[c],
                                group |-> callInfoMap'[c].N_extension_number,
                                group_id |-> callInfoMap'[c].N_company_id]
                         \/ /\ \A i \in DOMAIN table : table[i].agent # CallerOf[c]
                            /\ callInfoMap'[c].N_company_id = 0
                            /\ callInfoMap'[c].N_extension_number = 0
    BY DEF RecordOfOneRow
  <2>1. CASE c # evCall
    <3>1. callInfoMap'[c] = callInfoMap[c] /\ c \in Call \ blurred
      BY <1>1, <2>1 DEF RecordInv, TypeOK
    <3> QED
      BY <3>1 DEF RouteInv, RecordOfOneRow
  <2>2. CASE c = evCall
    <3>1. callInfoMap'[c] = info
      BY <1>1, <1>2, <2>2 DEF RecordInv, TypeOK
    <3>2. /\ ~Reloading /\ ~cut /\ evCall \notin blurred
          /\ evInfo.N_company_id = getGroupId(m_gRoute, a)
      BY <1>1, <2>2 DEF RouteInv, SetUpWithThis, a
    <3>3. m_gRoute \in Tables
      BY <3>2, <1>1 DEF RouteInv, TableComplete, RecordInv, TypeOK
    <3>4. \/ \E i \in 1..Len(m_gRoute) : m_gRoute[i] =
                [agent |-> a, group |-> number, group_id |-> getGroupId(m_gRoute, a)]
          \/ /\ \A i \in 1..Len(m_gRoute) : m_gRoute[i].agent # a
             /\ getGroupId(m_gRoute, a) = 0 /\ number = 0
      BY <1>2, RowFacts DEF number
    <3>5. DOMAIN m_gRoute = 1..Len(m_gRoute)
      BY <1>2
    <3>6. CallerOf[c] = a
      BY <2>2 DEF a
    <3> QED
      BY <1>3, <3>1, <3>2, <3>3, <3>4, <3>5, <3>6
  <2> QED
    BY <2>1, <2>2
<1> QED
  BY <1>1, <1>4, <1>5, <1>6, <1>7 DEF RouteInv

\* In a table with a row for each company the company is an index.
LEMMA RouteBridge ==
    ASSUME RecordInv, RouteInv, OriginateBridge
    PROVE  RouteInv'
<1> DEFINE k == evInfo.N_company_id
           a == CallerOf[evCall]
           row == [company |-> k,
                   gateway |-> IF k + 1 \in 1..Len(m_gRoute) THEN m_gRoute[k + 1].group_id
                               ELSE Absent,
                   ordered |-> RowPerCompany(m_gRoute)]
<1>1. /\ UNCHANGED <<m_gRoute, result, wsPc, asRead, cut, alive, callInfoMap, blurred>>
      /\ evPc = "gateway" /\ evPc' = "recv"
      /\ dialled' = [dialled EXCEPT ![evCall] = row]
  BY DEF OriginateBridge, Bridges, BackToRecv, tableVars, procVars, histVars
<1>2. /\ evCall \in Call /\ evInfo \in Record /\ m_gRoute \in Seq(Route) /\ a \in Agent
      /\ k \in Nat
  BY <1>1, CallAssumption DEF RecordInv, TypeOK, Record
<1>3. \A i \in 1..Len(m_gRoute) : m_gRoute[i] \in Route /\ m_gRoute[i].group_id \in Nat
  <2>1. \A i \in 1..Len(m_gRoute) : m_gRoute[i] \in Route
    BY <1>2
  <2>2. \A r \in Route : r.group_id \in Nat
    BY DEF Route
  <2> QED
    BY <2>1, <2>2
<1>4. ASSUME evCall \notin blurred, RowPerCompany(m_gRoute)
      PROVE  k + 1 \in 1..Len(m_gRoute) /\ m_gRoute[k + 1].group_id = k
  <2>1. k = getGroupId(m_gRoute, a)
    BY <1>1, <1>4 DEF RouteInv, SetUpWithThis
  <2>2. \/ \E i \in 1..Len(m_gRoute) : m_gRoute[i] =
              [agent |-> a, group |-> getGroupNumber(m_gRoute, a), group_id |-> k]
        \/ k = 0
    BY <2>1, <1>2, RowFacts
  <2>3. /\ Len(m_gRoute) \in Nat \ {0}
        /\ \A i \in 1..Len(m_gRoute) : m_gRoute[i].group_id = i - 1
    BY <1>2, <1>4 DEF RowPerCompany
  <2>4. CASE \E i \in 1..Len(m_gRoute) : m_gRoute[i] =
                [agent |-> a, group |-> getGroupNumber(m_gRoute, a), group_id |-> k]
    <3>1. PICK i \in 1..Len(m_gRoute) : m_gRoute[i].group_id = k
      BY <2>4
    <3> QED
      BY <3>1, <2>3
  <2>5. CASE k = 0
    BY <2>3, <2>5
  <2> QED
    BY <2>2, <2>4, <2>5
<1>5. row \in [company : Nat, gateway : Nat \cup {Absent}, ordered : BOOLEAN]
  <2>1. RowPerCompany(m_gRoute) \in BOOLEAN
    BY DEF RowPerCompany
  <2> QED
    BY <1>2, <1>3, <2>1
<1>6. row.company = k /\ row.ordered = RowPerCompany(m_gRoute)
      /\ (k + 1 \in 1..Len(m_gRoute) => row.gateway = m_gRoute[k + 1].group_id)
  OBVIOUS
<1> HIDE DEF row, a, k
<1>7. dialled' \in [Call -> {Absent} \cup
                      [company : Nat, gateway : Nat \cup {Absent}, ordered : BOOLEAN]]
  BY <1>1, <1>2, <1>5 DEF RouteInv
<1>8. GatewayOfCompany'
  <2> SUFFICES ASSUME NEW c \in Call \ blurred', dialled'[c] # Absent, dialled'[c].ordered
               PROVE  dialled'[c].gateway = dialled'[c].company
    BY DEF GatewayOfCompany
  <2>1. CASE c # evCall
    <3>1. dialled'[c] = dialled[c] /\ c \in Call \ blurred
      BY <1>1, <2>1 DEF RouteInv
    <3> QED
      BY <3>1 DEF RouteInv, GatewayOfCompany
  <2>2. CASE c = evCall
    <3>1. dialled'[c] = row
      BY <1>1, <2>2, <1>2 DEF RouteInv
    <3> QED
      BY <3>1, <1>1, <1>4, <1>6, <2>2
  <2> QED
    BY <2>1, <2>2
<1>9. /\ TableComplete' /\ (Reloading' => PartOf(asRead)')
      /\ SetUpWithThis' /\ RecordOfOneRow'
  BY <1>1 DEF RouteInv, TableComplete, Reloading, PartOf, SetUpWithThis, RecordOfOneRow
<1> QED
  BY <1>7, <1>8, <1>9 DEF RouteInv

\* The other events of a call change no company, number or gateway.
LEMMA RouteEvents ==
    ASSUME RecordInv, RouteInv,
           \/ \E c \in Call : Answer(c) \/ HangupComplete(c) \/ Destroy(c)
           \/ insertCallInfoSql \/ InsertFails
    PROVE  RouteInv'
<1>1. /\ UNCHANGED <<m_gRoute, result, wsPc, asRead, cut, alive, dialled, blurred>>
      /\ \/ evPc' = "recv" \/ evPc' = "insert" \/ (evPc = "recv" /\ evPc' = evPc)
  BY DEF Answer, HangupComplete, Update, Destroy, Receives, insertCallInfoSql, InsertFails,
         BackToRecv, tableVars, outVars, procVars, histVars, evVars
<1>2. ASSUME NEW d \in Call, callInfoMap'[d] # Absent
      PROVE  /\ callInfoMap[d] # Absent
             /\ callInfoMap'[d].N_company_id = callInfoMap[d].N_company_id
             /\ callInfoMap'[d].N_extension_number = callInfoMap[d].N_extension_number
  <2>0. callInfoMap \in [Call -> Record \cup {Absent}]
    BY DEF RecordInv, TypeOK
  <2>1. CASE \E c \in Call : Answer(c)
    <3>1. PICK c \in Call : callInfoMap' = [callInfoMap EXCEPT ![c] =
             IF callInfoMap[c] = Absent THEN callInfoMap[c]
             ELSE [callInfoMap[c] EXCEPT !.N_callstate = "1"]]
      BY <2>1 DEF Answer, Update
    <3> QED
      BY <1>2, <2>0, <3>1 DEF Record
  <2>2. CASE \E c \in Call : HangupComplete(c)
    <3>1. PICK c \in Call : callInfoMap' = [callInfoMap EXCEPT ![c] =
             IF callInfoMap[c] = Absent THEN callInfoMap[c]
             ELSE [callInfoMap[c] EXCEPT !.N_call_duration = "billsec"]]
      BY <2>2 DEF HangupComplete, Update
    <3> QED
      BY <1>2, <2>0, <3>1 DEF Record
  <2>3. CASE \E c \in Call : Destroy(c)
    BY <1>2, <2>0, <2>3 DEF Destroy
  <2>4. CASE insertCallInfoSql \/ InsertFails
    BY <1>2, <2>4 DEF insertCallInfoSql, InsertFails
  <2> QED
    BY <2>1, <2>2, <2>3, <2>4
<1>3. RecordOfOneRow'
  <2> SUFFICES ASSUME NEW c \in Call \ blurred', callInfoMap'[c] # Absent
               PROVE  \E table \in Tables :
                         \/ \E i \in DOMAIN table : table[i] =
                               [agent |-> CallerOf[c],
                                group |-> callInfoMap'[c].N_extension_number,
                                group_id |-> callInfoMap'[c].N_company_id]
                         \/ /\ \A i \in DOMAIN table : table[i].agent # CallerOf[c]
                            /\ callInfoMap'[c].N_company_id = 0
                            /\ callInfoMap'[c].N_extension_number = 0
    BY DEF RecordOfOneRow
  <2>1. c \in Call \ blurred
    BY <1>1
  <2>2. /\ callInfoMap[c] # Absent
        /\ callInfoMap'[c].N_company_id = callInfoMap[c].N_company_id
        /\ callInfoMap'[c].N_extension_number = callInfoMap[c].N_extension_number
    BY <1>2
  <2> QED
    BY <2>1, <2>2 DEF RouteInv, RecordOfOneRow
<1>4. /\ TableComplete' /\ (Reloading' => PartOf(asRead)')
      /\ SetUpWithThis' /\ GatewayOfCompany'
  BY <1>1 DEF RouteInv, TableComplete, Reloading, PartOf, SetUpWithThis, GatewayOfCompany
<1> QED
  BY <1>1, <1>3, <1>4 DEF RouteInv

\* Every step keeps what is known of the table.
LEMMA RouteNext ==
    ASSUME RecordInv, RouteInv, [Next]_vars
    PROVE  RouteInv'
<1>1. ASSUME \/ \E c \in Call : OriginateIgnored(c) \/ Hangup(c) \/ DestroyUnknown(c)
             \/ \E c \in Call, e \in EventKind : FsEvent(c, e) \/ Miss(c, e)
             \/ \E a \in Agent : Signin(a) \/ Signout(a)
             \/ EditTable \/ UNCHANGED vars
      PROVE  RouteInv'
  <2>1. UNCHANGED <<m_gRoute, result, wsPc, asRead, cut, alive, callInfoMap, evPc, evCall, evInfo,
                    dialled, blurred>>
    BY <1>1 DEF OriginateIgnored, Hangup, DestroyUnknown, FsEvent, Miss, Signin, Signout,
       EditTable, vars, tableVars, evVars, outVars, procVars, histVars
  <2> QED
    BY <2>1, RouteQuiet
<1>2. ASSUME OriginateDies \/ InsertDies \/ ReloadDies PROVE RouteInv'
  BY <1>2, RouteDies DEF OriginateDies, InsertDies, ReloadDies
<1> QED
  BY <1>1, <1>2, RouteReload, RouteOriginate, RouteStore, RouteBridge, RouteEvents
     DEF Next, EvThread

----------------------------------------------------------------------------
(* The theorems *)

\* The invariant holds of every run.
LEMMA CallInvariant == Spec => []CallInv
<1>1. Init => CallInv
  BY RecordInit, RouteInit DEF CallInv
<1>2. CallInv /\ [Next]_vars => CallInv'
  BY RecordNext, RouteNext DEF CallInv
<1> QED
  BY <1>1, <1>2, PTL DEF Spec

\* A record CHANNEL_ORIGINATE made is written by CHANNEL_DESTROY, once, whatever events are
\* missed before it, unless the process died with it or the insert failed.
THEOREM RecordsAreKept == Spec => []RecordKept
<1>1. CallInv => RecordKept
  <2> SUFFICES ASSUME CallInv, NEW c \in Call
               PROVE  /\ Len(written[c]) <= 1
                      /\ Finished(c) /\ c \in accepted \ lost => Len(written[c]) = 1
                      /\ written[c] # <<>> => Finished(c)
    BY DEF RecordKept
  <2>1. LifeOf(c) /\ TypeOK
    BY DEF CallInv, RecordInv
  <2>2. Len(written[c]) <= 1
    <3>1. CASE written[c] = <<>>
      <4>1. Len(written[c]) = 0
        BY <3>1
      <4> QED
        BY <4>1
    <3>2. CASE written[c] # <<>>
      <4>1. Len(written[c]) = 1
        BY <2>1, <3>2 DEF LifeOf, Stored
      <4> QED
        BY <4>1
    <3> QED
      BY <3>1, <3>2
  <2>3. "DESTROY" \in EventKind
    BY DEF EventKind
  <2>4. \A x : x \in Range(stream) <=> \E i \in 1..Len(stream) : stream[i] = x
    BY <2>1 DEF TypeOK, Range
  <2>5. /\ <<c, "DESTROY">> \in Range(stream) <=> "DESTROY" \in Coming(c)
        /\ <<c, "DESTROY">> \in misses <=> "DESTROY" \in Missed(c)
    BY <2>3, <2>4 DEF Coming, Missed
  <2>6. stage[c] = "DESTROY" <=> "DESTROY" \in Sent(c)
    <3>1. stage[c] \in EventKind \cup {"none"}
      BY <2>1 DEF TypeOK
    <3> QED
      BY <3>1, <2>3, RankFacts DEF Sent, EventKind
  <2>7. Finished(c) <=> /\ "DESTROY" \in Sent(c) /\ evCall # c
                        /\ "DESTROY" \notin Coming(c) \cup Missed(c)
    BY <2>5, <2>6 DEF Finished
  <2>8. written[c] # <<>> => Finished(c)
    BY <2>1, <2>7 DEF LifeOf, Stored, Through
  <2>9. ASSUME Finished(c), c \in accepted \ lost PROVE Len(written[c]) = 1
    <3>1. callInfoMap[c] = Absent
      BY <2>1, <2>7, <2>9 DEF LifeOf, Mapped
    <3>2. written[c] # <<>>
      BY <2>1, <2>7, <2>9, <3>1 DEF LifeOf, NotGone
    <3> QED
      BY <2>1, <3>2 DEF LifeOf, Stored
  <2> QED
    BY <2>2, <2>8, <2>9
<1> QED
  BY <1>1, CallInvariant, PTL

\* The row says "answered", and the billed seconds, just when process_event has seen the
\* event that tells it.
THEOREM RecordsAreTrue == Spec => []RecordTrue
<1>1. CallInv => RecordTrue
  <2> SUFFICES ASSUME CallInv, NEW c \in Call, NEW i \in DOMAIN written[c]
               PROVE  /\ written[c][i].N_callstate = "1"
                            <=> c \in answered /\ <<c, "ANSWER">> \notin misses
                      /\ written[c][i].N_call_duration = "billsec"
                            <=> <<c, "HANGUP_COMPLETE">> \notin misses
    BY DEF RecordTrue
  <2>1. LifeOf(c) /\ TypeOK
    BY DEF CallInv, RecordInv
  <2>2. written[c] \in Seq(Record)
    BY <2>1 DEF TypeOK
  <2>3. written[c] # <<>> /\ i \in 1..Len(written[c])
    BY <2>2
  <2>4. Len(written[c]) = 1 /\ Through(c) /\ Agrees(written[c][1], c)
    BY <2>1, <2>3 DEF LifeOf, Stored
  <2>5. i = 1
    BY <2>3, <2>4
  <2>6. "ANSWER" \in EventKind /\ "HANGUP_COMPLETE" \in EventKind /\ "DESTROY" \in EventKind
    BY DEF EventKind
  <2>7. stage[c] = "DESTROY"
    <3>1. stage[c] \in EventKind \cup {"none"} /\ Rank("DESTROY") <= Rank(stage[c])
      BY <2>1, <2>4 DEF TypeOK, Through, Sent
    <3> QED
      BY <3>1, RankFacts DEF EventKind
  <2>8. ("ANSWER" \in Sent(c) <=> c \in answered) /\ "HANGUP_COMPLETE" \in Sent(c)
    BY <2>6, <2>7, RankFacts DEF Sent
  <2>9. /\ "ANSWER" \in Missed(c) <=> <<c, "ANSWER">> \in misses
        /\ "HANGUP_COMPLETE" \in Missed(c) <=> <<c, "HANGUP_COMPLETE">> \in misses
    BY <2>6 DEF Missed
  <2> QED
    BY <2>4, <2>5, <2>8, <2>9 DEF Through, Agrees
<1> QED
  BY <1>1, CallInvariant, PTL

\* Company and number of a record are those of one row, unless a reload came in between or
\* the last query, of main or of a reload, left only a part of the table.
THEOREM RecordsOfOneRow == Spec => []RecordOfOneRow
  BY CallInvariant, PTL DEF CallInv, RouteInv

\* A call leaves through its own company's gateway, if every company has its row, no reload
\* interfered and the table was read to its end.
THEOREM CallsLeaveByOwnGateway == Spec => []GatewayOfCompany
  BY CallInvariant, PTL DEF CallInv, RouteInv

\* Between reloads the table in memory is, row by row, the one that was stored when it was
\* read, unless that query failed half-way.
THEOREM TableIsComplete == Spec => []TableComplete
  BY CallInvariant, PTL DEF CallInv, RouteInv

=============================================================================

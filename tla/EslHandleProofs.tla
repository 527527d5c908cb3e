-------------------------- MODULE EslHandleProofs --------------------------
(***************************************************************************)
(* What holds of the handle that the event and the acd thread share, for   *)
(* any number of events of any kinds: the socket has one reader at a time; *)
(* the stream of events is one that EventStream allows, which needs to     *)
(* know where every event is that has not been disposed of (in hand, put   *)
(* aside or on the socket) and in which order; and every thread that waits *)
(* for a reply on a line that is up has one coming, or the event thread    *)
(* has thrown it away.                                                     *)
(***************************************************************************)
EXTENDS EslHandle, FiniteSetTheorems, FunctionTheorems, TLAPS

----------------------------------------------------------------------------
(* The inductive invariant *)

\* The mutex and the commands have their types.
ThreadsType ==
    /\ owner \in Thread \cup {Nobody}
    /\ cmd \in [Thread -> {"none", "send", "reply", "window"}]

\* process_event sends commands only where BodyCommands has started them.
MutexInv ==
    /\ ThreadsType
    /\ OneReader
    /\ cmd["ev"] # "none" => evPc = "commands"

\* So have the queues and what Inbound_Init and the history hold.
QueuesType ==
    /\ kindOf \in Seq(Kind) /\ socket \in Seq(Packet) /\ race_event \in Seq(Event)
    /\ evEvent \in Event \cup {NoEvent} /\ done \in Nat
    /\ shared \in BOOLEAN

\* The event Inbound_Init has received and not yet looked at.
InHand == evPc \in {"check", "headers"} /\ evEvent # NoEvent

\* Events leave the socket in the order they were sent, and so do those put aside,
\* all of which are older.
InOrder ==
    /\ \A i, j \in 1..Len(socket) :
          i < j /\ socket[i] \in Event /\ socket[j] \in Event => socket[i] < socket[j]
    /\ \A i, j \in 1..Len(race_event) : i < j => race_event[i] < race_event[j]
    /\ \A i \in 1..Len(race_event), j \in 1..Len(socket) :
          socket[j] \in Event => race_event[i] < socket[j]
    /\ InHand => /\ \A i \in 1..Len(race_event) : evEvent < race_event[i]
                 /\ \A j \in 1..Len(socket) : socket[j] \in Event => evEvent < socket[j]

\* The event has been sent and not been disposed of.
IsWaiting(e) ==
    \/ InHand /\ e = evEvent
    \/ \E i \in 1..Len(race_event) : race_event[i] = e
    \/ \E j \in 1..Len(socket) : socket[j] = e

\* The events not yet disposed of are those in hand, put aside or on the socket.
NoneLost ==
    /\ \A e \in Event : IsWaiting(e) => e <= Len(kindOf)
    /\ alive /\ evPc # "ended" =>
          \A e \in Event : e <= Len(kindOf) => (IsWaiting(e) <=> done < e)

\* What the steps of process_event rely on.
Progress ==
    /\ done <= Len(kindOf)
    /\ evPc = "read" => race_event = <<>> /\ last_ievent = NoEvent
    /\ evPc = "check" /\ evEvent = NoEvent => last_ievent = NoEvent
    /\ evPc = "headers" => evEvent # NoEvent
    /\ evPc \in {"body", "duration"} => evEvent = done /\ done > 0

\* An event is destroyed under Inbound_Init by the acd thread only.
Intact ==
    /\ cmd["acd"] \in {"reply", "window"} => shared
    /\ evPc \in {"check", "headers", "body", "duration"} =>
          last_ievent = evEvent \/ shared

StreamInv == MutexInv /\ QueuesType /\ InOrder /\ NoneLost /\ Progress /\ Intact

----------------------------------------------------------------------------
(* One reader *)

\* Inbound_Init starts with a free mutex and no command under way.
LEMMA MutexInit == Init => MutexInv
  BY DEF Init, MutexInv, ThreadsType, OneReader, Reading, Thread, Nobody

\* esl_send_recv in either thread takes, releases and takes again the mutex.
LEMMA MutexCommand ==
    ASSUME MutexInv, NEW t \in Thread, Command(t)
    PROVE  MutexInv'
<1> USE DEF MutexInv, ThreadsType, OneReader, Reading, Thread, Nobody
<1>1. CASE SendRefused(t)
  BY <1>1 DEF SendRefused, Returns, handleVars, evVars
<1>2. CASE Send(t)
  BY <1>2 DEF Send, TakesMutex, evVars
<1>3. CASE SendKills(t)
  BY <1>3 DEF SendKills, handleVars, evVars, cmdVars
<1>4. CASE DanglingCommand(t)
  BY <1>4 DEF DanglingCommand, Returns, handleVars, evVars
<1>5. CASE ReadAside(t)
  BY <1>5 DEF ReadAside, evVars
<1>6. CASE Relock(t)
  BY <1>6 DEF Relock, TakesMutex, evVars
<1>7. CASE RelockRefused(t)
  BY <1>7 DEF RelockRefused, Returns, handleVars, evVars
<1>8. CASE ReadReply(t)
  BY <1>8 DEF ReadReply, Returns, evVars
<1>9. CASE ReadFails(t)
  BY <1>9 DEF ReadFails, Returns, evVars
<1> QED
  BY <1>1, <1>2, <1>3, <1>4, <1>5, <1>6, <1>7, <1>8, <1>9 DEF Command

\* So does esl_recv_event in Inbound_Init.
LEMMA MutexInbound ==
    ASSUME MutexInv, InboundInit
    PROVE  MutexInv'
<1> USE DEF MutexInv, ThreadsType, OneReader, Reading, Thread, Nobody
<1>1. CASE RecvRace
  BY <1>1 DEF RecvRace, cmdVars
<1>2. CASE RecvSocket
  BY <1>2 DEF RecvSocket, TakesMutex, cmdVars
<1>3. CASE ReadEvent
  BY <1>3 DEF ReadEvent, cmdVars
<1>4. CASE ReadOthersReply
  BY <1>4 DEF ReadOthersReply, cmdVars
<1>5. CASE RecvFails
  BY <1>5 DEF RecvFails, cmdVars
<1>6. CASE Disconnect
  BY <1>6 DEF Disconnect, cmdVars
<1>15. CASE LoopEnds
  BY <1>15 DEF LoopEnds, cmdVars
<1>7. CASE Check
  BY <1>7 DEF Check, handleVars, cmdVars
<1>8. CASE Headers
  BY <1>8 DEF Headers, handleVars, cmdVars
<1>9. CASE HeadersFreed
  BY <1>9 DEF HeadersFreed, handleVars, cmdVars
<1>10. CASE BodyPlain
  BY <1>10 DEF BodyPlain, handleVars, cmdVars
<1>11. CASE BodyCommands
  BY <1>11 DEF BodyCommands, handleVars, cmdVars
<1>12. CASE CommandsDone
  BY <1>12 DEF CommandsDone, handleVars, cmdVars
<1>13. CASE BodyInsert
  BY <1>13 DEF BodyInsert, handleVars, cmdVars
<1>14. CASE Duration
  BY <1>14 DEF Duration, handleVars, cmdVars
<1> QED
  BY <1>1, <1>2, <1>3, <1>4, <1>5, <1>6, <1>7, <1>8, <1>9, <1>10, <1>11, <1>12, <1>13, <1>14,
     <1>15 DEF InboundInit

\* No step of FreeSWITCH, of a thread or of the heartbeat breaks it.
LEMMA MutexNext == MutexInv /\ [Next]_vars => MutexInv'
<1> SUFFICES ASSUME MutexInv, [Next]_vars PROVE MutexInv'
  OBVIOUS
<1>1. CASE FreeSwitch
  BY <1>1 DEF FreeSwitch, FsEvent, FsReply, FsCloses, handleVars, evVars, cmdVars,
              MutexInv, ThreadsType, OneReader, Reading
<1>2. CASE EvThread
  BY <1>2, MutexInbound, MutexCommand DEF EvThread, Thread
<1>3. CASE Command("acd")
  BY <1>3, MutexCommand DEF Thread
<1>4. CASE Transfer
  BY <1>4 DEF Transfer, handleVars, evVars, MutexInv, ThreadsType, OneReader, Reading,
              Thread, Nobody
<1>5. CASE Heartbeat
  BY <1>5 DEF Heartbeat, handleVars, evVars, cmdVars, MutexInv, ThreadsType, OneReader,
              Reading
<1>6. CASE UNCHANGED vars
  BY <1>6 DEF vars, handleVars, evVars, cmdVars, MutexInv, ThreadsType, OneReader, Reading
<1> QED
  BY <1>1, <1>2, <1>3, <1>4, <1>5, <1>6 DEF Next, AcdThread

\* The mutex of the handle does what it is for, in spite of the window in which a
\* command has released it: the socket has one reader at a time.
THEOREM ReadsAlone == Spec => []OneReader
<1>1. MutexInv => OneReader
  BY DEF MutexInv
<1> QED
  BY <1>1, MutexInit, MutexNext, PTL DEF Spec

----------------------------------------------------------------------------
(* The stream of events *)

\* Appending to a queue.
LEMMA AppendFacts ==
    ASSUME NEW S, NEW s \in Seq(S), NEW e \in S
    PROVE  /\ Append(s, e) \in Seq(S)
           /\ Len(Append(s, e)) = Len(s) + 1
           /\ \A i \in 1..Len(s) : Append(s, e)[i] = s[i]
           /\ Append(s, e)[Len(s) + 1] = e
  OBVIOUS

\* Taking the first element of a queue.
LEMMA TailFacts ==
    ASSUME NEW S, NEW s \in Seq(S), s # <<>>
    PROVE  /\ Tail(s) \in Seq(S)
           /\ Len(s) \in Nat \ {0}
           /\ Len(Tail(s)) = Len(s) - 1
           /\ \A i \in 1..Len(s) - 1 : Tail(s)[i] = s[i + 1]
           /\ Head(s) = s[1] /\ Head(s) \in S
  OBVIOUS

\* The event in hand is the first that has not been disposed of.
LEMMA HandIsNext ==
    ASSUME StreamInv, alive, InHand
    PROVE  evEvent = done + 1 /\ evEvent \in Event /\ done < Len(kindOf)
<1> DEFINE n == done + 1
<1>1. /\ evEvent \in Event /\ done \in Nat /\ Len(kindOf) \in Nat /\ evPc # "ended"
  BY DEF StreamInv, QueuesType, InHand
<1>2. IsWaiting(evEvent) /\ done < evEvent /\ evEvent <= Len(kindOf)
  BY <1>1 DEF StreamInv, NoneLost, IsWaiting
<1>3. n \in Event /\ n <= evEvent /\ n <= Len(kindOf) /\ done < n
  BY <1>1, <1>2, EventsAssumption DEF Event
<1> HIDE DEF n
<1>4. IsWaiting(n)
  BY <1>1, <1>3 DEF StreamInv, NoneLost
<1>5. evEvent <= n
  <2>1. evEvent \in Nat /\ n \in Nat
    BY <1>1, <1>3, EventsAssumption DEF Event
  <2>2. CASE n = evEvent
    BY <2>1, <2>2
  <2>3. ASSUME NEW i \in 1..Len(race_event), race_event[i] = n PROVE evEvent < n
    BY <2>3 DEF StreamInv, InOrder
  <2>4. ASSUME NEW j \in 1..Len(socket), socket[j] = n PROVE evEvent < n
    BY <1>3, <2>4 DEF StreamInv, InOrder
  <2> QED
    BY <1>4, <2>1, <2>2, <2>3, <2>4 DEF IsWaiting
<1> QED
  BY <1>1, <1>2, <1>3, <1>5, EventsAssumption DEF n, Event

\* At the start nothing has been sent.
LEMMA StreamInit == Init => StreamInv
<1> SUFFICES ASSUME Init PROVE StreamInv
  OBVIOUS
<1>1. MutexInv
  BY MutexInit
<1>2. /\ kindOf = <<>> /\ socket = <<>> /\ race_event = <<>> /\ done = 0
      /\ evPc = "lock" /\ evEvent = NoEvent /\ shared = FALSE /\ cmd["acd"] = "none"
  BY DEF Init, Thread
<1>3. QueuesType
  <2>1. kindOf \in Seq(Kind) /\ socket \in Seq(Packet) /\ race_event \in Seq(Event)
    BY <1>2
  <2> QED
    BY <1>2, <2>1 DEF QueuesType
<1>4. InOrder /\ Progress /\ Intact
  BY <1>2 DEF InOrder, Progress, Intact, InHand
<1>5. \A e \in Event : ~IsWaiting(e) /\ ~(e <= 0)
  BY <1>2, EventsAssumption DEF IsWaiting, InHand, Event
<1>6. NoneLost
  BY <1>2, <1>5 DEF NoneLost
<1> QED
  BY <1>1, <1>3, <1>4, <1>6 DEF StreamInv

\* Steps that leave the queues and the event in hand alone.
LEMMA QueueFrame ==
    ASSUME InOrder, NoneLost, UNCHANGED <<kindOf, socket, race_event, done>>,
           InHand' <=> InHand, InHand => evEvent' = evEvent,
           alive' => alive, evPc = "ended" => evPc' = "ended"
    PROVE  InOrder' /\ NoneLost'
<1>1. InOrder'
  BY DEF InOrder
<1>2. \A e \in Event : IsWaiting(e)' <=> IsWaiting(e)
  BY DEF IsWaiting
<1>3. NoneLost'
  BY <1>2 DEF NoneLost
<1> QED
  BY <1>1, <1>3

\* FreeSWITCH sends an event: it is the youngest.
LEMMA QueueSent ==
    ASSUME StreamInv, NEW k \in Kind, FsEvent(k)
    PROVE  QueuesType' /\ InOrder' /\ NoneLost'
<1> DEFINE n == Len(kindOf) + 1
<1>1. /\ kindOf \in Seq(Kind) /\ Len(kindOf) \in Nat /\ socket \in Seq(Packet)
      /\ race_event \in Seq(Event) /\ n \in Event /\ n \in Packet /\ n \in Nat /\ done < n
      /\ done \in Nat
  BY EventsAssumption DEF StreamInv, QueuesType, Progress, FsEvent, Event, Packet
<1>2. kindOf' = Append(kindOf, k) /\ socket' = Append(socket, n)
  BY DEF FsEvent
<1>3. UNCHANGED <<race_event, evEvent, done, evPc, alive, shared>>
  BY DEF FsEvent, handleVars, evVars, histVars
<1>4. Len(kindOf') = n /\ kindOf' \in Seq(Kind)
  BY <1>1, <1>2, AppendFacts
<1> HIDE DEF n
<1>5. /\ socket' \in Seq(Packet) /\ Len(socket') = Len(socket) + 1 /\ Len(socket) \in Nat
      /\ \A j \in 1..Len(socket) : socket'[j] = socket[j]
      /\ socket'[Len(socket')] = n
  BY <1>1, <1>2, AppendFacts
<1>6. \A e \in Event : IsWaiting(e) => e < n
  BY <1>1, EventsAssumption DEF StreamInv, NoneLost, Event, n
<1>7. InHand' <=> InHand
  BY <1>3 DEF InHand
<1>8. \A e \in Event : IsWaiting(e)' <=> IsWaiting(e) \/ e = n
  BY <1>3, <1>5, <1>7 DEF IsWaiting
<1>9. InOrder'
  <2>1. \A j \in 1..Len(socket) : socket[j] \in Event => socket[j] < n
    BY <1>6 DEF IsWaiting
  <2>2. \A i \in 1..Len(race_event) : race_event[i] < n
    <3> SUFFICES ASSUME NEW i \in 1..Len(race_event) PROVE race_event[i] < n
      OBVIOUS
    <3>1. race_event[i] \in Event
      BY <1>1
    <3> QED
      BY <1>6, <3>1 DEF IsWaiting
  <2>3. InHand => evEvent < n
    BY <1>6 DEF IsWaiting, InHand, StreamInv, QueuesType
  <2>4. \A i, j \in 1..Len(socket') :
          i < j /\ socket'[i] \in Event /\ socket'[j] \in Event => socket'[i] < socket'[j]
    <3> SUFFICES ASSUME NEW i \in 1..Len(socket'), NEW j \in 1..Len(socket'), i < j,
                        socket'[i] \in Event, socket'[j] \in Event
                 PROVE  socket'[i] < socket'[j]
      OBVIOUS
    <3>1. i \in 1..Len(socket) /\ socket'[i] = socket[i]
      BY <1>5
    <3>2. CASE j = Len(socket')
      BY <1>5, <2>1, <3>1, <3>2
    <3>3. CASE j \in 1..Len(socket)
      BY <1>5, <3>1, <3>3 DEF StreamInv, InOrder
    <3> QED
      BY <1>5, <3>2, <3>3
  <2>5. \A i \in 1..Len(race_event), j \in 1..Len(socket') :
          socket'[j] \in Event => race_event[i] < socket'[j]
    BY <1>1, <1>5, <2>2 DEF StreamInv, InOrder
  <2>6. InHand => \A j \in 1..Len(socket') : socket'[j] \in Event => evEvent < socket'[j]
    BY <1>1, <1>5, <2>3 DEF StreamInv, InOrder
  <2> QED
    BY <1>3, <1>7, <2>4, <2>5, <2>6 DEF StreamInv, InOrder
<1>10. NoneLost'
  <2>1. \A e \in Event : e <= n <=> e <= Len(kindOf) \/ e = n
    BY <1>1, EventsAssumption DEF n, Event
  <2>2. \A e \in Event : IsWaiting(e)' => e <= Len(kindOf')
    BY <1>4, <1>8, <2>1 DEF StreamInv, NoneLost
  <2>3. ASSUME alive, evPc # "ended", NEW e \in Event, e <= n
        PROVE  IsWaiting(e)' <=> done < e
    BY <1>1, <1>8, <2>1, <2>3 DEF StreamInv, NoneLost
  <2> QED
    BY <1>3, <1>4, <2>2, <2>3 DEF NoneLost
<1>11. QueuesType'
  BY <1>3, <1>4, <1>5 DEF StreamInv, QueuesType
<1> QED
  BY <1>9, <1>10, <1>11

\* FreeSWITCH sends the reply to a command.
LEMMA QueueReplied ==
    ASSUME StreamInv, FsReply
    PROVE  QueuesType' /\ InOrder' /\ NoneLost'
<1>1. /\ socket \in Seq(Packet) /\ Reply \in Packet /\ Reply \notin Event
      /\ socket' = Append(socket, Reply)
  BY EventsAssumption DEF StreamInv, QueuesType, FsReply, Packet, Reply, Event
<1>2. UNCHANGED <<kindOf, race_event, evEvent, done, evPc, alive, shared>>
  BY DEF FsReply, handleVars, evVars, histVars
<1>3. /\ socket' \in Seq(Packet) /\ Len(socket') = Len(socket) + 1 /\ Len(socket) \in Nat
      /\ \A j \in 1..Len(socket) : socket'[j] = socket[j]
      /\ socket'[Len(socket')] = Reply
  BY <1>1, AppendFacts
<1>4. \A j \in 1..Len(socket') : socket'[j] \in Event =>
          j \in 1..Len(socket) /\ socket'[j] = socket[j]
  BY <1>1, <1>3
<1>5. InHand' <=> InHand
  BY <1>2 DEF InHand
<1>6. InOrder'
  <2>1. \A i, j \in 1..Len(socket') :
          i < j /\ socket'[i] \in Event /\ socket'[j] \in Event => socket'[i] < socket'[j]
    BY <1>4 DEF StreamInv, InOrder
  <2> QED
    BY <1>2, <1>4, <1>5, <2>1 DEF StreamInv, InOrder
<1>7. \A e \in Event : IsWaiting(e)' <=> IsWaiting(e)
  BY <1>2, <1>3, <1>4, <1>5 DEF IsWaiting
<1>8. NoneLost'
  BY <1>2, <1>7 DEF StreamInv, NoneLost
<1>9. QueuesType'
  BY <1>2, <1>3 DEF StreamInv, QueuesType
<1> QED
  BY <1>6, <1>8, <1>9

\* A thread reads a reply from the socket.
LEMMA QueueReplyRead ==
    ASSUME StreamInv, socket # <<>>, Head(socket) = Reply, socket' = Tail(socket),
           UNCHANGED <<kindOf, race_event, done, alive>>,
           InHand' <=> InHand, InHand => evEvent' = evEvent,
           evPc = "ended" => evPc' = "ended"
    PROVE  socket' \in Seq(Packet) /\ InOrder' /\ NoneLost'
<1>1. socket \in Seq(Packet) /\ Reply \notin Event
  BY EventsAssumption DEF StreamInv, QueuesType, Reply, Event
<1>2. /\ socket' \in Seq(Packet) /\ Len(socket) \in Nat \ {0}
      /\ Len(socket') = Len(socket) - 1
      /\ \A j \in 1..Len(socket) - 1 : socket'[j] = socket[j + 1]
      /\ socket[1] = Reply
  BY <1>1, TailFacts
<1>3. \A j \in 1..Len(socket') : j + 1 \in 1..Len(socket) /\ socket'[j] = socket[j + 1]
  BY <1>2
<1>4. InOrder'
  <2>1. \A i, j \in 1..Len(socket') :
          i < j /\ socket'[i] \in Event /\ socket'[j] \in Event => socket'[i] < socket'[j]
    <3> SUFFICES ASSUME NEW i \in 1..Len(socket'), NEW j \in 1..Len(socket'), i < j,
                        socket'[i] \in Event, socket'[j] \in Event
                 PROVE  socket'[i] < socket'[j]
      OBVIOUS
    <3>1. i + 1 < j + 1
      OBVIOUS
    <3> QED
      BY <1>3, <3>1 DEF StreamInv, InOrder
  <2> QED
    BY <1>3, <2>1 DEF StreamInv, InOrder
<1>5. \A e \in Event : IsWaiting(e)' <=> IsWaiting(e)
  <2> SUFFICES ASSUME NEW e \in Event PROVE IsWaiting(e)' <=> IsWaiting(e)
    OBVIOUS
  <2>1. ASSUME NEW j \in 1..Len(socket), socket[j] = e
        PROVE  \E i \in 1..Len(socket') : socket'[i] = e
    <3>1. j # 1
      BY <1>1, <1>2, <2>1
    <3>2. j - 1 \in 1..Len(socket') /\ socket'[j - 1] = e
      BY <1>2, <2>1, <3>1
    <3> QED
      BY <3>2
  <2> QED
    BY <1>3, <2>1 DEF IsWaiting
<1>6. NoneLost'
  BY <1>5 DEF StreamInv, NoneLost
<1> QED
  BY <1>2, <1>4, <1>6

\* Inbound_Init disposes of the event in hand.
LEMMA QueueDisposed ==
    ASSUME StreamInv, alive, InHand, ~InHand', done' = evEvent, evPc' # "ended",
           UNCHANGED <<kindOf, socket, race_event>>
    PROVE  InOrder' /\ NoneLost' /\ done' \in Nat /\ done' <= Len(kindOf') /\ done' > 0
<1>1. /\ evEvent = done + 1 /\ evEvent \in Event /\ evEvent \in Nat /\ done \in Nat
      /\ evEvent <= Len(kindOf) /\ race_event \in Seq(Event)
  BY HandIsNext, EventsAssumption DEF StreamInv, QueuesType, Event
<1>2. InOrder'
  BY DEF StreamInv, InOrder
<1>3. \A i \in 1..Len(race_event) : race_event[i] # evEvent
  BY <1>1 DEF StreamInv, InOrder
<1>4. \A j \in 1..Len(socket) : socket[j] # evEvent
  BY <1>1 DEF StreamInv, InOrder
<1>5. \A e \in Event : IsWaiting(e)' <=> IsWaiting(e) /\ e # evEvent
  BY <1>3, <1>4 DEF IsWaiting
<1>6. \A e \in Event : done < e /\ e # evEvent <=> done' < e
  BY <1>1, EventsAssumption DEF Event
<1>7. evPc # "ended"
  BY DEF InHand
<1>8. NoneLost'
  BY <1>5, <1>6, <1>7 DEF StreamInv, NoneLost
<1> QED
  BY <1>1, <1>2, <1>8

\* A command puts the event it has read aside: it was the oldest on the socket, and
\* is the youngest that is put aside.
LEMMA QueueAside ==
    ASSUME StreamInv, NEW t \in Thread, ReadAside(t)
    PROVE  QueuesType' /\ InOrder' /\ NoneLost'
<1> DEFINE h == Head(socket)
<1>1. /\ socket \in Seq(Packet) /\ race_event \in Seq(Event) /\ socket # <<>> /\ h \in Event
      /\ socket' = Tail(socket) /\ race_event' = Append(race_event, h)
  BY DEF StreamInv, QueuesType, ReadAside
<1>2. UNCHANGED <<kindOf, evEvent, done, evPc, alive, shared>>
  BY DEF ReadAside, evVars, histVars
<1> HIDE DEF h
<1>3. /\ socket' \in Seq(Packet) /\ Len(socket) \in Nat \ {0}
      /\ Len(socket') = Len(socket) - 1
      /\ \A j \in 1..Len(socket) - 1 : socket'[j] = socket[j + 1]
      /\ socket[1] = h
  BY <1>1, TailFacts DEF h
<1>4. /\ race_event' \in Seq(Event) /\ Len(race_event) \in Nat
      /\ Len(race_event') = Len(race_event) + 1
      /\ \A i \in 1..Len(race_event) : race_event'[i] = race_event[i]
      /\ race_event'[Len(race_event')] = h
  BY <1>1, AppendFacts
<1>5. \A j \in 1..Len(socket') :
         j + 1 \in 1..Len(socket) /\ 1 < j + 1 /\ socket'[j] = socket[j + 1]
  BY <1>3
<1>6. InHand' <=> InHand
  BY <1>2 DEF InHand
<1>7. InOrder'
  <2>1. \A i, j \in 1..Len(socket') :
          i < j /\ socket'[i] \in Event /\ socket'[j] \in Event => socket'[i] < socket'[j]
    <3> SUFFICES ASSUME NEW i \in 1..Len(socket'), NEW j \in 1..Len(socket'), i < j,
                        socket'[i] \in Event, socket'[j] \in Event
                 PROVE  socket'[i] < socket'[j]
      OBVIOUS
    <3>1. i + 1 < j + 1
      OBVIOUS
    <3> QED
      BY <1>5, <3>1 DEF StreamInv, InOrder
  <2>2. 1 \in 1..Len(socket)
    BY <1>3
  <2>3. \A i \in 1..Len(race_event) : race_event[i] < h
    BY <1>1, <1>3, <2>2 DEF StreamInv, InOrder
  <2>4. \A j \in 1..Len(socket') : socket'[j] \in Event => h < socket'[j]
    BY <1>1, <1>3, <1>5, <2>2 DEF StreamInv, InOrder
  <2>5. InHand => evEvent < h
    BY <1>1, <1>3, <2>2 DEF StreamInv, InOrder
  <2>6. \A i \in 1..Len(race_event') :
          \/ i \in 1..Len(race_event) /\ race_event'[i] = race_event[i]
          \/ i = Len(race_event') /\ race_event'[i] = h
    <3> TAKE i \in 1..Len(race_event')
    <3>1. CASE i = Len(race_event')
      BY <1>4, <3>1
    <3>2. CASE i # Len(race_event')
      <4>1. i \in 1..Len(race_event)
        BY <1>4, <3>2
      <4> QED
        BY <1>4, <4>1
    <3> QED
      BY <3>1, <3>2
  <2>7. \A i, j \in 1..Len(race_event') : i < j => race_event'[i] < race_event'[j]
    <3> SUFFICES ASSUME NEW i \in 1..Len(race_event'), NEW j \in 1..Len(race_event'), i < j
                 PROVE  race_event'[i] < race_event'[j]
      OBVIOUS
    <3>1. i \in 1..Len(race_event) /\ race_event'[i] = race_event[i]
      BY <1>4
    <3>2. CASE j = Len(race_event')
      BY <1>4, <2>3, <3>1, <3>2
    <3>3. CASE j \in 1..Len(race_event)
      BY <1>4, <3>1, <3>3 DEF StreamInv, InOrder
    <3> QED
      BY <1>4, <3>2, <3>3
  <2>8. \A i \in 1..Len(race_event'), j \in 1..Len(socket') :
          socket'[j] \in Event => race_event'[i] < socket'[j]
    BY <1>5, <2>4, <2>6 DEF StreamInv, InOrder
  <2>9. InHand => /\ \A i \in 1..Len(race_event') : evEvent < race_event'[i]
                  /\ \A j \in 1..Len(socket') : socket'[j] \in Event => evEvent < socket'[j]
    BY <1>5, <2>5, <2>6 DEF StreamInv, InOrder
  <2> QED
    BY <1>2, <1>6, <2>1, <2>7, <2>8, <2>9 DEF InOrder
<1>8. \A e \in Event : IsWaiting(e)' <=> IsWaiting(e)
  <2> SUFFICES ASSUME NEW e \in Event PROVE IsWaiting(e)' <=> IsWaiting(e)
    OBVIOUS
  <2>1. ASSUME NEW j \in 1..Len(socket), socket[j] = e
        PROVE  \/ \E i \in 1..Len(socket') : socket'[i] = e
               \/ \E i \in 1..Len(race_event') : race_event'[i] = e
    <3>1. CASE j = 1
      <4>1. Len(race_event') \in 1..Len(race_event') /\ e = h
        BY <1>3, <1>4, <2>1, <3>1
      <4> QED
        BY <1>4, <4>1
    <3>2. CASE j # 1
      <4>1. j - 1 \in 1..Len(socket') /\ socket'[j - 1] = e
        BY <1>3, <2>1, <3>2
      <4> QED
        BY <4>1
    <3> QED
      BY <3>1, <3>2
  <2>2. ASSUME NEW i \in 1..Len(race_event), race_event[i] = e
        PROVE  \E j \in 1..Len(race_event') : race_event'[j] = e
    BY <1>4, <2>2
  <2>3. ASSUME NEW i \in 1..Len(race_event'), race_event'[i] = e
        PROVE  \/ \E j \in 1..Len(race_event) : race_event[j] = e
               \/ \E j \in 1..Len(socket) : socket[j] = e
    BY <1>3, <1>4, <2>3
  <2> QED
    BY <1>2, <1>5, <1>6, <2>1, <2>2, <2>3 DEF IsWaiting
<1>9. NoneLost'
  BY <1>2, <1>8 DEF StreamInv, NoneLost
<1>10. QueuesType'
  BY <1>2, <1>3, <1>4 DEF StreamInv, QueuesType
<1> QED
  BY <1>7, <1>9, <1>10

\* esl_recv_event takes the oldest event that was put aside.
LEMMA QueueRace ==
    ASSUME StreamInv, RecvRace
    PROVE  QueuesType' /\ InOrder' /\ NoneLost'
<1> DEFINE h == Head(race_event)
<1>1. /\ race_event \in Seq(Event) /\ race_event # <<>>
      /\ race_event' = Tail(race_event) /\ evEvent' = h /\ ~InHand
      /\ evPc # "ended"
  BY DEF StreamInv, QueuesType, RecvRace, InHand
<1>2. UNCHANGED <<kindOf, socket, done, alive, shared>>
  BY DEF RecvRace, fsVars, histVars
<1> HIDE DEF h
<1>3. /\ race_event' \in Seq(Event) /\ Len(race_event) \in Nat \ {0}
      /\ Len(race_event') = Len(race_event) - 1
      /\ \A j \in 1..Len(race_event) - 1 : race_event'[j] = race_event[j + 1]
      /\ race_event[1] = h /\ h \in Event
  BY <1>1, TailFacts DEF h
<1>4. \A j \in 1..Len(race_event') : /\ j + 1 \in 1..Len(race_event) /\ 1 < j + 1
                                    /\ race_event'[j] = race_event[j + 1]
  BY <1>3
<1>5. InHand'
  BY <1>1, <1>3, EventsAssumption DEF RecvRace, InHand, NoEvent, Event
<1>6. InOrder'
  <2>1. 1 \in 1..Len(race_event)
    BY <1>3
  <2>2. \A i, j \in 1..Len(race_event') : i < j => race_event'[i] < race_event'[j]
    <3> SUFFICES ASSUME NEW i \in 1..Len(race_event'), NEW j \in 1..Len(race_event'), i < j
                 PROVE  race_event'[i] < race_event'[j]
      OBVIOUS
    <3>1. i + 1 < j + 1
      OBVIOUS
    <3> QED
      BY <1>4, <3>1 DEF StreamInv, InOrder
  <2>3. \A i \in 1..Len(race_event') : h < race_event'[i]
    BY <1>3, <1>4, <2>1 DEF StreamInv, InOrder
  <2>4. \A j \in 1..Len(socket) : socket[j] \in Event => h < socket[j]
    BY <1>3, <2>1 DEF StreamInv, InOrder
  <2>5. \A i \in 1..Len(race_event'), j \in 1..Len(socket) :
          socket[j] \in Event => race_event'[i] < socket[j]
    BY <1>4 DEF StreamInv, InOrder
  <2> QED
    BY <1>1, <1>2, <2>2, <2>3, <2>4, <2>5 DEF StreamInv, InOrder
<1>7. \A e \in Event : IsWaiting(e)' <=> IsWaiting(e)
  <2> SUFFICES ASSUME NEW e \in Event PROVE IsWaiting(e)' <=> IsWaiting(e)
    OBVIOUS
  <2>1. ASSUME NEW j \in 1..Len(race_event), race_event[j] = e
        PROVE  e = h \/ \E i \in 1..Len(race_event') : race_event'[i] = e
    <3>1. CASE j = 1
      BY <1>3, <2>1, <3>1
    <3>2. CASE j # 1
      <4>1. j - 1 \in 1..Len(race_event') /\ race_event'[j - 1] = e
        BY <1>3, <2>1, <3>2
      <4> QED
        BY <4>1
    <3> QED
      BY <3>1, <3>2
  <2>2. \E i \in 1..Len(race_event) : race_event[i] = h
    BY <1>3
  <2> QED
    BY <1>1, <1>2, <1>4, <1>5, <2>1, <2>2 DEF IsWaiting
<1>8. NoneLost'
  BY <1>1, <1>2, <1>7 DEF StreamInv, NoneLost
<1>9. QueuesType'
  BY <1>1, <1>2, <1>3 DEF StreamInv, QueuesType
<1> QED
  BY <1>6, <1>8, <1>9

\* When nothing was put aside it reads the oldest event on the socket.
LEMMA QueueRead ==
    ASSUME StreamInv, ReadEvent
    PROVE  QueuesType' /\ InOrder' /\ NoneLost'
<1> DEFINE h == Head(socket)
<1>1. /\ socket \in Seq(Packet) /\ socket # <<>> /\ h \in Event /\ race_event = <<>>
      /\ socket' = Tail(socket) /\ evEvent' = h /\ ~InHand /\ evPc # "ended"
  BY DEF StreamInv, QueuesType, Progress, ReadEvent, InHand
<1>2. UNCHANGED <<kindOf, race_event, done, alive, shared>>
  BY DEF ReadEvent, histVars
<1> HIDE DEF h
<1>3. /\ socket' \in Seq(Packet) /\ Len(socket) \in Nat \ {0}
      /\ Len(socket') = Len(socket) - 1
      /\ \A j \in 1..Len(socket) - 1 : socket'[j] = socket[j + 1]
      /\ socket[1] = h
  BY <1>1, TailFacts DEF h
<1>4. \A j \in 1..Len(socket') :
         j + 1 \in 1..Len(socket) /\ 1 < j + 1 /\ socket'[j] = socket[j + 1]
  BY <1>3
<1>5. InHand' /\ Len(race_event) = 0
  BY <1>1, EventsAssumption DEF ReadEvent, InHand, NoEvent, Event
<1>6. InOrder'
  <2>1. 1 \in 1..Len(socket)
    BY <1>3
  <2>2. \A i, j \in 1..Len(socket') :
          i < j /\ socket'[i] \in Event /\ socket'[j] \in Event => socket'[i] < socket'[j]
    <3> SUFFICES ASSUME NEW i \in 1..Len(socket'), NEW j \in 1..Len(socket'), i < j,
                        socket'[i] \in Event, socket'[j] \in Event
                 PROVE  socket'[i] < socket'[j]
      OBVIOUS
    <3>1. i + 1 < j + 1
      OBVIOUS
    <3> QED
      BY <1>4, <3>1 DEF StreamInv, InOrder
  <2>3. \A j \in 1..Len(socket') : socket'[j] \in Event => h < socket'[j]
    BY <1>1, <1>3, <1>4, <2>1 DEF StreamInv, InOrder
  <2> QED
    BY <1>1, <1>2, <1>5, <2>2, <2>3 DEF InOrder
<1>7. \A e \in Event : IsWaiting(e)' <=> IsWaiting(e)
  <2> SUFFICES ASSUME NEW e \in Event PROVE IsWaiting(e)' <=> IsWaiting(e)
    OBVIOUS
  <2>1. ASSUME NEW j \in 1..Len(socket), socket[j] = e
        PROVE  e = h \/ \E i \in 1..Len(socket') : socket'[i] = e
    <3>1. CASE j = 1
      BY <1>3, <2>1, <3>1
    <3>2. CASE j # 1
      <4>1. j - 1 \in 1..Len(socket') /\ socket'[j - 1] = e
        BY <1>3, <2>1, <3>2
      <4> QED
        BY <4>1
    <3> QED
      BY <3>1, <3>2
  <2>2. \E i \in 1..Len(socket) : socket[i] = h
    BY <1>3
  <2> QED
    BY <1>1, <1>2, <1>4, <1>5, <2>1, <2>2 DEF IsWaiting
<1>8. NoneLost'
  BY <1>1, <1>2, <1>7 DEF StreamInv, NoneLost
<1>9. QueuesType'
  BY <1>1, <1>2, <1>3 DEF StreamInv, QueuesType
<1> QED
  BY <1>6, <1>8, <1>9

\* esl_send_recv keeps the stream's invariant in either thread.
LEMMA StreamCommand ==
    ASSUME StreamInv, NEW t \in Thread, Command(t)
    PROVE  StreamInv'
<1>1. MutexInv /\ MutexInv'
  BY MutexCommand DEF StreamInv
<1>2. UNCHANGED <<evPc, evEvent, kindOf, done>> /\ (alive' => alive)
  BY DEF Command, SendRefused, Send, SendKills, DanglingCommand, ReadAside, Relock,
         RelockRefused, ReadReply, ReadFails, fsVars, evVars, histVars
<1>3. InHand' <=> InHand
  BY <1>2 DEF InHand
<1>4. Intact'
  <2> USE DEF Thread, StreamInv, MutexInv, ThreadsType, Intact
  <2>1. CASE SendRefused(t)
    BY <1>1, <1>2, <2>1 DEF SendRefused, Returns, handleVars, evVars, fsVars, histVars
  <2>2. CASE Send(t)
    BY <1>1, <1>2, <2>2 DEF Send, TakesMutex, evVars
  <2>3. CASE SendKills(t)
    BY <1>1, <1>2, <2>3 DEF SendKills, handleVars, evVars, cmdVars, fsVars, histVars
  <2>4. CASE DanglingCommand(t)
    BY <1>1, <1>2, <2>4 DEF DanglingCommand, Returns, handleVars, evVars, fsVars, histVars
  <2>5. CASE ReadAside(t)
    BY <1>1, <1>2, <2>5 DEF ReadAside, evVars, histVars
  <2>6. CASE Relock(t)
    BY <1>1, <1>2, <2>6 DEF Relock, TakesMutex, evVars, fsVars, histVars
  <2>7. CASE RelockRefused(t)
    BY <1>1, <1>2, <2>7 DEF RelockRefused, Returns, handleVars, evVars, fsVars, histVars
  <2>8. CASE ReadReply(t)
    BY <1>1, <1>2, <2>8 DEF ReadReply, Returns, evVars, histVars
  <2>9. CASE ReadFails(t)
    BY <1>1, <1>2, <2>9 DEF ReadFails, Returns, evVars, fsVars, histVars
  <2> QED
    BY <2>1, <2>2, <2>3, <2>4, <2>5, <2>6, <2>7, <2>8, <2>9 DEF Command
<1>5. Progress'
  BY <1>1, <1>2
  DEF Command, SendRefused, Send, SendKills, DanglingCommand, ReadAside, Relock,
      RelockRefused, ReadReply, ReadFails, TakesMutex, fsVars, handleVars, histVars, StreamInv,
      MutexInv, OneReader, Reading, Thread, Nobody, Progress
<1>6. QueuesType' /\ InOrder' /\ NoneLost'
  <2>1. CASE ReadAside(t)
    BY <2>1, QueueAside
  <2>2. CASE ReadReply(t)
    <3>1. /\ socket # <<>> /\ Head(socket) = Reply /\ socket' = Tail(socket)
          /\ UNCHANGED <<kindOf, race_event, done, alive, shared>>
      BY <2>2 DEF ReadReply, histVars
    <3>2. socket' \in Seq(Packet) /\ InOrder' /\ NoneLost'
      BY <1>2, <1>3, <3>1, QueueReplyRead
    <3> QED
      BY <1>2, <3>1, <3>2 DEF StreamInv, QueuesType
  <2>3. CASE ~ReadAside(t) /\ ~ReadReply(t)
    <3>1. UNCHANGED <<socket, race_event>>
      BY <2>3 DEF Command, SendRefused, Send, SendKills, DanglingCommand, Relock,
                  RelockRefused, ReadFails, fsVars, handleVars
    <3>2. shared' \in BOOLEAN
      BY <2>3 DEF Command, SendRefused, Send, SendKills, DanglingCommand, Relock,
                  RelockRefused, ReadFails, histVars, StreamInv, QueuesType
    <3>3. InOrder' /\ NoneLost'
      BY <1>2, <1>3, <3>1, QueueFrame DEF StreamInv
    <3> QED
      BY <1>2, <3>1, <3>2, <3>3 DEF StreamInv, QueuesType
  <2> QED
    BY <2>1, <2>2, <2>3
<1> QED
  BY <1>1, <1>4, <1>5, <1>6 DEF StreamInv

\* So does Inbound_Init.
LEMMA StreamInbound ==
    ASSUME StreamInv, InboundInit
    PROVE  StreamInv'
<1>1. MutexInv'
  BY MutexInbound DEF StreamInv
<1>2. QueuesType' /\ InOrder' /\ NoneLost' /\ done' <= Len(kindOf')
      /\ (evPc' \in {"body", "duration"} => evEvent' = done' /\ done' > 0)
  <2>1. CASE RecvRace
    BY <2>1, QueueRace DEF RecvRace, fsVars, histVars, StreamInv, Progress
  <2>2. CASE ReadEvent
    BY <2>2, QueueRead DEF ReadEvent, histVars, StreamInv, Progress
  <2>3. CASE ReadOthersReply
    <3>1. /\ socket # <<>> /\ Head(socket) = Reply /\ socket' = Tail(socket)
          /\ UNCHANGED <<kindOf, race_event, done, alive, shared>>
          /\ evEvent' = NoEvent /\ evPc = "read" /\ evPc' = "check"
      BY <2>3 DEF ReadOthersReply
    <3>2. ~InHand /\ ~InHand'
      BY <3>1 DEF InHand
    <3>3. socket' \in Seq(Packet) /\ InOrder' /\ NoneLost'
      BY <3>1, <3>2, QueueReplyRead
    <3> QED
      BY <3>1, <3>3 DEF StreamInv, QueuesType, Progress
  <2>4. CASE \/ Headers
             \/ HeadersFreed /\ alive'
             \/ Check /\ evEvent # NoEvent /\ last_ievent = NoEvent
    <3>1. /\ alive /\ InHand /\ ~InHand' /\ done' = evEvent /\ evPc' # "ended"
          /\ UNCHANGED <<kindOf, socket, race_event, evEvent, shared>>
      BY <2>4 DEF Check, Headers, HeadersFreed, InHand, fsVars, handleVars, StreamInv, Progress
    <3>2. InOrder' /\ NoneLost' /\ done' \in Nat /\ done' <= Len(kindOf') /\ done' > 0
      BY <3>1, QueueDisposed
    <3> QED
      BY <3>1, <3>2 DEF StreamInv, QueuesType
  <2>5. CASE HeadersFreed /\ ~alive'
    <3>1. /\ alive /\ InHand /\ evPc = "headers" /\ evPc' = "headers" /\ done' = evEvent
          /\ UNCHANGED <<kindOf, socket, race_event, evEvent, shared>>
      BY <2>5 DEF HeadersFreed, InHand, fsVars, handleVars, StreamInv, Progress
    <3>2. InHand' /\ done' \in Nat /\ done' <= Len(kindOf')
      BY <3>1, HandIsNext DEF InHand, StreamInv, QueuesType
    <3>3. InOrder' /\ \A e \in Event : IsWaiting(e)' <=> IsWaiting(e)
      BY <3>1, <3>2 DEF StreamInv, InOrder, IsWaiting
    <3> QED
      BY <2>5, <3>1, <3>2, <3>3 DEF StreamInv, QueuesType, NoneLost
  <2>6. CASE Disconnect
    <3>1. /\ race_event' = <<>> /\ evPc = "disconnect" /\ evPc' = "ended"
          /\ UNCHANGED <<kindOf, socket, evEvent, done, shared>>
      BY <2>6 DEF Disconnect, fsVars, histVars
    <3>2. ~InHand /\ ~InHand' /\ race_event' \in Seq(Event) /\ Len(race_event') = 0
      BY <3>1 DEF InHand
    <3>3. InOrder'
      BY <3>1, <3>2 DEF StreamInv, InOrder
    <3>4. \A e \in Event : IsWaiting(e)' => IsWaiting(e)
      BY <3>1, <3>2 DEF IsWaiting
    <3> QED
      BY <3>1, <3>2, <3>3, <3>4 DEF StreamInv, QueuesType, NoneLost, Progress
  <2>7. CASE \/ RecvSocket \/ RecvFails \/ LoopEnds \/ BodyPlain \/ BodyCommands \/ CommandsDone
             \/ BodyInsert \/ Duration
             \/ Check /\ ~(evEvent # NoEvent /\ last_ievent = NoEvent)
    <3>1. /\ UNCHANGED <<kindOf, socket, race_event, evEvent, done, shared>>
          /\ alive /\ evPc # "ended"
      BY <2>7 DEF RecvSocket, RecvFails, LoopEnds, BodyPlain, BodyCommands, CommandsDone, BodyInsert,
                  Duration, Check, fsVars, handleVars, evVars, histVars
    <3>2. InHand' <=> InHand
      BY <2>7, <3>1
      DEF RecvSocket, RecvFails, LoopEnds, BodyPlain, BodyCommands, CommandsDone, BodyInsert, Duration,
          Check, InHand, StreamInv, Progress
    <3>3. InOrder' /\ NoneLost'
      BY <3>1, <3>2, QueueFrame DEF StreamInv
    <3>4. evPc' = "duration" => evPc = "body"
      BY <2>7 DEF RecvSocket, RecvFails, LoopEnds, BodyPlain, BodyCommands, CommandsDone, BodyInsert,
                  Duration, Check
    <3>5. evPc' # "body"
      BY <2>7 DEF RecvSocket, RecvFails, LoopEnds, BodyPlain, BodyCommands, CommandsDone, BodyInsert,
                  Duration, Check
    <3> QED
      BY <3>1, <3>3, <3>4, <3>5 DEF StreamInv, QueuesType, Progress
  <2> QED
    BY <2>1, <2>2, <2>3, <2>4, <2>5, <2>6, <2>7 DEF InboundInit
<1>3. /\ evPc' = "read" => race_event' = <<>> /\ last_ievent' = NoEvent
      /\ evPc' = "check" /\ evEvent' = NoEvent => last_ievent' = NoEvent
      /\ evPc' = "headers" => evEvent' # NoEvent
      /\ Intact'
  <2> USE DEF StreamInv, Progress, Intact
  <2>1. CASE RecvRace
    BY <2>1 DEF RecvRace, fsVars, cmdVars, histVars
  <2>2. CASE RecvSocket
    BY <2>2 DEF RecvSocket, fsVars, cmdVars, histVars, TakesMutex
  <2>3. CASE ReadEvent
    BY <2>3 DEF ReadEvent, cmdVars, histVars
  <2>4. CASE ReadOthersReply
    BY <2>4 DEF ReadOthersReply, cmdVars
  <2>5. CASE RecvFails
    BY <2>5 DEF RecvFails, fsVars, cmdVars, histVars
  <2>6. CASE Disconnect
    BY <2>6 DEF Disconnect, fsVars, cmdVars, histVars
  <2>15. CASE LoopEnds
    BY <2>15 DEF LoopEnds, fsVars, cmdVars, histVars
  <2>7. CASE Check
    BY <2>7 DEF Check, fsVars, handleVars, cmdVars
  <2>8. CASE Headers
    BY <2>8 DEF Headers, fsVars, handleVars, cmdVars
  <2>9. CASE HeadersFreed
    BY <2>9 DEF HeadersFreed, fsVars, handleVars, cmdVars
  <2>10. CASE BodyPlain
    BY <2>10 DEF BodyPlain, fsVars, handleVars, histVars
  <2>11. CASE BodyCommands
    BY <2>11 DEF BodyCommands, fsVars, handleVars, histVars
  <2>12. CASE CommandsDone
    BY <2>12 DEF CommandsDone, fsVars, handleVars, cmdVars, histVars
  <2>13. CASE BodyInsert
    BY <2>13 DEF BodyInsert, fsVars, handleVars, cmdVars, histVars
  <2>14. CASE Duration
    BY <2>14 DEF Duration, fsVars, handleVars, cmdVars
  <2> QED
    BY <2>1, <2>2, <2>3, <2>4, <2>5, <2>6, <2>7, <2>8, <2>9, <2>10, <2>11, <2>12, <2>13, <2>14,
       <2>15 DEF InboundInit
<1> QED
  BY <1>1, <1>2, <1>3 DEF StreamInv, Progress

\* StreamInv is inductive.
LEMMA StreamNext == StreamInv /\ [Next]_vars => StreamInv'
<1> SUFFICES ASSUME StreamInv, [Next]_vars PROVE StreamInv'
  OBVIOUS
<1>1. MutexInv'
  BY MutexNext DEF StreamInv
<1>2. ASSUME NEW k \in Kind, FsEvent(k) PROVE StreamInv'
  <2>1. Len(kindOf') = Len(kindOf) + 1 /\ Len(kindOf) \in Nat
    BY <1>2 DEF FsEvent, StreamInv, QueuesType
  <2>2. Progress' /\ Intact'
    BY <1>2, <2>1 DEF FsEvent, handleVars, evVars, cmdVars, histVars, StreamInv, QueuesType,
                      Progress, Intact
  <2> QED
    BY <1>1, <1>2, <2>2, QueueSent DEF StreamInv
<1>3. CASE FsReply
  <2>1. Progress' /\ Intact'
    BY <1>3 DEF FsReply, handleVars, evVars, cmdVars, histVars, StreamInv, Progress, Intact
  <2> QED
    BY <1>1, <1>3, <2>1, QueueReplied DEF StreamInv
<1>4. CASE Command("ev") \/ Command("acd")
  BY <1>4, StreamCommand DEF Thread
<1>5. CASE InboundInit
  BY <1>5, StreamInbound
<1>6. CASE (\E how \in {"cut", "down"} : FsCloses(how)) \/ Transfer \/ Heartbeat
           \/ UNCHANGED vars
  <2>1. /\ UNCHANGED <<kindOf, socket, race_event, last_ievent, evVars, done, shared>>
        /\ alive' => alive
        /\ cmd'["acd"] \in {"reply", "window"} => cmd["acd"] \in {"reply", "window"}
    BY <1>6 DEF FsCloses, Transfer, Heartbeat, vars, fsVars, handleVars, cmdVars, histVars,
                StreamInv, MutexInv, ThreadsType, Thread
  <2>2. InHand' <=> InHand
    BY <2>1 DEF InHand, evVars
  <2>3. InOrder' /\ NoneLost'
    BY <2>1, <2>2, QueueFrame DEF evVars, StreamInv
  <2>4. QueuesType' /\ Progress' /\ Intact'
    BY <2>1 DEF evVars, StreamInv, QueuesType, Progress, Intact
  <2> QED
    BY <1>1, <2>3, <2>4 DEF StreamInv
<1> QED
  BY <1>2, <1>3, <1>4, <1>5, <1>6 DEF Next, FreeSwitch, EvThread, AcdThread

\* Every step of the two threads and of FreeSWITCH is a step of EventStream, or none.
LEMMA StreamStep == StreamInv /\ [Next]_vars => [Stream!Next]_(Stream!vars)
<1> SUFFICES ASSUME StreamInv, [Next]_vars PROVE [Stream!Next]_(Stream!vars)
  OBVIOUS
<1> USE DEF Stream!Next, Stream!vars
<1>1. ASSUME NEW k \in Kind, FsEvent(k) PROVE Stream!Send
  <2>1. Len(kindOf') = Len(kindOf) + 1
    BY <1>1 DEF FsEvent, StreamInv, QueuesType
  <2> QED
    BY <1>1, <2>1 DEF FsEvent, histVars, Stream!Send
<1>2. ASSUME NEW t \in Thread, Send(t) PROVE Stream!Share \/ UNCHANGED Stream!vars
  <2>1. UNCHANGED <<kindOf, done, missed>> /\ shared' = (shared \/ t = "acd")
    BY <1>2 DEF Send
  <2>2. CASE t = "acd"
    BY <2>1, <2>2 DEF Stream!Share
  <2>3. CASE t = "ev"
    <3>1. shared' = shared
      BY <2>1, <2>3 DEF StreamInv, QueuesType
    <3> QED
      BY <2>1, <3>1
  <2> QED
    BY <2>2, <2>3 DEF Thread
<1>3. CASE \/ Headers \/ HeadersFreed
           \/ Check /\ evEvent # NoEvent /\ last_ievent = NoEvent
  <2>1. alive /\ InHand
    BY <1>3 DEF Headers, HeadersFreed, Check, InHand, StreamInv, Progress
  <2>2. evEvent = done + 1 /\ done < Len(kindOf)
    BY <2>1, HandIsNext
  <2>3. CASE Headers
    BY <2>2, <2>3 DEF Headers, fsVars, Stream!Process
  <2>4. CASE HeadersFreed
    BY <2>2, <2>4 DEF HeadersFreed, fsVars, Stream!Miss, StreamInv, Intact
  <2>5. CASE Check /\ evEvent # NoEvent /\ last_ievent = NoEvent
    BY <2>2, <2>5 DEF Check, fsVars, Stream!Miss, StreamInv, Intact
  <2> QED
    BY <1>3, <2>3, <2>4, <2>5
<1>4. CASE Duration
  BY <1>4 DEF Duration, fsVars, Stream!MissTheRest, StreamInv, Progress, Intact
<1>5. ASSUME NEW t \in Thread, Command(t), ~Send(t) PROVE UNCHANGED Stream!vars
  BY <1>5 DEF Command, SendRefused, SendKills, DanglingCommand, ReadAside, Relock,
              RelockRefused, ReadReply, ReadFails, fsVars, histVars
<1>6. CASE /\ InboundInit
           /\ ~(Headers \/ HeadersFreed \/ Duration)
           /\ ~(Check /\ evEvent # NoEvent /\ last_ievent = NoEvent)
  BY <1>6 DEF InboundInit, RecvRace, RecvSocket, ReadEvent, ReadOthersReply, RecvFails, LoopEnds,
              Disconnect, Check, BodyPlain, BodyCommands, CommandsDone, BodyInsert, fsVars,
              histVars
<1>7. CASE FsReply \/ (\E how \in {"cut", "down"} : FsCloses(how)) \/ Transfer \/ Heartbeat
           \/ UNCHANGED vars
  BY <1>7 DEF FsReply, FsCloses, Transfer, Heartbeat, vars, fsVars, histVars
<1>8. CASE InboundInit
  BY <1>3, <1>4, <1>6, <1>8
<1>9. CASE Command("ev") \/ Command("acd")
  BY <1>2, <1>5, <1>9 DEF Thread
<1> QED
  BY <1>1, <1>7, <1>8, <1>9 DEF Next, FreeSwitch, EvThread, AcdThread

\* For any number of events of any kinds, the two threads on one handle give
\* process_event the stream that EventStream allows: in the order sent, none twice, and
\* none missed until the acd thread uses the handle.
THEOREM StreamRefined == Spec => EventsInOrder
<1>1. Init => Stream!Init
  BY DEF Init, Stream!Init
<1>2. Spec => []StreamInv
  BY StreamInit, StreamNext, PTL DEF Spec
<1> QED
  BY <1>1, <1>2, StreamStep, PTL DEF Spec, EventsInOrder, Stream!Spec

----------------------------------------------------------------------------
(* Types *)

\* A thread inside esl_send_recv has a command left to count down, so Returns stays
\* in range.
LeftInv == \A t \in Thread : cmd[t] # "none" => left[t] \in {1, 2}

TypeInv == StreamInv /\ TypeOK /\ LeftInv

\* Counting a command down keeps both counters in range.
LEMMA ReturnsTypes ==
    ASSUME TypeInv, NEW t \in Thread, cmd[t] # "none", Returns(t)
    PROVE  /\ cmd' \in [Thread -> {"none", "send", "reply", "window"}]
           /\ left' \in [Thread -> 0..2]
           /\ LeftInv'
<1>1. /\ cmd \in [Thread -> {"none", "send", "reply", "window"}]
      /\ left \in [Thread -> 0..2] /\ left[t] \in {1, 2}
  BY DEF TypeInv, TypeOK, LeftInv
<1>2. /\ cmd' = [cmd EXCEPT ![t] = IF left[t] = 1 THEN "none" ELSE "send"]
      /\ left' = [left EXCEPT ![t] = left[t] - 1]
  BY DEF Returns
<1>3. cmd' \in [Thread -> {"none", "send", "reply", "window"}]
  BY <1>1, <1>2
<1>4. left' \in [Thread -> 0..2]
  BY <1>1, <1>2
<1>5. ASSUME NEW u \in Thread, cmd'[u] # "none" PROVE left'[u] \in {1, 2}
  <2>1. CASE u = t
    BY <1>1, <1>2, <1>5, <2>1
  <2>2. CASE u # t
    BY <1>1, <1>2, <1>5, <2>2 DEF TypeInv, LeftInv
  <2> QED
    BY <2>1, <2>2
<1> QED
  BY <1>3, <1>4, <1>5 DEF LeftInv

\* A step of esl_send_recv keeps the types.
LEMMA TypeCommand ==
    ASSUME TypeInv, NEW t \in Thread, Command(t)
    PROVE  TypeOK' /\ LeftInv'
<1>1. StreamInv'
  BY StreamCommand DEF TypeInv
<1>2. /\ kindOf' \in Seq(Kind) /\ socket' \in Seq(Packet) /\ race_event' \in Seq(Event)
      /\ evEvent' \in Event \cup {NoEvent} /\ shared' \in BOOLEAN
      /\ owner' \in Thread \cup {Nobody}
      /\ cmd' \in [Thread -> {"none", "send", "reply", "window"}]
  BY <1>1 DEF StreamInv, QueuesType, MutexInv, ThreadsType
<1>3. UNCHANGED <<line, exists, evPc, evKind, transfers, done, missed, taken>>
  BY DEF Command, SendRefused, Send, SendKills, DanglingCommand, ReadAside, Relock,
         RelockRefused, ReadReply, ReadFails, fsVars, handleVars, evVars, cmdVars, histVars
<1>4. /\ pending' \in Nat /\ connected' \in BOOLEAN /\ alive' \in BOOLEAN
      /\ last_ievent' \in Event \cup {NoEvent}
  <2>1. pending' = pending \/ pending' = pending + 1
    BY DEF Command, SendRefused, Send, SendKills, DanglingCommand, ReadAside, Relock,
           RelockRefused, ReadReply, ReadFails, fsVars
  <2>2. connected' = connected \/ connected' = FALSE
    BY DEF Command, SendRefused, Send, SendKills, DanglingCommand, ReadAside, Relock,
           RelockRefused, ReadReply, ReadFails, handleVars
  <2>3. alive' = alive \/ alive' = FALSE
    BY DEF Command, SendRefused, Send, SendKills, DanglingCommand, ReadAside, Relock,
           RelockRefused, ReadReply, ReadFails
  <2>4. last_ievent' = last_ievent \/ last_ievent' = NoEvent
    BY DEF Command, SendRefused, Send, SendKills, DanglingCommand, ReadAside, Relock,
           RelockRefused, ReadReply, ReadFails, TakesMutex, handleVars
  <2>5. connected' \in BOOLEAN /\ alive' \in BOOLEAN
    BY <2>2, <2>3, Zenon DEF TypeInv, TypeOK
  <2>6. pending' \in Nat /\ last_ievent' \in Event \cup {NoEvent}
    BY <2>1, <2>4 DEF TypeInv, TypeOK
  <2> QED
    BY <2>5, <2>6
<1>5. left' \in [Thread -> 0..2] /\ LeftInv'
  <2>1. ASSUME cmd[t] # "none", Returns(t)
        PROVE  left' \in [Thread -> 0..2] /\ LeftInv'
    BY <2>1, ReturnsTypes
  <2>2. ASSUME UNCHANGED left, cmd[t] # "none", NEW p, cmd' = [cmd EXCEPT ![t] = p]
        PROVE  left' \in [Thread -> 0..2] /\ LeftInv'
    BY <2>2 DEF TypeInv, TypeOK, LeftInv
  <2>3. ASSUME UNCHANGED <<left, cmd>>
        PROVE  left' \in [Thread -> 0..2] /\ LeftInv'
    BY <2>3 DEF TypeInv, TypeOK, LeftInv
  <2>4. CASE SendRefused(t)
    BY <2>4, <2>1 DEF SendRefused
  <2>5. CASE Send(t)
    BY <2>5, <2>2 DEF Send
  <2>6. CASE SendKills(t)
    BY <2>6, <2>3 DEF SendKills, cmdVars
  <2>7. CASE DanglingCommand(t)
    <3>1. cmd[t] # "none"
      BY <2>7 DEF DanglingCommand
    <3> QED
      BY <2>7, <3>1, <2>1, <2>3 DEF DanglingCommand
  <2>8. CASE ReadAside(t)
    BY <2>8, <2>2 DEF ReadAside
  <2>9. CASE Relock(t)
    BY <2>9, <2>2 DEF Relock
  <2>10. CASE RelockRefused(t)
    BY <2>10, <2>1 DEF RelockRefused
  <2>11. CASE ReadReply(t)
    BY <2>11, <2>1 DEF ReadReply
  <2>12. CASE ReadFails(t)
    BY <2>12, <2>1 DEF ReadFails
  <2> QED
    BY <2>4, <2>5, <2>6, <2>7, <2>8, <2>9, <2>10, <2>11, <2>12 DEF Command
<1> QED
  BY <1>2, <1>3, <1>4, <1>5 DEF TypeInv, TypeOK

\* A step of Inbound_Init keeps the types: what it records as missed is an event.
LEMMA TypeInbound ==
    ASSUME TypeInv, InboundInit
    PROVE  TypeOK' /\ LeftInv'
<1>1. StreamInv'
  BY StreamInbound DEF TypeInv
<1>2. /\ kindOf' \in Seq(Kind) /\ socket' \in Seq(Packet) /\ race_event' \in Seq(Event)
      /\ evEvent' \in Event \cup {NoEvent} /\ shared' \in BOOLEAN
      /\ owner' \in Thread \cup {Nobody}
      /\ cmd' \in [Thread -> {"none", "send", "reply", "window"}]
  BY <1>1 DEF StreamInv, QueuesType, MutexInv, ThreadsType
<1>3. UNCHANGED <<line, pending>>
  BY DEF InboundInit, RecvRace, RecvSocket, ReadEvent, ReadOthersReply, RecvFails, LoopEnds,
         Disconnect, Check, Headers, HeadersFreed, BodyPlain, BodyCommands, CommandsDone,
         BodyInsert, Duration, fsVars
<1>4. /\ connected' \in BOOLEAN /\ exists' \in BOOLEAN
      /\ taken' \in Nat /\ transfers' \in Nat
  <2>1. connected' = connected \/ connected' = FALSE
    BY DEF InboundInit, RecvRace, RecvSocket, ReadEvent, ReadOthersReply, RecvFails, LoopEnds,
           Disconnect, Check, Headers, HeadersFreed, BodyPlain, BodyCommands, CommandsDone,
           BodyInsert, Duration, handleVars
  <2>2. exists' = exists \/ exists' = FALSE
    BY DEF InboundInit, RecvRace, RecvSocket, ReadEvent, ReadOthersReply, RecvFails, LoopEnds,
           Disconnect, Check, Headers, HeadersFreed, BodyPlain, BodyCommands, CommandsDone,
           BodyInsert, Duration, handleVars
  <2>3. taken' = taken \/ taken' = taken + 1
    BY DEF InboundInit, RecvRace, RecvSocket, ReadEvent, ReadOthersReply, RecvFails, LoopEnds,
           Disconnect, Check, Headers, HeadersFreed, BodyPlain, BodyCommands, CommandsDone,
           BodyInsert, Duration, histVars
  <2>4. transfers' = transfers \/ transfers' = transfers + 1
    BY DEF InboundInit, RecvRace, RecvSocket, ReadEvent, ReadOthersReply, RecvFails, LoopEnds,
           Disconnect, Check, Headers, HeadersFreed, BodyPlain, BodyCommands, CommandsDone,
           BodyInsert, Duration, cmdVars
  <2>5. connected' \in BOOLEAN /\ exists' \in BOOLEAN
    BY <2>1, <2>2, Zenon DEF TypeInv, TypeOK
  <2>6. taken' \in Nat /\ transfers' \in Nat
    BY <2>3, <2>4 DEF TypeInv, TypeOK
  <2> QED
    BY <2>5, <2>6
<1>5. /\ alive' \in BOOLEAN
      /\ evPc' \in {"lock", "read", "check", "headers", "body", "commands", "duration",
                    "failed", "disconnect", "ended"}
  BY DEF InboundInit, RecvRace, RecvSocket, ReadEvent, ReadOthersReply, RecvFails, LoopEnds,
         Disconnect, Check, Headers, HeadersFreed, BodyPlain, BodyCommands, CommandsDone,
         BodyInsert, Duration, TypeInv, TypeOK
<1>6. last_ievent' \in Event \cup {NoEvent}
  <2>1. race_event # <<>> => Head(race_event) \in Event
    BY TailFacts DEF TypeInv, TypeOK
  <2> QED
    BY <2>1 DEF InboundInit, RecvRace, RecvSocket, ReadEvent, ReadOthersReply, RecvFails, LoopEnds,
         Disconnect, Check, Headers, HeadersFreed, BodyPlain, BodyCommands, CommandsDone,
         BodyInsert, Duration, TakesMutex, handleVars, TypeInv, TypeOK
<1>7. evPc \in {"headers", "body", "duration"} => evEvent \in Event
  BY EventsAssumption DEF TypeInv, StreamInv, Progress, QueuesType, NoEvent, Event
<1>8. done' \in Event \cup {0} /\ missed' \in SUBSET Event
  <2>1. evEvent # NoEvent => evEvent \in Event
    BY DEF TypeInv, TypeOK
  <2> QED
    BY <1>7, <2>1 DEF InboundInit, RecvRace, RecvSocket, ReadEvent, ReadOthersReply, RecvFails, LoopEnds,
         Disconnect, Check, Headers, HeadersFreed, BodyPlain, BodyCommands, CommandsDone,
         BodyInsert, Duration, histVars, TypeInv, TypeOK
<1>9. evKind' \in AllKinds
  <2>1. CASE Headers
    <3>1. alive /\ InHand
      BY <2>1, <1>7 DEF Headers, InHand, TypeInv, StreamInv, Progress
    <3>2. evEvent = done + 1 /\ done < Len(kindOf) /\ done \in Nat /\ kindOf \in Seq(Kind)
      BY <3>1, HandIsNext DEF TypeInv, StreamInv, QueuesType
    <3>3. kindOf[evEvent] \in Kind
      BY <3>2
    <3> QED
      BY <2>1, <3>3, KindAssumption DEF Headers
  <2>2. CASE HeadersFreed
    BY <2>2, KindAssumption DEF HeadersFreed, TypeInv, TypeOK
  <2>3. CASE ~Headers /\ ~HeadersFreed
    BY <2>3 DEF InboundInit, RecvRace, RecvSocket, ReadEvent, ReadOthersReply, RecvFails, LoopEnds,
         Disconnect, Check, BodyPlain, BodyCommands, CommandsDone,
         BodyInsert, Duration, evVars, TypeInv, TypeOK
  <2> QED
    BY <2>1, <2>2, <2>3
<1>10. left' \in [Thread -> 0..2] /\ LeftInv'
  <2>1. CASE BodyCommands
    <3>1. PICK n \in {1, 2} : left' = [left EXCEPT !["ev"] = n]
      BY <2>1 DEF BodyCommands
    <3>2. cmd' = [cmd EXCEPT !["ev"] = "send"]
      BY <2>1 DEF BodyCommands
    <3> QED
      BY <3>1, <3>2 DEF TypeInv, TypeOK, LeftInv, Thread
  <2>2. CASE ~BodyCommands
    <3>1. UNCHANGED <<cmd, left>>
      BY <2>2 DEF InboundInit, RecvRace, RecvSocket, ReadEvent, ReadOthersReply, RecvFails, LoopEnds,
         Disconnect, Check, Headers, HeadersFreed, BodyPlain, CommandsDone,
         BodyInsert, Duration, cmdVars
    <3> QED
      BY <3>1 DEF TypeInv, TypeOK, LeftInv
  <2> QED
    BY <2>1, <2>2
<1> QED
  BY <1>2, <1>3, <1>4, <1>5, <1>6, <1>8, <1>9, <1>10 DEF TypeInv, TypeOK

\* Every step keeps the types.
LEMMA TypeNext == TypeInv /\ [Next]_vars => TypeInv'
<1> SUFFICES ASSUME TypeInv, [Next]_vars PROVE TypeInv'
  OBVIOUS
<1>1. StreamInv'
  BY StreamNext DEF TypeInv
<1>2. /\ kindOf' \in Seq(Kind) /\ socket' \in Seq(Packet)
  BY <1>1 DEF StreamInv, QueuesType
<1>3. CASE FreeSwitch
  <2>1. pending' \in Nat /\ line' \in {"up", "cut", "down"}
    BY <1>3 DEF FreeSwitch, FsEvent, FsReply, FsCloses, TypeInv, TypeOK
  <2>2. UNCHANGED <<handleVars, evVars, cmdVars, alive, histVars>>
    BY <1>3 DEF FreeSwitch, FsEvent, FsReply, FsCloses
  <2> QED
    BY <1>1, <1>2, <2>1, <2>2 DEF handleVars, evVars, cmdVars, histVars, TypeInv, TypeOK,
                                  LeftInv
<1>4. CASE EvThread
  BY <1>1, <1>4, TypeInbound, TypeCommand DEF EvThread, Thread, TypeInv
<1>5. CASE Command("acd")
  BY <1>1, <1>5, TypeCommand DEF Thread, TypeInv
<1>6. CASE Transfer
  <2>1. transfers' \in Nat /\ cmd' = [cmd EXCEPT !["acd"] = "send"]
        /\ left' = [left EXCEPT !["acd"] = 2]
    BY <1>6 DEF Transfer, TypeInv, TypeOK
  <2>2. UNCHANGED <<fsVars, handleVars, evVars, alive, histVars>>
    BY <1>6 DEF Transfer
  <2>3. cmd' \in [Thread -> {"none", "send", "reply", "window"}]
        /\ left' \in [Thread -> 0..2] /\ LeftInv'
    BY <2>1 DEF TypeInv, TypeOK, LeftInv, Thread
  <2> QED
    BY <1>1, <2>1, <2>2, <2>3 DEF fsVars, handleVars, evVars, histVars, TypeInv, TypeOK
<1>7. CASE Heartbeat
  BY <1>1, <1>7 DEF Heartbeat, fsVars, handleVars, evVars, cmdVars, histVars, TypeInv,
                    TypeOK, LeftInv
<1>8. CASE UNCHANGED vars
  BY <1>1, <1>8 DEF vars, fsVars, handleVars, evVars, cmdVars, histVars, TypeInv,
                    TypeOK, LeftInv
<1> QED
  BY <1>3, <1>4, <1>5, <1>6, <1>7, <1>8 DEF Next, AcdThread

\* Nothing has been sent at first.
LEMMA TypeInit == Init => TypeInv
<1> SUFFICES ASSUME Init PROVE TypeInv
  OBVIOUS
<1>1. StreamInv
  BY StreamInit
<1> QED
  BY <1>1 DEF Init, TypeInv, TypeOK, LeftInv, Thread, Nobody, NoEvent, AllKinds, StreamInv,
              QueuesType

\* The variables of the connection keep their types: the event whose headers
\* process_event reads is one FreeSWITCH has sent, what is missed is an event, and
\* no thread counts its commands below zero.
THEOREM ConnectionTypes == Spec => []TypeOK
<1>1. TypeInv => TypeOK
  BY DEF TypeInv
<1> QED
  BY <1>1, TypeInit, TypeNext, PTL DEF Spec

----------------------------------------------------------------------------
(* Replies *)

\* The places of a socket that hold a reply.
RepliesIn(s) == {i \in 1..Len(s) : s[i] = Reply}

\* The threads that wait for a reply.
Waiters == {t \in Thread : cmd[t] \in {"reply", "window"}}

\* A line that is up is one the handle still serves: only an end of file clears
\* connected, and only then is the handle given up.
LineServed ==
    /\ line = "up" => connected /\ exists
    /\ evPc = "failed" => line # "up"
    /\ evPc = "disconnect" => ~connected

AccountInv == TypeInv /\ LineServed /\ RepliesAccounted

\* The places of a socket are finitely many.
LEMMA RepliesFinite ==
    ASSUME NEW s \in Seq(Packet)
    PROVE  IsFiniteSet(RepliesIn(s)) /\ Cardinality(RepliesIn(s)) \in Nat
<1>1. Len(s) \in Nat /\ RepliesIn(s) \in SUBSET (1..Len(s))
  BY DEF RepliesIn
<1>2. IsFiniteSet(1..Len(s))
  BY <1>1, FS_Interval
<1>3. IsFiniteSet(RepliesIn(s))
  BY <1>1, <1>2, FS_Subset
<1> QED
  BY <1>3, FS_CardinalityType

\* A packet FreeSWITCH sends adds a reply exactly when it is one.
LEMMA RepliesSent ==
    ASSUME NEW s \in Seq(Packet), NEW p \in Packet
    PROVE  Cardinality(RepliesIn(Append(s, p))) =
              IF p = Reply THEN Cardinality(RepliesIn(s)) + 1
                           ELSE Cardinality(RepliesIn(s))
<1> DEFINE u == Append(s, p)
<1>1. /\ Len(s) \in Nat /\ Len(u) = Len(s) + 1 /\ u[Len(s) + 1] = p
      /\ \A i \in 1..Len(s) : u[i] = s[i]
  BY AppendFacts
<1> HIDE DEF u
<1>2. CASE p = Reply
  <2>1. RepliesIn(u) = RepliesIn(s) \cup {Len(s) + 1}
    BY <1>1, <1>2 DEF RepliesIn
  <2>2. Len(s) + 1 \notin RepliesIn(s)
    BY <1>1 DEF RepliesIn
  <2>3. Cardinality(RepliesIn(u)) = Cardinality(RepliesIn(s)) + 1
    BY <2>1, <2>2, RepliesFinite, FS_AddElement
  <2> QED
    BY <1>2, <2>3 DEF u
<1>3. CASE p # Reply
  <2>1. RepliesIn(u) = RepliesIn(s)
    BY <1>1, <1>3 DEF RepliesIn
  <2> QED
    BY <1>3, <2>1 DEF u
<1> QED
  BY <1>2, <1>3

\* A packet a thread reads takes a reply away exactly when it is one.
LEMMA RepliesRead ==
    ASSUME NEW s \in Seq(Packet), s # <<>>
    PROVE  Cardinality(RepliesIn(Tail(s))) =
              IF Head(s) = Reply THEN Cardinality(RepliesIn(s)) - 1
                                 ELSE Cardinality(RepliesIn(s))
<1> DEFINE u == Tail(s)
           A == RepliesIn(s) \ {1}
           f == [i \in RepliesIn(u) |-> i + 1]
<1>1. /\ u \in Seq(Packet) /\ Len(s) \in Nat \ {0} /\ Len(u) = Len(s) - 1
      /\ Head(s) = s[1]
      /\ \A i \in 1..Len(s) - 1 : u[i] = s[i + 1]
  BY TailFacts
<1>2. IsFiniteSet(RepliesIn(u)) /\ IsFiniteSet(RepliesIn(s))
      /\ Cardinality(RepliesIn(s)) \in Nat
  BY <1>1, RepliesFinite
<1> HIDE DEF u
<1>3. f \in [RepliesIn(u) -> A]
  <2>1. ASSUME NEW i \in RepliesIn(u) PROVE i + 1 \in A
    BY <1>1 DEF RepliesIn
  <2> QED
    BY <2>1
<1>4. \A i, j \in RepliesIn(u) : f[i] = f[j] => i = j
  BY DEF RepliesIn
<1>5. ASSUME NEW j \in A PROVE \E i \in RepliesIn(u) : f[i] = j
  <2>1. j \in 2..Len(s) /\ s[j] = Reply
    BY <1>1 DEF RepliesIn
  <2>2. j - 1 \in 1..Len(s) - 1 /\ u[j - 1] = s[j - 1 + 1] /\ j - 1 + 1 = j
    BY <1>1, <2>1
  <2>3. j - 1 \in RepliesIn(u)
    BY <1>1, <2>1, <2>2 DEF RepliesIn
  <2> QED
    BY <2>2, <2>3
<1>6. f \in Bijection(RepliesIn(u), A)
  <2> HIDE DEF f
  <2> QED
    BY <1>3, <1>4, <1>5, Fun_IsBij
<1>7. Cardinality(RepliesIn(u)) = Cardinality(A)
  BY <1>2, <1>6, FS_Bijection, Zenon DEF ExistsBijection
<1>8. Cardinality(A) = IF 1 \in RepliesIn(s) THEN Cardinality(RepliesIn(s)) - 1
                                            ELSE Cardinality(RepliesIn(s))
  BY <1>2, FS_RemoveElement
<1>9. 1 \in RepliesIn(s) <=> Head(s) = Reply
  BY <1>1 DEF RepliesIn
<1> QED
  BY <1>7, <1>8, <1>9 DEF u

\* There are finitely many threads to count.
LEMMA ThreadsCounted ==
    ASSUME NEW V \in SUBSET Thread
    PROVE  IsFiniteSet(V) /\ Cardinality(V) \in Nat
<1>1. IsFiniteSet(Thread)
  <2>1. IsFiniteSet({"ev"} \cup {"acd"})
    BY FS_Singleton, FS_AddElement
  <2> QED
    BY <2>1 DEF Thread
<1>2. IsFiniteSet(V)
  BY <1>1, FS_Subset
<1> QED
  BY <1>2, FS_CardinalityType

\* The terms of the balance are numbers.
LEMMA AccountNumbers ==
    ASSUME TypeInv
    PROVE  Waiting \in Nat /\ Replies \in Nat /\ pending \in Nat /\ taken \in Nat
<1>1. Replies \in Nat
  BY RepliesFinite DEF TypeInv, TypeOK, Replies, RepliesIn
<1>2. Waiting \in Nat
  BY ThreadsCounted DEF Waiting
<1> QED
  BY <1>1, <1>2 DEF TypeInv, TypeOK

\* A step of one thread's command changes the waiting threads by that thread only.
LEMMA WaitingStep ==
    ASSUME TypeInv, NEW t \in Thread, NEW p, cmd' = [cmd EXCEPT ![t] = p]
    PROVE  /\ (p \in {"reply", "window"} <=> cmd[t] \in {"reply", "window"})
                 => Waiting' = Waiting
           /\ (p \in {"reply", "window"} /\ cmd[t] \notin {"reply", "window"})
                 => Waiting' = Waiting + 1
           /\ (p \notin {"reply", "window"} /\ cmd[t] \in {"reply", "window"})
                 => Waiting' = Waiting - 1
<1>1. cmd'[t] = p /\ \A u \in Thread \ {t} : cmd'[u] = cmd[u]
  BY DEF TypeInv, TypeOK
<1>2. Waiting = Cardinality(Waiters) /\ Waiting' = Cardinality(Waiters')
      /\ IsFiniteSet(Waiters)
  BY ThreadsCounted DEF Waiting, Waiters
<1>3. ASSUME p \in {"reply", "window"} <=> cmd[t] \in {"reply", "window"}
      PROVE  Waiting' = Waiting
  <2>1. Waiters' = Waiters
    BY <1>1, <1>3 DEF Waiters
  <2> QED
    BY <1>2, <2>1
<1>4. ASSUME p \in {"reply", "window"}, cmd[t] \notin {"reply", "window"}
      PROVE  Waiting' = Waiting + 1
  <2>1. Waiters' = Waiters \cup {t} /\ t \notin Waiters
    BY <1>1, <1>4 DEF Waiters
  <2> QED
    BY <1>2, <2>1, FS_AddElement
<1>5. ASSUME p \notin {"reply", "window"}, cmd[t] \in {"reply", "window"}
      PROVE  Waiting' = Waiting - 1
  <2>1. Waiters' = Waiters \ {t} /\ t \in Waiters
    BY <1>1, <1>5 DEF Waiters
  <2> QED
    BY <1>2, <2>1, FS_RemoveElement
<1> QED
  BY <1>3, <1>4, <1>5

\* A packet put on the socket.
LEMMA RepliesStepSent ==
    ASSUME TypeInv, NEW p \in Packet, socket' = Append(socket, p)
    PROVE  Replies' = IF p = Reply THEN Replies + 1 ELSE Replies
  BY RepliesSent DEF TypeInv, TypeOK, Replies, RepliesIn

\* A packet read from the socket.
LEMMA RepliesStepRead ==
    ASSUME TypeInv, socket # <<>>, socket' = Tail(socket)
    PROVE  Replies' = IF Head(socket) = Reply THEN Replies - 1 ELSE Replies
  BY RepliesRead DEF TypeInv, TypeOK, Replies, RepliesIn

\* Steps that send, read and wait for nothing leave the balance.
LEMMA AccountFrame ==
    ASSUME RepliesAccounted, UNCHANGED <<line, pending, socket, taken>>, Waiting' = Waiting
    PROVE  RepliesAccounted'
<1>1. Replies' = Replies
  BY DEF Replies
<1> QED
  BY <1>1 DEF RepliesAccounted

\* A command adds itself to the threads that wait and to the commands FreeSWITCH has
\* read; it comes back with a reply, and without one only on a line that is closed.
LEMMA AccountCommand ==
    ASSUME AccountInv, NEW t \in Thread, Command(t)
    PROVE  LineServed' /\ RepliesAccounted'
<1> DEFINE W == {"reply", "window"}
<1>1. TypeInv /\ LineServed /\ RepliesAccounted
  BY DEF AccountInv
<1>2. Waiting \in Nat /\ Replies \in Nat /\ pending \in Nat /\ taken \in Nat
  BY <1>1, AccountNumbers
<1>3. UNCHANGED <<line, evPc, exists, taken>>
  BY DEF Command, SendRefused, Send, SendKills, DanglingCommand, ReadAside, Relock,
         RelockRefused, ReadReply, ReadFails, fsVars, handleVars, evVars, histVars
<1>4. LineServed'
  <2>1. connected' = connected \/ (connected' = FALSE /\ line # "up")
    BY DEF Command, SendRefused, Send, SendKills, DanglingCommand, ReadAside, Relock,
           RelockRefused, ReadReply, ReadFails, EndOfFile, handleVars
  <2> QED
    BY <1>1, <1>3, <2>1 DEF LineServed
<1> SUFFICES RepliesAccounted'
  BY <1>4
<1>5. CASE line # "up"
  BY <1>3, <1>5 DEF RepliesAccounted
<1>6. CASE line = "up"
  <2>1. connected /\ exists
    BY <1>1, <1>6 DEF LineServed
  <2>2. ~SendRefused(t) /\ ~SendKills(t) /\ ~DanglingCommand(t) /\ ~RelockRefused(t)
        /\ ~ReadFails(t)
    BY <1>6, <2>1 DEF SendRefused, SendKills, DanglingCommand, RelockRefused, ReadFails,
                      EndOfFile
  <2>3. Waiting = pending + Replies + taken
    BY <1>1, <1>6 DEF RepliesAccounted
  <2>4. CASE Send(t)
    <3>1. cmd[t] \notin W /\ cmd' = [cmd EXCEPT ![t] = "reply"]
      BY <2>4 DEF Send
    <3>2. Waiting' = Waiting + 1
      BY <1>1, <3>1, WaitingStep
    <3>3. pending' = pending + 1 /\ socket' = socket
      BY <1>6, <2>4 DEF Send
    <3>4. Replies' = Replies
      BY <3>3 DEF Replies
    <3> QED
      BY <1>2, <1>3, <2>3, <3>2, <3>3, <3>4 DEF RepliesAccounted
  <2>5. CASE ReadAside(t)
    <3>1. cmd[t] \in W /\ cmd' = [cmd EXCEPT ![t] = "window"] /\ pending' = pending
          /\ socket # <<>> /\ Head(socket) # Reply /\ socket' = Tail(socket)
      BY <2>5, EventsAssumption DEF ReadAside, Event, Reply
    <3>2. Waiting' = Waiting
      BY <1>1, <3>1, WaitingStep
    <3>3. Replies' = Replies
      BY <1>1, <3>1, RepliesStepRead
    <3> QED
      BY <1>3, <2>3, <3>1, <3>2, <3>3 DEF RepliesAccounted
  <2>6. CASE Relock(t)
    <3>1. cmd[t] \in W /\ cmd' = [cmd EXCEPT ![t] = "reply"]
          /\ UNCHANGED <<line, pending, socket, taken>>
      BY <2>6 DEF Relock, fsVars, histVars
    <3>2. Waiting' = Waiting
      BY <1>1, <3>1, WaitingStep
    <3> QED
      BY <1>1, <3>1, <3>2, AccountFrame
  <2>7. CASE ReadReply(t)
    <3>1. /\ cmd[t] \in W /\ pending' = pending
          /\ cmd' = [cmd EXCEPT ![t] = IF left[t] = 1 THEN "none" ELSE "send"]
          /\ socket # <<>> /\ Head(socket) = Reply /\ socket' = Tail(socket)
      BY <2>7 DEF ReadReply, Returns
    <3>2. Waiting' = Waiting - 1
      <4>1. PICK p \in {"none", "send"} : cmd' = [cmd EXCEPT ![t] = p]
        BY <3>1
      <4> QED
        BY <1>1, <3>1, <4>1, WaitingStep
    <3>3. Replies' = Replies - 1
      BY <1>1, <3>1, RepliesStepRead
    <3> QED
      BY <1>2, <1>3, <2>3, <3>1, <3>2, <3>3 DEF RepliesAccounted
  <2> QED
    BY <2>2, <2>4, <2>5, <2>6, <2>7 DEF Command
<1> QED
  BY <1>5, <1>6

\* Inbound_Init throws a reply away, or reads none.
LEMMA AccountInbound ==
    ASSUME AccountInv, InboundInit
    PROVE  LineServed' /\ RepliesAccounted'
<1>1. TypeInv /\ LineServed /\ RepliesAccounted
  BY DEF AccountInv
<1>2. Waiting \in Nat /\ Replies \in Nat /\ pending \in Nat /\ taken \in Nat
  BY <1>1, AccountNumbers
<1>3. UNCHANGED <<line, pending>>
  BY DEF InboundInit, RecvRace, RecvSocket, ReadEvent, ReadOthersReply, RecvFails, LoopEnds,
         Disconnect, Check, Headers, HeadersFreed, BodyPlain, BodyCommands, CommandsDone,
         BodyInsert, Duration, fsVars
<1>4. LineServed'
  <2>1. CASE RecvFails
    BY <1>1, <1>3, <2>1 DEF RecvFails, EndOfFile, LineServed
  <2>2. CASE Disconnect
    BY <1>1, <1>3, <2>2 DEF Disconnect, LineServed
  <2>4. CASE LoopEnds
    BY <1>1, <1>3, <2>4 DEF LoopEnds, LineServed
  <2>3. CASE ~RecvFails /\ ~Disconnect /\ ~LoopEnds
    <3>1. UNCHANGED <<connected, exists>> /\ evPc' \notin {"failed", "disconnect"}
      BY <2>3 DEF InboundInit, RecvRace, RecvSocket, ReadEvent, ReadOthersReply,
           Check, Headers, HeadersFreed, BodyPlain, BodyCommands, CommandsDone,
           BodyInsert, Duration, handleVars
    <3> QED
      BY <1>1, <1>3, <3>1 DEF LineServed
  <2> QED
    BY <2>1, <2>2, <2>3, <2>4
<1> SUFFICES RepliesAccounted'
  BY <1>4
<1>5. CASE ReadEvent
  <2>1. /\ socket # <<>> /\ Head(socket) # Reply /\ socket' = Tail(socket)
        /\ UNCHANGED <<cmd, taken>>
    BY <1>5, EventsAssumption DEF ReadEvent, Event, Reply, cmdVars, histVars
  <2>2. Replies' = Replies
    BY <1>1, <2>1, RepliesStepRead
  <2>3. Waiting' = Waiting
    BY <2>1 DEF Waiting
  <2> QED
    BY <1>1, <1>3, <2>1, <2>2, <2>3 DEF RepliesAccounted
<1>6. CASE ReadOthersReply
  <2>1. /\ socket # <<>> /\ Head(socket) = Reply /\ socket' = Tail(socket)
        /\ cmd' = cmd /\ taken' = taken + 1
    BY <1>6 DEF ReadOthersReply, cmdVars
  <2>2. Replies' = Replies - 1
    BY <1>1, <2>1, RepliesStepRead
  <2>3. Waiting' = Waiting
    BY <2>1 DEF Waiting
  <2> QED
    BY <1>1, <1>2, <1>3, <2>1, <2>2, <2>3 DEF RepliesAccounted
<1>7. CASE BodyCommands
  <2>1. /\ cmd' = [cmd EXCEPT !["ev"] = "send"] /\ evPc = "body"
        /\ UNCHANGED <<line, pending, socket, taken>>
    BY <1>7 DEF BodyCommands, fsVars, histVars
  <2>2. cmd["ev"] = "none" /\ "ev" \in Thread
    BY <1>1, <2>1 DEF TypeInv, StreamInv, MutexInv, Thread
  <2>3. Waiting' = Waiting
    <3>1. PICK p \in {"send"} : cmd' = [cmd EXCEPT !["ev"] = p]
      BY <2>1
    <3> QED
      BY <1>1, <2>2, <3>1, WaitingStep
  <2> QED
    BY <1>1, <2>1, <2>3, AccountFrame
<1>8. CASE ~ReadEvent /\ ~ReadOthersReply /\ ~BodyCommands
  <2>1. UNCHANGED <<line, pending, socket, taken, cmd>>
    BY <1>8 DEF InboundInit, RecvRace, RecvSocket, RecvFails, LoopEnds,
         Disconnect, Check, Headers, HeadersFreed, BodyPlain, CommandsDone,
         BodyInsert, Duration, fsVars, cmdVars, histVars
  <2>2. Waiting' = Waiting
    BY <2>1 DEF Waiting
  <2> QED
    BY <1>1, <2>1, <2>2, AccountFrame
<1> QED
  BY <1>5, <1>6, <1>7, <1>8

\* Every step keeps the balance.
LEMMA AccountNext == AccountInv /\ [Next]_vars => AccountInv'
<1> SUFFICES ASSUME AccountInv, [Next]_vars PROVE AccountInv'
  OBVIOUS
<1>1. TypeInv /\ LineServed /\ RepliesAccounted /\ TypeInv'
  BY TypeNext DEF AccountInv
<1>2. Waiting \in Nat /\ Replies \in Nat /\ pending \in Nat /\ taken \in Nat
  BY <1>1, AccountNumbers
<1> SUFFICES LineServed' /\ RepliesAccounted'
  BY <1>1 DEF AccountInv
<1>3. CASE FreeSwitch
  <2>1. /\ UNCHANGED <<connected, exists, evPc, cmd, taken>>
        /\ line' = "up" => line = "up"
    BY <1>3 DEF FreeSwitch, FsEvent, FsReply, FsCloses, handleVars, evVars, cmdVars, histVars
  <2>2. LineServed' /\ Waiting' = Waiting
    BY <1>1, <2>1 DEF LineServed, Waiting
  <2>3. ASSUME NEW k \in Kind, FsEvent(k) PROVE RepliesAccounted'
    <3>1. PICK n \in Packet : n # Reply /\ socket' = Append(socket, n)
      <4>1. Len(kindOf) + 1 \in Packet /\ Len(kindOf) + 1 # Reply
        BY <1>1, <2>3, EventsAssumption DEF FsEvent, TypeInv, TypeOK, Packet, Event, Reply
      <4> QED
        BY <2>3, <4>1 DEF FsEvent
    <3>2. Replies' = Replies
      BY <1>1, <3>1, RepliesStepSent
    <3>3. UNCHANGED <<line, pending>>
      BY <2>3 DEF FsEvent
    <3> QED
      BY <1>1, <2>1, <2>2, <3>2, <3>3 DEF RepliesAccounted
  <2>4. CASE FsReply
    <3>1. Reply \in Packet /\ socket' = Append(socket, Reply)
      BY <2>4 DEF FsReply, Packet
    <3>2. Replies' = Replies + 1
      BY <1>1, <3>1, RepliesStepSent
    <3>3. line' = line /\ pending' = pending - 1
      BY <2>4 DEF FsReply
    <3> QED
      BY <1>1, <1>2, <2>1, <2>2, <3>2, <3>3 DEF RepliesAccounted
  <2>5. ASSUME NEW how \in {"cut", "down"}, FsCloses(how) PROVE RepliesAccounted'
    BY <2>5 DEF FsCloses, RepliesAccounted
  <2> QED
    BY <1>3, <2>2, <2>3, <2>4, <2>5 DEF FreeSwitch
<1>4. CASE EvThread
  BY <1>4, AccountInbound, AccountCommand DEF EvThread, Thread
<1>5. CASE Command("acd")
  BY <1>5, AccountCommand DEF Thread
<1>6. CASE Transfer
  <2>1. /\ cmd' = [cmd EXCEPT !["acd"] = "send"] /\ cmd["acd"] = "none" /\ "acd" \in Thread
        /\ UNCHANGED <<line, pending, socket, taken, connected, exists, evPc>>
    BY <1>6 DEF Transfer, Thread, fsVars, handleVars, evVars, histVars
  <2>2. Waiting' = Waiting
    <3>1. PICK p \in {"send"} : cmd' = [cmd EXCEPT !["acd"] = p]
      BY <2>1
    <3> QED
      BY <1>1, <2>1, <3>1, WaitingStep
  <2> QED
    BY <1>1, <2>1, <2>2, AccountFrame DEF LineServed
<1>7. CASE Heartbeat \/ UNCHANGED vars
  <2>1. UNCHANGED <<line, pending, socket, taken, connected, exists, evPc, cmd>>
    BY <1>7 DEF Heartbeat, vars, fsVars, handleVars, evVars, cmdVars, histVars
  <2>2. Waiting' = Waiting
    BY <2>1 DEF Waiting
  <2> QED
    BY <1>1, <2>1, <2>2, AccountFrame DEF LineServed
<1> QED
  BY <1>3, <1>4, <1>5, <1>6, <1>7 DEF Next, AcdThread

\* No command is under way at first.
LEMMA AccountInit == Init => AccountInv
<1> SUFFICES ASSUME Init PROVE AccountInv
  OBVIOUS
<1>1. TypeInv
  BY TypeInit
<1>2. LineServed
  BY DEF Init, LineServed
<1>3. /\ {t \in Thread : cmd[t] \in {"reply", "window"}} = {}
      /\ {i \in 1..Len(socket) : socket[i] = Reply} = {}
      /\ pending = 0 /\ taken = 0
  BY DEF Init
<1>4. RepliesAccounted
  <2>1. Waiting = 0 /\ Replies = 0
    BY <1>3, FS_EmptySet, Zenon DEF Waiting, Replies
  <2> QED
    BY <1>3, <2>1 DEF RepliesAccounted
<1> QED
  BY <1>1, <1>2, <1>4 DEF AccountInv

\* While the line is up, a thread that waits for a reply has one coming, unless the
\* event thread read it in the window of a command and threw it away.
THEOREM RepliesBalance == Spec => []RepliesAccounted
<1>1. AccountInv => RepliesAccounted
  BY DEF AccountInv
<1> QED
  BY <1>1, AccountInit, AccountNext, PTL DEF Spec

=============================================================================

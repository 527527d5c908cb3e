----------------------------- MODULE EslHandle -----------------------------
(***************************************************************************)
(* The connection of the Inbound_Init thread to FreeSWITCH: one            *)
(* esl_handle_t (src/esl/esl.c) on which that thread receives the events,  *)
(* and on which two threads send commands:                                 *)
(*                                                                         *)
(*   ev   Inbound_Init: esl_recv_event, process_event, and from there the  *)
(*        bridge of CHANNEL_ORIGINATE and the break and playback of a menu *)
(*   acd  ACDqueue::run: break and bridge for a call that a key or an      *)
(*        answered task call transferred, whose m_handle is this handle    *)
(*                                                                         *)
(* esl_recv_event and esl_send_recv hold the handle's mutex while they     *)
(* read the socket.  A command that reads an event puts it on race_event,  *)
(* releases the mutex, takes it again and reads on: the WINDOW.  Every     *)
(* esl_recv_event first destroys last_ievent, the event that process_event *)
(* may be working on in the other thread.                                  *)
(*                                                                         *)
(* The heartbeat thread has a connection of its own.                       *)
(***************************************************************************)
EXTENDS Integers, Sequences, FiniteSets

CONSTANTS
    Kind,       \* the kinds of event that occur, a subset of AllKinds
    MaxEvents   \* bound: events FreeSWITCH sends

(* What process_event does with an event:
     "other"      reads its headers and changes no ESL state
     "agent"      DTMF or ANSWER: TransformAgent queues the call for the acd thread
     "menu"       DTMF or ANSWER: PlayBack sends break and playback
     "originate"  CHANNEL_ORIGINATE: sends bridge
     "destroy"    CHANNEL_DESTROY: reads variable_duration after the insert *)
AllKinds == {"other", "agent", "menu", "originate", "destroy"}

ASSUME KindAssumption == Kind \subseteq AllKinds
ASSUME EventsAssumption == MaxEvents \in Nat

Thread == {"ev", "acd"}
Nobody == "nobody"
NoEvent == 0
Event == 1..MaxEvents

\* A packet on the socket: an event by its number, or the reply to a command.
Reply == MaxEvents + 1
Packet == Event \cup {Reply}

VARIABLES
    kindOf,     \* sequence: the kind of each event sent
    pending,    \* commands FreeSWITCH has read and not replied to
    socket,     \* sequence of packets on their way to the server
    line,       \* "up", "cut" (this connection only) or "down" (FreeSWITCH is)
    owner,      \* who holds handle->mutex
    connected,  \* handle->connected
    race_event, \* sequence of events put aside by a command
    last_ievent,\* the event handle->last_ievent points to
    exists,     \* the handle, a local variable of Inbound_Init, exists
    evPc, evEvent, evKind, \* Inbound_Init; the event it has received, what it reads
    transfers,  \* sessions in m_acdqueue with this handle as m_handle
    cmd,        \* Thread -> where its esl_send_recv is
    left,       \* Thread -> commands it still has to send for this event or session
    alive,      \* the process
    done,       \* history: the last event disposed of
    missed,     \* history: events dropped, or read after they were destroyed
    shared,     \* history: the acd thread has used the handle
    taken       \* history: replies the event thread has read and thrown away

fsVars == <<kindOf, pending, socket, line>>
handleVars == <<owner, connected, race_event, last_ievent, exists>>
evVars == <<evPc, evEvent, evKind>>
cmdVars == <<transfers, cmd, left>>
histVars == <<done, missed, shared, taken>>
vars == <<fsVars, handleVars, evVars, cmdVars, alive, histVars>>

----------------------------------------------------------------------------
Init ==
    /\ kindOf = <<>> /\ pending = 0 /\ socket = <<>> /\ line = "up"
    /\ owner = Nobody /\ connected = TRUE /\ race_event = <<>>
    /\ last_ievent = NoEvent /\ exists = TRUE
    /\ evPc = "lock" /\ evEvent = NoEvent /\ evKind = "other"
    /\ transfers = 0
    /\ cmd = [t \in Thread |-> "none"] /\ left = [t \in Thread |-> 0]
    /\ alive = TRUE
    /\ done = 0 /\ missed = {} /\ shared = FALSE /\ taken = 0

----------------------------------------------------------------------------
(* FreeSWITCH (external) *)

FsEvent(k) ==
    /\ line = "up" /\ Len(kindOf) < MaxEvents
    /\ kindOf' = Append(kindOf, k)
    /\ socket' = Append(socket, Len(kindOf) + 1)
    /\ UNCHANGED <<pending, line, handleVars, evVars, cmdVars, alive, histVars>>

FsReply ==
    /\ line = "up" /\ pending > 0
    /\ pending' = pending - 1
    /\ socket' = Append(socket, Reply)
    /\ UNCHANGED <<kindOf, line, handleVars, evVars, cmdVars, alive, histVars>>

\* The connection ends; what has been sent can still be read.  FreeSWITCH drops a
\* single listener too, for instance when it reads too slowly.
FsCloses(how) ==
    /\ line = "up"
    /\ line' = how
    /\ pending' = 0
    /\ UNCHANGED <<kindOf, socket, handleVars, evVars, cmdVars, alive, histVars>>

FreeSwitch ==
    \/ \E k \in Kind : FsEvent(k)
    \/ FsReply
    \/ \E how \in {"cut", "down"} : FsCloses(how)

----------------------------------------------------------------------------
(* esl_send_recv_timed with ms = 0 *)

EndOfFile == socket = <<>> /\ line # "up"

\* The command is over, with or without a reply; the caller goes on all the same.
Returns(t) ==
    /\ left' = [left EXCEPT ![t] = @ - 1]
    /\ cmd' = [cmd EXCEPT ![t] = IF left[t] = 1 THEN "none" ELSE "send"]

\* esl_recv_event, called by thread t, destroys the event of the last call.
TakesMutex(t) ==
    /\ owner = Nobody
    /\ owner' = t
    /\ last_ievent' = NoEvent

\* handle->connected is tested before and after the mutex is taken.
SendRefused(t) ==
    /\ alive /\ exists
    /\ cmd[t] = "send" /\ ~connected
    /\ Returns(t)
    /\ UNCHANGED <<fsVars, handleVars, evVars, transfers, alive, histVars>>

Send(t) ==
    /\ alive /\ exists
    /\ cmd[t] = "send" /\ connected
    /\ TakesMutex(t)
    /\ pending' = IF line = "up" THEN pending + 1 ELSE pending
    /\ cmd' = [cmd EXCEPT ![t] = "reply"]
    /\ shared' = (shared \/ t = "acd")
    /\ UNCHANGED <<kindOf, socket, line, connected, race_event, exists, evVars,
                   transfers, left, alive, done, missed, taken>>

\* Mutant: the event is put before those already waiting.
ReadAside_Front(t) ==
    /\ alive /\ cmd[t] = "reply"
    /\ socket # <<>> /\ Head(socket) \in Event
    /\ race_event' = <<Head(socket)>> \o race_event
    /\ socket' = Tail(socket)
    /\ owner' = Nobody
    /\ cmd' = [cmd EXCEPT ![t] = "window"]
    /\ UNCHANGED <<kindOf, pending, line, connected, last_ievent, exists, evVars,
                   transfers, left, alive, histVars>>

\* Mutant: the packet is not looked at, an event counts as the reply.
ReadAside_AsReply(t) ==
    /\ alive /\ cmd[t] = "reply"
    /\ socket # <<>> /\ Head(socket) \in Event
    /\ race_event' = Append(race_event, Head(socket))
    /\ socket' = Tail(socket)
    /\ owner' = Nobody
    /\ Returns(t)
    /\ UNCHANGED <<kindOf, pending, line, connected, last_ievent, exists, evVars,
                   transfers, alive, histVars>>

\* The packet is an event: append it to race_event and release the mutex.
ReadAside(t) ==
    /\ alive /\ cmd[t] = "reply"
    /\ socket # <<>> /\ Head(socket) \in Event
    /\ race_event' = Append(race_event, Head(socket))
    /\ socket' = Tail(socket)
    /\ owner' = Nobody
    /\ cmd' = [cmd EXCEPT ![t] = "window"]
    /\ UNCHANGED <<kindOf, pending, line, connected, last_ievent, exists, evVars,
                   transfers, left, alive, histVars>>

\* Mutant: the mutex is not taken again before the next read.
Relock_NoMutex(t) ==
    /\ alive /\ exists
    /\ cmd[t] = "window" /\ connected
    /\ cmd' = [cmd EXCEPT ![t] = "reply"]
    /\ UNCHANGED <<fsVars, handleVars, evVars, transfers, left, alive, histVars>>

\* The mutex is taken again, and the next packet is read.
Relock(t) ==
    /\ alive /\ exists
    /\ cmd[t] = "window" /\ connected
    /\ TakesMutex(t)
    /\ cmd' = [cmd EXCEPT ![t] = "reply"]
    /\ UNCHANGED <<fsVars, connected, race_event, exists, evVars, transfers, left,
                   alive, histVars>>

RelockRefused(t) ==
    /\ alive /\ exists
    /\ cmd[t] = "window" /\ ~connected
    /\ owner = Nobody
    /\ Returns(t)
    /\ UNCHANGED <<fsVars, handleVars, evVars, transfers, alive, histVars>>

ReadReply(t) ==
    /\ alive /\ cmd[t] = "reply"
    /\ socket # <<>> /\ Head(socket) = Reply
    /\ socket' = Tail(socket)
    /\ owner' = Nobody
    /\ Returns(t)
    /\ UNCHANGED <<kindOf, pending, line, connected, race_event, last_ievent, exists,
                   evVars, transfers, alive, histVars>>

ReadFails(t) ==
    /\ alive /\ cmd[t] = "reply"
    /\ EndOfFile
    /\ connected' = FALSE
    /\ owner' = Nobody
    /\ Returns(t)
    /\ UNCHANGED <<fsVars, race_event, last_ievent, exists, evVars, transfers, alive,
                   histVars>>

\* send() on a connection the other side has closed raises SIGPIPE, which nothing
\* in the server handles or ignores.
SendKills(t) ==
    /\ alive /\ exists
    /\ cmd[t] = "send" /\ connected /\ owner = Nobody
    /\ line # "up"
    /\ alive' = FALSE
    /\ UNCHANGED <<fsVars, handleVars, evVars, cmdVars, histVars>>

\* The handle was on the stack of Inbound_Init, which has returned: the command
\* fails on the zeroed memory, or the process dies on what has replaced it.
DanglingCommand(t) ==
    /\ alive /\ ~exists
    /\ cmd[t] \in {"send", "window"}
    /\ \/ Returns(t) /\ UNCHANGED alive
       \/ alive' = FALSE /\ UNCHANGED <<cmd, left>>
    /\ UNCHANGED <<fsVars, handleVars, evVars, transfers, histVars>>

Command(t) ==
    \/ SendRefused(t) \/ Send(t) \/ SendKills(t) \/ DanglingCommand(t)
    \/ ReadAside(t) \/ Relock(t) \/ RelockRefused(t) \/ ReadReply(t) \/ ReadFails(t)

----------------------------------------------------------------------------
(* The acd thread: inline_TransformAgent sends break and bridge *)

\* Mutant: the queue is read without waiting for its semaphore.
Transfer_NoWait ==
    /\ alive
    /\ cmd["acd"] = "none"
    /\ transfers' = transfers - 1
    /\ cmd' = [cmd EXCEPT !["acd"] = "send"]
    /\ left' = [left EXCEPT !["acd"] = 2]
    /\ UNCHANGED <<fsVars, handleVars, evVars, alive, histVars>>

Transfer ==
    /\ alive
    /\ cmd["acd"] = "none" /\ transfers > 0
    /\ transfers' = transfers - 1
    /\ cmd' = [cmd EXCEPT !["acd"] = "send"]
    /\ left' = [left EXCEPT !["acd"] = 2]
    /\ UNCHANGED <<fsVars, handleVars, evVars, alive, histVars>>

----------------------------------------------------------------------------
(* Inbound_Init: while (esl_recv_event(&handle, 1, NULL) == ESL_SUCCESS) *)

\* esl_recv_event takes what a command has put aside first.
RecvRace ==
    /\ alive
    /\ evPc = "lock" /\ owner = Nobody /\ connected
    /\ race_event # <<>>
    /\ last_ievent' = Head(race_event) /\ evEvent' = Head(race_event)
    /\ race_event' = Tail(race_event)
    /\ evPc' = "check"
    /\ UNCHANGED <<fsVars, owner, connected, exists, evKind, cmdVars, alive, histVars>>

\* Mutant: esl_recv_event is called with check_q = 0.
RecvSocket_NoQueue ==
    /\ alive
    /\ evPc = "lock" /\ connected
    /\ TakesMutex("ev")
    /\ evPc' = "read"
    /\ UNCHANGED <<fsVars, connected, race_event, exists, evEvent, evKind, cmdVars,
                   alive, histVars>>

\* Otherwise it reads the socket and holds the mutex until a packet is there.
RecvSocket ==
    /\ alive
    /\ evPc = "lock" /\ connected
    /\ race_event = <<>>
    /\ TakesMutex("ev")
    /\ evPc' = "read"
    /\ UNCHANGED <<fsVars, connected, race_event, exists, evEvent, evKind, cmdVars,
                   alive, histVars>>

\* Mutant: the mutex stays locked when an event has been read.
ReadEvent_KeepsMutex ==
    /\ alive /\ evPc = "read"
    /\ socket # <<>> /\ Head(socket) \in Event
    /\ last_ievent' = Head(socket) /\ evEvent' = Head(socket)
    /\ socket' = Tail(socket)
    /\ evPc' = "check"
    /\ UNCHANGED <<kindOf, pending, line, owner, connected, race_event, exists, evKind,
                   cmdVars, alive, histVars>>

ReadEvent ==
    /\ alive /\ evPc = "read"
    /\ socket # <<>> /\ Head(socket) \in Event
    /\ last_ievent' = Head(socket) /\ evEvent' = Head(socket)
    /\ socket' = Tail(socket)
    /\ owner' = Nobody
    /\ evPc' = "check"
    /\ UNCHANGED <<kindOf, pending, line, connected, race_event, exists, evKind,
                   cmdVars, alive, histVars>>

\* A reply becomes last_event, which nobody looks at; there is no last_ievent.
ReadOthersReply ==
    /\ alive /\ evPc = "read"
    /\ socket # <<>> /\ Head(socket) = Reply
    /\ socket' = Tail(socket)
    /\ owner' = Nobody
    /\ evEvent' = NoEvent
    /\ evPc' = "check"
    /\ taken' = taken + 1
    /\ UNCHANGED <<kindOf, pending, line, connected, race_event, last_ievent, exists,
                   evKind, cmdVars, alive, done, missed, shared>>

\* esl_recv_event fails on the socket, and releases the mutex first.
RecvFails ==
    /\ alive
    /\ evPc = "read" /\ EndOfFile
    /\ owner' = Nobody
    /\ evPc' = "failed"
    /\ UNCHANGED <<fsVars, connected, race_event, last_ievent, exists, evEvent, evKind,
                   cmdVars, alive, histVars>>

\* The loop ends: connected is cleared after a failure, or was found cleared.
LoopEnds ==
    /\ alive
    /\ evPc = "failed" \/ (evPc = "lock" /\ ~connected)
    /\ connected' = FALSE
    /\ evPc' = "disconnect"
    /\ UNCHANGED <<fsVars, owner, race_event, last_ievent, exists, evEvent, evKind, cmdVars,
                   alive, histVars>>

\* esl_disconnect closes the socket, which is at its end, and only then waits for the
\* mutex: a reader sees the end either way, and connected keeps senders out.  With the
\* mutex it frees race_event and clears the handle; then the thread ends, and nothing
\* connects again.
Disconnect ==
    /\ alive
    /\ evPc = "disconnect" /\ owner = Nobody
    /\ race_event' = <<>> /\ last_ievent' = NoEvent
    /\ exists' = FALSE
    /\ evPc' = "ended"
    /\ UNCHANGED <<fsVars, owner, connected, evEvent, evKind, cmdVars, alive, histVars>>

\* if (handle.last_ievent): a command of the acd thread may have destroyed it since
\* the mutex was released, and then the event is dropped.
Check ==
    /\ alive /\ evPc = "check"
    /\ evPc' = IF last_ievent = NoEvent THEN "lock" ELSE "headers"
    /\ IF evEvent # NoEvent /\ last_ievent = NoEvent
       THEN done' = evEvent /\ missed' = missed \cup {evEvent}
       ELSE UNCHANGED <<done, missed>>
    /\ UNCHANGED <<fsVars, handleVars, evEvent, evKind, cmdVars, alive, shared, taken>>

\* process_event reads the headers that decide what it does.
Headers ==
    /\ alive /\ evPc = "headers"
    /\ last_ievent = evEvent
    /\ evPc' = "body"
    /\ evKind' = kindOf[evEvent]
    /\ done' = evEvent
    /\ UNCHANGED <<fsVars, handleVars, evEvent, cmdVars, alive, missed, shared, taken>>

\* The event was destroyed in between: what is read is anything, or the end.
HeadersFreed ==
    /\ alive /\ evPc = "headers"
    /\ last_ievent # evEvent
    /\ \/ evKind' \in Kind /\ evPc' = "body" /\ UNCHANGED alive
       \/ alive' = FALSE /\ UNCHANGED <<evKind, evPc>>
    /\ done' = evEvent /\ missed' = missed \cup {evEvent}
    /\ UNCHANGED <<fsVars, handleVars, evEvent, cmdVars, shared, taken>>

BodyPlain ==
    /\ alive /\ evPc = "body" /\ evKind \in {"other", "agent"}
    /\ transfers' = IF evKind = "agent" THEN transfers + 1 ELSE transfers
    /\ evPc' = "lock"
    /\ UNCHANGED <<fsVars, handleVars, evEvent, evKind, cmd, left, alive, histVars>>

BodyCommands ==
    /\ alive /\ evPc = "body" /\ evKind \in {"menu", "originate"}
    /\ cmd' = [cmd EXCEPT !["ev"] = "send"]
    /\ left' = [left EXCEPT !["ev"] = IF evKind = "menu" THEN 2 ELSE 1]
    /\ evPc' = "commands"
    /\ UNCHANGED <<fsVars, handleVars, evEvent, evKind, transfers, alive, histVars>>

CommandsDone ==
    /\ alive /\ evPc = "commands" /\ cmd["ev"] = "none"
    /\ evPc' = "lock"
    /\ UNCHANGED <<fsVars, handleVars, evEvent, evKind, cmdVars, alive, histVars>>

\* insertCallInfoSql, a database access, comes before the last header is read.
BodyInsert ==
    /\ alive /\ evPc = "body" /\ evKind = "destroy"
    /\ evPc' = "duration"
    /\ UNCHANGED <<fsVars, handleVars, evEvent, evKind, cmdVars, alive, histVars>>

Duration ==
    /\ alive /\ evPc = "duration"
    /\ evPc' = "lock"
    /\ IF last_ievent = evEvent
       THEN UNCHANGED <<missed, alive>>
       ELSE missed' = missed \cup {evEvent} /\ alive' \in BOOLEAN
    /\ UNCHANGED <<fsVars, handleVars, evEvent, evKind, cmdVars, done, shared, taken>>

InboundInit ==
    \/ RecvRace \/ RecvSocket \/ ReadEvent \/ ReadOthersReply
    \/ RecvFails \/ LoopEnds \/ Disconnect
    \/ Check \/ Headers \/ HeadersFreed
    \/ BodyPlain \/ BodyCommands \/ CommandsDone \/ BodyInsert \/ Duration

----------------------------------------------------------------------------
(* Heatbeat_Process: api create_uuid every minute on a connection of its own *)

\* Without a reply last_sr_event is NULL, and the else branch dereferences it.
Heartbeat ==
    /\ alive
    /\ line = "down"
    /\ alive' = FALSE
    /\ UNCHANGED <<fsVars, handleVars, evVars, cmdVars, histVars>>

----------------------------------------------------------------------------
EvThread == InboundInit \/ Command("ev")
AcdThread == Transfer \/ Command("acd")

Next == FreeSwitch \/ EvThread \/ AcdThread \/ Heartbeat

Spec == Init /\ [][Next]_vars

\* The threads run, and FreeSWITCH answers commands.  Fairness is strong because a
\* thread that waits for a mutex that becomes free again and again gets it.
Fairness ==
    /\ SF_vars(EvThread) /\ SF_vars(AcdThread)
    /\ WF_vars(FsReply)

FairSpec == Spec /\ Fairness

----------------------------------------------------------------------------
(* Properties *)

\* Type correctness of the connection and its two threads.
TypeOK ==
    /\ kindOf \in Seq(Kind) /\ pending \in Nat /\ socket \in Seq(Packet)
    /\ line \in {"up", "cut", "down"}
    /\ owner \in Thread \cup {Nobody} /\ connected \in BOOLEAN /\ exists \in BOOLEAN
    /\ race_event \in Seq(Event) /\ last_ievent \in Event \cup {NoEvent}
    /\ evPc \in {"lock", "read", "check", "headers", "body", "commands", "duration",
                 "failed", "disconnect", "ended"}
    /\ evEvent \in Event \cup {NoEvent} /\ evKind \in AllKinds
    /\ transfers \in Nat
    /\ cmd \in [Thread -> {"none", "send", "reply", "window"}]
    /\ left \in [Thread -> 0..2]
    /\ alive \in BOOLEAN
    /\ done \in Event \cup {0} /\ missed \in SUBSET Event /\ shared \in BOOLEAN
    /\ taken \in Nat

\* The thread that reads the socket is the one that holds the mutex.
Reading(t) == cmd[t] = "reply" \/ (t = "ev" /\ evPc = "read")

\* Two threads never read the socket at once, so no packet is torn between them.
OneReader ==
    \A t \in Thread : Reading(t) <=> owner = t

Replies == Cardinality({i \in 1..Len(socket) : socket[i] = Reply})
Waiting == Cardinality({t \in Thread : cmd[t] \in {"reply", "window"}})

\* While the line is up, the threads that wait for a reply are as many as the
\* replies still to come and those the event thread threw away: a command can wait
\* for ever only after the event thread read a reply in a command's window.
RepliesAccounted ==
    line = "up" => Waiting = pending + Replies + taken

\* The detailed stream of events is one EventStream allows.
Stream == INSTANCE EventStream WITH sent <- Len(kindOf)
EventsInOrder == Stream!Spec

\* The event thread catches up with FreeSWITCH, unless a reply was thrown away or
\* the connection is lost.
EventsAreHandled ==
    (done < Len(kindOf))
    ~> (done = Len(kindOf) \/ taken > 0 \/ line # "up" \/ ~alive)

\* Unless a reply was thrown away, a command of the acd thread comes back, or the
\* event thread sits on the mutex of a silent line for good.
CommandReturns ==
    (cmd["acd"] # "none")
    ~> (cmd["acd"] = "none" \/ taken > 0 \/ ~alive
        \/ [](evPc = "read" /\ socket = <<>> /\ line = "up"))

=============================================================================

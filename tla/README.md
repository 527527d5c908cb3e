# NEWCC: a TLA+ model of a call centre server

NEWCC is the control server of a call centre. FreeSWITCH carries the calls;
this server decides who speaks to whom. Agents log in over a WebSocket, callers
go through a voice menu, wait in a queue and are bridged to a ready agent of the
company they called, and dialling tasks place calls at the pace of the ready
agents. All of it happens in one process with many threads, almost no locks, a
small sqlite table that survives a restart, and a MySQL database behind a
connection pool.

The modules here translate that program's control. TLC checks them on small
instances, and TLAPS proves all their invariants and the refinements of
`EventStream` and `AcdService` for all instances. `PROJECT.json` lists the runs, the source lines
behind every definition, the hazards and the findings.

## 1. Inventory

### Threads

| thread | started at | what it does |
|---|---|---|
| WebSocket (ws) | `WS_ApServer.cpp` | `on_callapclient`: login, logout, changestate, reset, dial, heartbeat, getusers, reload |
| event (ev) | `DNManager.cpp:375` `Inbound_Init` | `process_event` for every FreeSWITCH event, on the handle `inbound_handle` |
| heartbeat | `DNManager.cpp:381` | one command a minute on a connection of its own |
| listener | `DNManager.cpp:388` | `esl_listen_threaded` on port 8040: one `nwaycc_callback` thread per inbound call |
| ACD | `DNManager.cpp:394` `ACDqueue::run` | takes the oldest waiting call, waits for an agent, rings and bridges |
| reactor | `DNManager.cpp:397` | `CalloutManager::OnMsg`, the task server's messages |
| task (one each) | `CalloutManager.cpp:291` | `CallTask::run`, dials the rows of `outdial_task_tbl` |

### Components, their state and operations

| component | state | operations | what makes it correct |
|---|---|---|---|
| agent table (`ManagerDN`, `SqlitePersist`) | `m_DNmap`, `m_readyDNsema`, sqlite table `dnuser` | `Signin`, `Signout`, `SetDNstatus`, `ResetDNinfo`, `Changestate`, `LoadDNSet`, status changes of CHANNEL_ANSWER and CHANNEL_DESTROY | the table on disk names the agents in memory; a ready agent is known to whoever waits for one |
| dispatch (`ACDqueue`, `GetavailableAgent`, `inline_TransformAgent`) | priority queue of sessions, `m_DNChooseRule`, iterator into `m_DNmap` | get, scan, wait, ring, persist, bridge | a waiting call gets a ready agent; an agent gets one call; an agent who rings has a call |
| choice rules | `m_idelminiutes`, `m_callminiutes`, `m_calltimes` | four `GetAgent_*` scans, the counters' updates | a ready agent is returned, and the one the rule names |
| dialler (`CalloutManager`, `CallTask`) | `m_tasklist`, `m_calloutsema`, each task's rate and place | CreateTask, SetCallrate, Deletetask, count, originate, wait | an agent set free lets a blocked task go on; the list names existing tasks |
| menus (`Managerivr`) | `m_IVRnodetable`, `m_flowtable` | `Init`, `Reload`, `Getnodeinfo` | the tables say what was stored; a key leads to a node of the same company |
| menu calls | `m_ivrmap`, the ESL handles | `nwaycc_callback`, CHANNEL_ANSWER of a task's call, DTMF, `TransformAgent` | a handle is deleted once; a call is queued once |
| MySQL pool (`DBPool`, `db_operator_t`) | `connList`, `curSize` | `GetConnection`, `ReleaseConnection` | a connection has one user; the count is right after failures |
| ESL connection (`Inbound_Init`, `esl.c`, `Heatbeat_Process`) | one `esl_handle_t`: socket, mutex, `race_event`, `last_ievent` | `esl_recv_event`, `esl_send_recv`, `esl_disconnect`, the heartbeat | events arrive in order, once; a command gets its reply |
| call records (`callInfoMap`, `m_gRoute`) | one record per call an agent makes, the route table | ORIGINATE, ANSWER, HANGUP, HANGUP_COMPLETE, DESTROY, `reloaddb` | a finished call is written once, with what happened to it |
| WebSocket server (`WSapserver`) | connections | `on_message`, `on_callapclient`, `on_close` | a desk knows what its requests did |
| `FreeswitchXmlCtl`, ini files, `codeHelper`, vendored libraries | files | | not modelled: I/O and third-party code |

### How they interact

`m_DNmap` is the shared state. ws, ev and acd change it, the tasks read it, and
no lock protects it. Two counting semaphores carry the news that an agent is
ready: `m_readyDNsema` to the ACD thread and `m_calloutsema` to the tasks.
`nwaycc_callback` and the event thread share `m_ivrmap` and hand sessions to the
ACD thread through the queue, together with a pointer to the ESL handle; for calls
that came from an event this is the event thread's own handle, which then has two
users. The event thread reads the route table that the ws thread reloads. The
database is used by all of them through the pool.

### What is hard

- Interleavings on `m_DNmap`: the ACD thread keeps an iterator while the ws
  thread erases; it looks the chosen agent up again with `operator[]`, which makes
  an entry when there is none.
- Signals that come before the state they announce (`Signin` signals, then
  inserts), that do not come at all (login again, reset), or that somebody else
  takes (`m_calloutsema`).
- A status update that is a deletion and an insertion in sqlite, from two
  threads, with crashes in between, and calls in FreeSWITCH that outlive the
  server.
- Handles with two owners, and sessions that keep a pointer after the deletion.
- Failures nobody looks at: the result of a bridge, a NULL connection, a
  statement that throws, a reload that stops half way.
- One connection for events and for commands of two threads, with a mutex that is
  released in the middle of a command.
- Replies without a number, on connections that come and go.

## 2. Modules

| module | models | checked in |
|---|---|---|
| `AcdService` | abstract: what becomes of calls | as a property of `served` |
| `AgentDispatch` | agent table, dispatch, persistence, restart | `agents`, `served` |
| `AgentDispatchProofs` | theorems about `AgentDispatch` | TLAPS |
| `AgentChoice` | the four rules and their counters | `choice`, `choice_*` |
| `AgentChoiceProofs` | theorems about `AgentChoice` | TLAPS |
| `CallTask` | dialler | `callout` |
| `CallTaskProofs` | theorems about `CallTask` | TLAPS |
| `DbPool` | connection pool | `pool` |
| `DbPoolProofs` | theorems about `DbPool` | TLAPS |
| `IvrFlow` | operators: building and reading the menu tables | by the next two |
| `IvrTables` | stored rows, reload, a caller's keys | `menus` |
| `IvrCalls` | menu calls, sessions and handles | `handles` |
| `IvrProofs` | theorems about `IvrTables` and `IvrCalls`, and what `Initivrflow` builds | TLAPS |
| `EventStream` | abstract: what `process_event` may rely on | as a property of `esl` |
| `EslHandle` | the handle, the event and the ACD thread on it, the heartbeat | `esl` |
| `EslHandleProofs` | theorems about `EslHandle`, the refinement among them | TLAPS |
| `CallRecords` | records of agents' own calls, reload of the routes | `records` |
| `CallRecordsProofs` | theorems about `CallRecords` | TLAPS |
| `WsSession` | requests, replies, lost connections, crashes | `ws` |
| `WsSessionProofs` | theorems about `WsSession` | TLAPS |
| `MC*` | constants of the runs | |

### AcdService, AgentDispatch

`AcdService` leaves the agents out: a call waits, is taken when no other is and none that waits
began before it, and is then connected or lost, once. Only a crash empties the queue out of
turn. `AgentDispatch` maps the states of its calls to the four sets of `AcdService`. The order is
that of `ivrsession`'s `operator<`, which compares the seconds at which the calls began, not at
which they were queued. For equal seconds it holds both ways, so that either call may be on top.
The code never gives `m_customtype` a second value, so its comparison is left out.

`AgentDispatch` has one process counter per thread (`wsPc`, `evPc`, `acdPc`); an action is what a
thread does between two accesses to shared state that another thread can get in
between. A login is `SigninNew` (signal), `SigninInsert` (entry), `SigninRow`
(row), because that is the order of `Signin`. `SetDNstatus` is assignment,
signal, deletion, insertion. A sign-out deletes the row and then the entry. The
ACD thread's scan takes one entry per step. `TransformRing`, `TransformDelete` and
`TransformInsert` are the two lookups and the two statements of
`inline_TransformAgent`; `BridgeOk` and `BridgeFails` end it, and the result is not
looked at.

Undefined behaviour is a choice. An entry erased under the iterator may test
either way, and the iterator may go to any later entry or to the end. An entry
made by `operator[]` (a *ghost*) has no name, any company and, at the second
lookup, any status. That the process dies of such an access instead is covered
by `Restart`, which can follow any step while its bound lasts.

FreeSWITCH is external: legs ring, are answered and end, somebody may dial an
agent past the ACD, callers hang up. Events of a leg arrive in order, and any of them
may be missed (`MissEvent`): `EslHandle` shows that a command of the ACD thread can drop
one, and after `Inbound_Init` has returned the server goes on without any. Those emitted
while the server is down are lost, too. An agent whose leg's end was missed stays ringing or
talking; `RingingHasCause` names it (`unheard`) beside the agent whose bridge failed.

Simplifications:

- `userId` is both the agent id and the DN, as `on_callapclient` passes it, and a
  login asks for the status ready.
- A row does not hold the status: `LoadDNSet` overwrites it with ready.
- Requests that only read (getusers, `GetWaitingDN`) are not actions here.
- sqlite statements do not fail. One map operation does not interleave with
  another one, except as said above.
- Which of several matches a rule prefers is open: any of them, or none. That is
  `AgentChoice`'s subject, and every rule's behaviour is among the choices.
- The route table and the rules are constants.

History variables record who last wrote a status (`writer`), which agents signed
out under the ACD thread's hands (`crossed`), during which calls somebody else made the agent
ready or the entry went (`forced`), which agents a leg of whom ended unheard since they
were rung (`unheard`), and whether a scan stepped off an erased entry (`skipped`). They
appear in no guard. `forced` is a set of calls, so that a disturbed call excuses no later
one: of two calls the ACD thread connected to one agent, one was itself disturbed.

### AgentChoice

The four scans are recursive functions over the map in key order with the code's own
limits and comparisons, so the start values (0, 999999) and the assignment of the *login
time* to the limit after a match are there. A rule with a stored value the `switch` does not know (`"other"`)
returns nobody. `ChannelDestroy` and `CountLeg` are the two halves of CHANNEL_DESTROY: the
agent is ready before its counters are updated, and if it signs out in between the update
goes to freed memory (lost, or into the next login's entry at that address).

Every leg has a start of its own, and its end adds its own duration. A DN can have several
legs up: one the ACD placed and one it did not (`DirectCall`), or two offers after a login or a
reset made the agent ready during a call. Then the same seconds count twice; so do the parts of
a leg before a login, and a leg whose event is missed (`MissEvent`) does not count at all. The
history `inexact` holds the DNs with such an entry until the next login or logout;
`IdleIsTimeOffCalls` and the idle rule's part of `ReadyAgentReturned` are about the others.

`LoadDNSet` and the entry that `operator[]` makes (`DispatchGone`) leave all three counters at
any value of `Garbage`. One company is enough, as the scans skip the others. The entry under
the empty key, which a scan may also return, is in `AgentDispatch` only. A leg's end and
the processing of its event fall into the same second.

### CallTask

The reactor serves one message per step. `Deletetask` runs first in every
message; `Visits` says which places of the list it looks at, since
`erase(ite++)` skips the task after an erased one. When the last task is erased
and others remain, the iterator is past `end()`: the model ends the process
there (`process = "crashed"`). A task's thread counts the agents one entry per
step, dials while its number lasts, then waits. The first count is not
multiplied by the rate; every task dials all rows. Commands for
`FreeswitchXmlCtl` are `OtherMessage`. An address may be reused after a deletion.

### DbPool

`GetConnection` and `ReleaseConnection` are atomic under the static mutex. `GetIdle`,
`GetRecreated`, `GetLost`, `GetNew` and `GetNull` are the paths of `GetConnection`.
All ten functions of `db_operator_t` use the pool in one pattern: get, run statements in
a `try`, delete result and statement, give back. A NULL connection is dereferenced by every caller, which ends the process as
"refused"; deleting pointers that a throwing statement left unassigned may end it
as "crashed". `DestoryConnPool` is left out: the one instance is never deleted.

### IvrFlow, IvrTables, IvrCalls

`Initivrflow` maps the rows, in the order the query returns them, to the tables:
each run of rows of one company starts a table with the virtual node 9999 and
replaces what an earlier run of that company has made. `LoadRow` is what one row
does. The inner loop reads one row past the vector; the model takes the outcome in which that memory names
another company. `user_word` is a function from keys to node ids.
`IvrTables` stores and deletes rows in any order, reloads, and moves a caller by
keys; the reload is one step.

`IvrCalls` runs all threads that touch a session. An inbound call allocates its
handle, inserts the session, sets the current node, then queues the session
or plays the recording and deletes the handle; the event thread serves keys at
any time; the ACD thread deletes the handle its copy of the session names. No entry of
`m_ivrmap` is ever erased. After a handle was deleted twice the model goes on, which
only adds behaviours.

The module shows one definite defect. An inbound call that has heard its
recording has had its handle deleted, and the session keeps the pointer; when the
caller then presses the key for an agent, the ACD thread deletes the handle a
second time. `HandleFaultNeedsKey` says that this is the only way, and that
calls without a key are safe.

`QueuedOnce` excepts a company whose table has a row that gives the call to the
agents (`recordfile` is `IVR_AGNET_MSG`) and has keys of its own: the caller who waits
can press them, and each press that leads to an agent node queues the call again.
Company 4 of the run is one. The proof needed this exception; no row of the first
instance had shown it.

### EventStream, EslHandle

`EventStream` numbers the events and lets one thread dispose of them in that order.
An event may be missed only after somebody else has used the connection.

`EslHandle` is the code that has to deliver this: `esl_recv_event` and
`esl_send_recv_timed` of `esl.c`, the loop of `Inbound_Init`, and the commands that
`process_event` and the ACD thread send on the same handle. The socket is a sequence
of packets, an event or a reply. A step lies between two points at which the mutex is
taken, released, or `last_ievent` is looked at. Three things in it are worth knowing:

- a command that reads an event puts it on `race_event` and *releases the mutex* before
  it reads on (`esl.c:1582`). In this window the event thread can read the reply and
  throw it away (`taken`); the command then waits for ever;
- every `esl_recv_event`, also the one inside a command, destroys `last_ievent`, which
  `process_event` may be reading: the event is dropped at the test in `Inbound_Init`
  (`Check`) or read from freed memory (`HeadersFreed`, `Duration`);
- the handle is a local variable of `Inbound_Init`, which returns when the line is lost
  and never connects again. Commands of the ACD thread then use a dangling pointer
  (`DanglingCommand`), or `send()` raises SIGPIPE before anybody noticed (`SendKills`).

A receive that fails releases the mutex and only then clears `connected`: two steps
(`RecvFails`, `LoopEnds`), between which a command can begin. `esl_disconnect` closes the
socket before it waits for the mutex; here this is one step, since the socket is at its end
by then, so that a reader sees the same before and after, and `connected` keeps senders out.

A reply that comes is always one FreeSWITCH sent for a command; its contents are not
modelled, since no caller looks at them. The heartbeat's connection is separate; of it
only the end matters: without a reply the `else` branch dereferences NULL.

### CallRecords

The five events of a call that an agent makes, in FreeSWITCH's order, as `process_event`
handles them; each can be missed (`EventStream`), and all are missed while the server is
down. `loaddb` at the start and `reloaddb` read the route table with the same query and look
at its result equally little: in both the query can fail half-way and leave the rows read so
far (`Loaded`, `ReloadFails`; `cut` says that it did, and `asRead` is the table stored then). ORIGINATE is three steps, because it walks over `m_gRoute` twice and indexes it
once while `reloaddb` on the ws thread clears the vector and fills it again. DESTROY
copies and erases the record before the insert, which can succeed, fail without anybody
noticing, or end the process.

- `N_callstate = 1` stores the *character* with code 1, not the text; an answered call
  has the text "1". The record tells the two apart, as the model does.
- The gateway is `m_gRoute[N_company_id]`: a company id used as the index of a row. It
  is right exactly for tables whose row *i* is that of company *i*, which
  `GatewayOfCompany` states. The run has such a table and one that is not.

### WsSession

All messages are handled by one thread, each to its end, so that one action is one
request with all its replies. A connection can be lost at any time, with requests and
replies under way, and `on_close` does nothing. `belief` is what a desk concludes from
its replies. Particular to the code: `dial` has no `break` and is answered twice;
`ret` is not assigned there and in `heartbeat`, and `ResetDNinfo` has no `return` (result
"any"); names without a case get no reply; the label of a getusers group is read one
past the end of the list; the payload `stop-listening` closes the server to new desks.
The agent table is reduced to what a desk can see; `AgentDispatch` has it in full. What a
desk can see is more than logins and logouts:

- `Signin` and `ResetDNinfo` look for the *key* in `m_DNmap`, `Signout` and `SetDNstatus` for the
  *name* in the entries (`GetDNbyagentid`). For an entry without a name (a *ghost*, made by
  `operator[]` after a logout, `GhostEntry`) these differ: a login answers "has signed in" and
  nobody is. The empty string, as key, agent id or DN, is `Nobody`.
- A row does not hold the department, so that an entry that comes from a row, like a ghost, has
  any value of `Unset` there until a reset.
- The table `dnuser` outlives the server. `RewriteBegins` and `RewriteEnds` are the two
  statements of a `Changestate` that another thread makes for a call; in between the row is
  missing, and it is inserted even when its agent has logged out (`crossed`, a history).
- `Restart` follows any step. `HalfDone` are the tables of a crash in the middle of a request:
  the row of a login is in, or that of a logout or a changestate is gone, and there is no
  reply. All connections go with the server, and `m_DNmap` is what the rows say.

`disturbed`, a history, collects the desks for which one of the three things happened that
`BeliefTrue` excepts: another desk of the user logged it in or out; a login found a ghost; at a
crash the row of the user was being rewritten for a call, had been inserted across a logout, or
was changed by the half of a request. The next login or logout of a desk ends its
disturbance, unless the login finds a ghost.

## 3. Runs

| run | instance | shows |
|---|---|---|
| `agents` | 1 routed and 1 unrouted agent, 2 calls, 2 requests, 1 crash, comparing rule | `TypeOK`, `RingingHasCause` (events can be missed), `OneOfferPerAgent`, `GhostOnlyFromSignout`, `PersistedIffRegistered`; `NoLostWakeup`: the ACD thread sleeps on a ready agent only through the named paths (login again, reset, login whose signal was spent before the entry was there, uninitialised memory, erased entry under the iterator) |
| `served` | 1 agent, 2 companies (unknown rule, no rule), 2 calls that began one after the other, fairness | `HeldCallIsServed`, `CallsServedInOrder` (refinement of `AcdService`) |
| `choice` | 2 agents, 2 seconds, 2 legs, uninitialised counters | `IdleIsTimeOffCalls`, `ReadyAgentReturned`, `IdleRulePicksLongest` |
| `choice_longest_idle` | 2 agents, no uninitialised counters | violated: `LongestIdleChosen` |
| `choice_least_talk` | same | violated: `LeastTalkChosen` |
| `callout` | 2 agents of 2 companies, 2 tasks, 3 messages, 1 hang-up, fairness | `HangupReachesTask`, `HangupWakesTask`, `ListedTasksExist`, `CrashNeedsTwoTasks` |
| `pool` | 3 threads, 3 places, 4 addresses | `NoSharedConnection`, `ConnectionsCounted`, `RefusalNeedsOutage` |
| `menus` | 6 possible rows, up to 3 stored, in all orders | `LoadedAsStored`, `KeysStayInMenu`, `ZeroReachesAgent` |
| `handles` | 4 inbound and 2 task calls of 4 companies and all kinds of start node, 3 keys | `HandleReleased`, `HandleFaultNeedsKey`, `QueuedOnce` |
| `esl` | 3 events of 4 kinds, line cut or down, fairness | `TypeOK`, `OneReader`, `RepliesAccounted`, `EventsInOrder` (refinement of `EventStream`), `EventsAreHandled`, `CommandReturns` |
| `records` | 1 call, an agent in 2 companies, 2 route tables, 2 reloads, 2 missed events, 1 restart, fairness | `RecordKept`, `RecordTrue`, `RecordOfOneRow`, `GatewayOfCompany`, `TableComplete`, `RecordLeaves` |
| `ws` | 2 desks of one user, 2 departments, 2 requests, 1 lost connection, 1 crash | `RepliesInStep`, `BeliefTrue`, `UsersGrouped` |

Each property has a mutant in `PROJECT.json`: a definition `X_Y` beside `X` that
changes it as a plausible slip would, and that the property detects. `TypeOK` is
listed where it says more than the declarations do or a proof uses it; in the other
modules it documents the variables.

What three of the runs show:

- `esl`: events reach `process_event` in order, and none is lost *until the ACD thread
  has used the handle*; from then on any of them can be. `RepliesAccounted` finds the
  only way in which a command can wait for ever: the event thread threw its reply away.
  `CommandReturns` has a second exception: an event thread that got the mutex keeps it
  while the line is silent, so a command waits for the next event. When FreeSWITCH goes down
  the heartbeat ends the server; when only this connection is cut, it stays as a deaf
  process, and no property says otherwise.
- `records`: a call that has a record gets exactly one row, unless the process died or the
  insert failed; state and duration in it are right unless the event that carries them
  was missed; company and number come from one row of the route table unless a reload
  came in between or the table was read half, at the start or in a reload.
- `ws`: a desk that counts replies is in step as long as it does not dial; a desk that
  repeats a login or logout after a lost connection or a crash is right about its state,
  with the three exceptions of section 2.

### Findings

- *Longest idle* (`DNManager.cpp:811`): the scan starts from 0 and compares with
  `<`. While every ready agent has been idle for less than a second, nobody is
  returned although agents were found, and the call is bridged to no one.
- *Shortest talk time* (`DNManager.cpp:864`) and *fewest calls* (`:894`): after a match the
  limit becomes the login's time of day. The last ready agent in key order is
  returned, whatever its counters are. One run shows it, for the talk time; the
  other rule differs in the counter only.

### Bounds and why they are enough

The invariants of section 4 are proved for all instances, so that for them the runs only
show that the interesting cases happen, and the mutants that the properties see them. The bounds
matter for the liveness properties.

- In `agents` one routed agent suffices: the properties are about one agent, one scan
  and two calls. The unrouted DN 3 can be dialled and cannot sign in.
- Two calls are needed for two offers and for a queue with a second company behind
  the first. Requests bound the behaviours' length: a login and a conflicting
  request.
- `served` gives its two calls different times, so that the order of the queue matters, and has no
  crash; that a crash does to the queue what `AcdService` allows is part of `ServiceRefined`.
- One crash at every point of every update; a second would start from a table the
  first one can leave.
- `choice`: two seconds and two legs distinguish "idle longest", "talked least"
  and "last in the map", and let two legs of one DN overlap by a second. Epoch 1000 stands for a time of day: larger than any talk
  time. Garbage lies on both sides of the limit 999999.
- `callout`: a signal can be taken by another task as soon as there are two, and the walk
  that erases the last of two tasks leaves the list.
- `esl`: one event starts a command, one is read by it, one comes after; four kinds
  cover every branch with an ESL call. With a fourth event the event thread itself can be
  the one whose reply is thrown away: it then waits in its own command.
- `records`: calls are kept by uuid and events are handled one at a time, so that one call
  meets everything a second one could do to it, except the length of the stream. One of
  the two tables has a row per company in order, the other has not.
- `ws`: two desks of one user are the least that can disturb each other; one request may
  be lost, with its connection or with the server, and repeated. Two requests are a login and a
  logout of the same or of the other desk. With the entry of the empty key the map holds up to two
  entries, in one department or in two: 10 is in `t_user_tbl`, 20 is what an entry holds whose
  department was never set (`Unset`).
- `pool`: as many threads as places, one address more, so that an address is reused
  or not. `menus`: three rows are the least that can separate two rows of one
  company.
- Deadlock is not checked where the system may come to rest: the bounds on requests,
  messages or calls are used up, or the process has died. `menus` never rests.

### Fairness

Threads run under a preemptive scheduler; what callers, agents, desks and the
administrator do is never fair.

`served` assumes weak fairness of each thread of the server: the ws thread finishes
a request it has begun, the ACD and the event thread go on when they can, and
`LoadDNSet` finishes. That the event thread goes on includes that it misses an event; whether
it does is not fair. These are threads under a preemptive scheduler, and a blocked
`wait()` is a disabled action. Requests, callers, legs and crashes are not fair.
`callout` assumes the same of the event thread between the status and the signal, and
of each task's thread by itself. A `sem_wait` with competitors needs more than weak
fairness to be granted; `HangupWakesTask` therefore excepts the task whose signal
another one takes, which is what the code does.

`esl` assumes strong fairness of the two threads: a pthread mutex that becomes free again
and again is obtained at last by whoever waits for it. Without it a command could be
passed over for ever by a busy event thread. FreeSWITCH answers commands while the
line is up. `records` assumes weak fairness of the event
thread, and that FreeSWITCH ends every call it has begun.

## 4. Theorems

Every theorem is about `Spec` without fairness and about all values of the constants
that satisfy the assumptions the modules name. These say that constants have their
types, that null values are apart from the others (`NoUserAssumption`,
`AbsentAssumption`, `Null \notin Conn`), that sets which the code holds in memory are
finite, and that bounds are numbers. No theorem depends on how large a bound is.

An invariant of a run is seldom inductive. Each proof module begins with the
strengthening that is, and has one lemma per action or thread that shows it is kept.

| module | theorem | property |
|---|---|---|
| `AgentDispatchProofs` | `TypeCorrect` | `TypeOK` |
| | `WakeupsAreKept` | `NoLostWakeup` |
| | `GhostsComeFromSignouts` | `GhostOnlyFromSignout` |
| | `RowsAreKept` | `PersistedIffRegistered` |
| | `RingingAgentsHaveCalls` | `RingingHasCause` |
| | `OffersAreExclusive` | `OneOfferPerAgent` |
| | `ServiceRefined` | `CallsServedInOrder`, the refinement of `AcdService` |
| | `RestartsForgetNobody` | action property `RestartForgetsNobody`, in no run |
| `AgentChoiceProofs` | `IdleTimeIsExact` | `IdleIsTimeOffCalls` |
| | `ReadyAgentsAreFound` | `ReadyAgentReturned` |
| | `LongestIdleIsPicked` | `IdleRulePicksLongest` |
| `CallTaskProofs` | `HangupsAreKept` | `HangupReachesTask` |
| | `ListMatchesTasks` | `ListedTasksExist` |
| | `OneTaskSurvives` | `CrashNeedsTwoTasks` |
| `DbPoolProofs` | `PoolTypes` | `TypeOK`, in no run |
| | `ConnectionsAreUnshared` | `NoSharedConnection` |
| | `CountIsExact` | `ConnectionsCounted` |
| | `OnlyOutagesRefuse` | `RefusalNeedsOutage` |
| `IvrProofs` | `TableBuilt` | what `Initivrflow` makes of any rows |
| | `TablesHoldWhatWasStored` | `LoadedAsStored` |
| | `KeysDoNotLeaveTheMenu` | `KeysStayInMenu` |
| | `ZeroLeadsToAnAgent` | `ZeroReachesAgent` |
| | `HandlesAreReleased` | `HandleReleased` |
| | `FaultsNeedKeys` | `HandleFaultNeedsKey` |
| | `CallsQueueOnce` | `QueuedOnce` |
| `EslHandleProofs` | `ReadsAlone` | `OneReader` |
| | `StreamRefined` | `EventsInOrder`, the refinement of `EventStream` |
| | `ConnectionTypes` | `TypeOK` |
| | `RepliesBalance` | `RepliesAccounted` |
| `CallRecordsProofs` | `RecordsAreKept` | `RecordKept` |
| | `RecordsAreTrue` | `RecordTrue` |
| | `RecordsOfOneRow` | `RecordOfOneRow` |
| | `CallsLeaveByOwnGateway` | `GatewayOfCompany` |
| | `TableIsComplete` | `TableComplete` |
| `WsSessionProofs` | `RepliesStayInStep` | `RepliesInStep` |
| | `BeliefsAreTrue` | `BeliefTrue` |
| | `UsersStayGrouped` | `UsersGrouped` |
| | `TypesHold` | `TypeOK`, in no run |

### The inductive invariants

`AgentDispatch`. `TypeOK` is inductive. It includes the fact that makes the ws thread's
use of a reference across steps sound: between the assignment and the insertion of
`SetDNstatus` the entry is still there, because only this thread erases.

- `NoLostWakeup` speaks of the sleeping thread only. `WakeupInv` extends it to the scan:
  every announced agent whose key the iterator has passed is remembered in `acdSeen`, or
  the semaphore is positive, or its writer still owes the signal (`SignalDue`). The
  writer's signal is accounted per agent, so that the step from "owed" to "given" keeps
  the invariant, and a wait that takes the last signal starts the scan over, when no key
  has been passed.
- `HeldInv`: an entry that the ACD thread's iterator or choice refers to is there and stays
  there, or its agent counts as crossed. Hence `operator[]` makes ghosts of crossed agents
  only.
- `PersistInv`: what each thread knows between the halves of an update (`UpdateInv`), and per
  agent that row and entry agree, where a sign-out has already deleted the row before it
  erases the entry. It speaks of `dnuser \ loading`, the rows `LoadDNSet` has read, so that
  it also holds during a restart.
- `RingInv`: a call has no leg before it is bridged, so that a bridge takes no other agent's
  call away; a leg that has ended and has an event left has CHANNEL_DESTROY as its last
  (`EventsInv`), so that events come to an end with the one that sets the agent free or counts as
  unheard; and while `LoadDNSet` runs nobody rings.
- `OfferInv`: an agent who is ready, seen by the scan or chosen has no undisturbed call from the
  ACD thread (`Undisturbed`, `Free`), and one that the thread connects is no longer ready unless
  that very call was disturbed.
- `ServiceInv`: the queue holds the calls whose state is "queued", and the thread's local variable
  the one call whose state is "held", or none. With it `ServiceStep` maps `Get`, `BridgeOk`,
  `BridgeFails`, `TransformAgent`, `DirectCall` and `Restart` to the steps of `AcdService`, and every
  other action to a stutter.
- `RestartForgetsNobody` says of the step what `PersistedIffRegistered` says of the state: outside an
  update, what `LoadDNSet` will read is who was signed in.

`AgentChoice`. The properties say what the scans return and what the counters mean.

- The scans: `IdlePass`, `RobinPass`, `TalkPass` and `CallsPass` unfold a scan into its
  steps; `ScanReturns`, by induction over the entries, says that a scan which changes its
  result only to the ready entry it looks at returns a ready agent or none.
- The counters: `ChoiceInv` accounts for every second of an entry's life. The time since the
  login is the time without a leg, plus the talk time counted, plus the seconds
  CHANNEL_DESTROY has still to write, plus those of the leg that is up (`IdleInv`). Legs of one DN
  may overlap in the code, and then the sum is wrong; `IdleInv` is about the entries that are
  not `inexact`, of which it shows that at most one leg is up. How large the talk time can get
  is not bounded by the clock, so that `ReadyAgentReturned` has the limit 999999 of the
  counting scans as a hypothesis about the counters themselves.

`CallTask`. `TaskInv` is the type invariant and the three properties together. What is hard is
the list that `Deletetask` leaves, `KeptUpTo`, a recursive function: `KeptEquation` shows
that the function exists, `KeptFacts` that it holds the places not erased, in order.

`DbPool`. `PoolInv` adds that `InitConnection`'s loop leaves room for the connections it still
makes, and that a server which is down has been down.

`IvrTables` and `IvrCalls`. `TableBuilt` says what `Initivrflow` makes of any sequence of rows. The table
of a company has the virtual node, unless a stored node has its number, and every node is under its
own id and its own company (`TableSound`). When the rows of a company follow each other (`Together`),
its table has exactly the nodes stored, and of several rows with one id the last (`TableStored`).
The induction is over the rows; `RowLoads` is its step, in three parts: a row goes on with the run
before it (`RowJoins`), starts a new table (`NewTableFacts`), and leaves the tables of other
companies alone (`RowAside`).

- `MenuInv`: the tables in memory are those of the rows read at the last reload, so that
  `TableBuilt` applies to them (`MenuTables`). The three properties follow.
- The properties of `IvrCalls` are per call, and so is `CallInv`: `Owned` (the handle of a call whose
  thread has ended is deleted, or a waiting session will delete it), `Unkeyed` (without a key the
  call is queued by its own thread only, as its last step, with a handle nobody has deleted) and
  `Once` (a session that waits has reached a node from which no key leads on). Each action has a
  part for its call and a frame for the others. What they need of the tables is `TableFacts`, a
  corollary of `TableBuilt`.

`EslHandle`.

- `OneReader` needs `MutexInv`: the event thread has a command under way only inside
  `process_event`, so that it does not hold the mutex twice over.
- The refinement maps `sent` to the length of `kindOf`. A step that disposes of an event must
  find the *next* one in hand. `StreamInv` therefore says where every other one is:
  `NoneLost` (in hand, on `race_event` or on the socket, as long as the thread lives),
  `InOrder` (each queue is ascending, and everything in hand is older than what was put aside,
  which is older than what is on the socket), `Progress` (nothing is put aside while the event
  thread reads the socket, since it holds the mutex), and `Intact` (an event is destroyed only
  by the other thread, which has then used the handle).
- `TypeOK` holds because `left` counts down from what `Returns` allows (`LeftInv`).
- `RepliesAccounted` is inductive together with `LineServed`: while the line is up the handle
  exists and is connected, so that no reply is dropped with it. The lemmas count the replies
  of a sequence through append and tail.

`CallRecords`. `RecordInv` follows a call through its life: which of its events are sent, coming
and missed (`EventsAccounted`, `StreamOrdered`) decides where its record is (`Mapped`,
`BeingSetUp`, `BeingWritten`, `Stored`), what it says (`Agrees`), and that it is in one of
the three places (`NotGone`). `RouteInv` says that the rows pushed and those still to push
are the table that was stored when the query began, which makes `TableComplete` inductive
(the table in memory *is* that table when no query is under way and the last one, `loaddb`'s
included, came to its end), and that a call in hand which nothing blurred was set up
with the table that is there.

`WsSession`. `RepliesInStep` is inductive with the types of the queues. For `BeliefTrue`,
`WillKnow` says that the last decisive reply on its way to a desk tells the truth, and that when
there is none the desk knows it, or knows that it does not. A crash replaces the map by the
table, so that this needs `RowsInv`: the row of a user that no call is rewriting is there just
when the user is signed in, or when it was inserted across a logout. `UsersGrouped` follows from
the types of the server (`ServerTypes`: `m_DNmap` is finite and has one entry for a key) and three lemmas about the
loops of getusers: `OrderFacts` (walking over a finite set of numbers visits each once, in
ascending order: the rank of a number is an injection of the set into its own size, hence onto it),
`ListFacts` (`GetUserInfolist` returns each agent asked for once) and `GroupFacts` (the inner loop
splits any list by department).

`StreamInv`, `IvrInv` and `ChoiceInv` were checked by TLC before they were proved.

### What the proofs changed

- `QueuedOnce` was false for tables with keys at an agent node (section 2, `IvrCalls`).
- `RowPerCompany`, the condition of `GatewayOfCompany`, held of the empty table, where no index
  is in range; it now requires a row.
- `UsersGrouped` allowed two groups of one department; it now requires different ones, and each
  agent at one place.
- The walks over sets and maps of `WsSession` are one operator, `InOrder`, about which something can
  be proved, instead of folds of the library.
- `RingingHasCause` has the exception of the unheard leg, and `OneOfferPerAgent` is about calls
  that were disturbed, not about agents who once were: the induction is per call.
- The talk time is not bounded by the time the server has run, since legs overlap: a lemma that
  said so is gone, and the hypothesis of `ReadyAgentReturned` is about the counter.
- `BeliefTrue` survives a crash only with `RowsInv`, and names what breaks `RowsInv`.
- `Absent`, "none" and the calls are assumed to be different values, as they are in the code
  (no map entry, no session).

### Induction, and what stays model-checked

The library's induction theorems need an operator as a parameter and cannot be used. Induction
over *sets of numbers* needs none: `SetInduction` and `NatSets` derive it from the least element
of a set (`WFMin`). With it `KeptEquation`, `PassExists` and `TableEquation` show that a recursive
function satisfies its equation, and the lemmas after them what it computes. These definitions
are therefore written as recursive functions, not as folds.

Only model-checked are the liveness properties (`HeldCallIsServed`, `HangupWakesTask`,
`EventsAreHandled`, `CommandReturns`, `RecordLeaves`): fairness and `ENABLED` are out
of the prover's reach. `TypeOK` of `AgentChoice`, `CallTask` and `CallRecords` is part of their inductive invariants
and has no theorem of its own. The two violated properties are findings, and have none.

## 5. Not modelled

- Vendored code: websocketpp, jsoncpp, sqlite3, the MySQL connector's headers, SEABASE. It
  is nearly all of the repository's 89 000 lines, none of it carries the program's
  logic, and its behaviour appears in the modules as the program uses it. The part of
  `esl.c` through which two threads share a handle is modelled; the rest of it (parsing,
  listening, threads) is not. The map therefore covers a small share of all lines and
  more than half of the program's own.
- The reload of the menu tables under pointers into them (`IVRmanager.cpp:19`), and the
  read past the vector in `Initivrflow` (`IVRmanager.cpp:38`): any outcome of these reads
  is possible, and no property could hold.
- That the heartbeat ends the server when FreeSWITCH is down: `EslHandle` has the step, but a
  property would restate it. That the deletion of an unassigned pointer in `db_operator_t`
  harms the process: `DbPool` takes both outcomes. The two replies to `dial`: `RepliesInStep` is
  about the other requests. The label of a getusers group: it is not in the model.
- The reload of the rule table: rules are constants of `AgentDispatch`, and a call keeps the
  rule it was given when its scan began.
- A blocked task is not woken by a login or a new rate (`CalloutManager.cpp:26`): this is what
  the code does, and nothing promises more.
- `DBOperator.cpp:453` reads the rows of all tasks for each task; `CalloutManager.cpp:378`
  deletes a task whose thread is leaving `run()`: the first is a query without state, the
  second depends on a binary library.
- `FreeswitchXmlCtl`, ini files, `main`: sequential I/O.
- `find_available_agent`, `CallOut_Task_Process`, `inirw`, `codeHelper`, speech: not
  called, or without state.

## 6. Plan

Done, in this order: `AgentDispatch` with its two theorems, `AgentChoice`, `DbPool`,
`CallTask`, `IvrFlow` with `IvrTables`, `IvrCalls`, `EslHandle` with `EventStream` and
the proof of the refinement, `CallRecords`, `WsSession`.

The theorems of section 4 followed, one component after the other.

The plan is carried out: every invariant and both refinements are proved. What could be added is
listed in section 5. A liveness theorem would need a prover for fairness.

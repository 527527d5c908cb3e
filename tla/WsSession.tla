----------------------------- MODULE WsSession -----------------------------
(***************************************************************************)
(* WSapserver: the requests agents' desks send over their WebSocket        *)
(* connections and the replies they get.  One thread handles all messages, *)
(* each to its end; a connection can be lost at any moment, with requests  *)
(* or replies on their way, and be opened again (on_close does nothing);   *)
(* the server can crash and be started again.  What login, logout,         *)
(* changestate and reset do to m_DNmap and to the table dnuser is here     *)
(* only as far as a desk can tell, and so is what the threads of the calls *)
(* do to them: an entry without a name, a row they rewrite.  See           *)
(* AgentDispatch for the rest, and for what calls do to a status.          *)
(***************************************************************************)
EXTENDS Integers, Sequences, FiniteSets

CONSTANTS
    User,        \* userIds, which are also agent ids and DNs
    Desk,        \* clients
    UserOf,      \* Desk -> User: two desks can use one userId
    Department,  \* department ids
    Listed,      \* those in t_user_tbl
    Unset,       \* those that an uninitialised m_department_id can hold
    MaxRequests, \* bound: requests in all
    MaxDrops,    \* bound: connections lost
    MaxRestarts  \* bound: crashes of the server

ASSUME UserAssumption == IsFiniteSet(User) /\ User \subseteq Nat
ASSUME UserOfAssumption == UserOf \in [Desk -> User]
ASSUME DepartmentAssumption ==
    /\ IsFiniteSet(Department) /\ Department \subseteq Nat
    /\ Listed \subseteq Department /\ Unset \subseteq Department
ASSUME BoundsAssumption == MaxRequests \in Nat /\ MaxDrops \in Nat /\ MaxRestarts \in Nat

\* CmdType, and payloads that on_callapclient cannot read: no JSON, no action, no param.
\* GetAgentStatus stands for the names that have no case of their own, too.
Kind == {"login", "logout", "changestate", "reset", "getusers", "dial", "heartbeat",
         "ResetConfig", "GetAgentStatus", "unreadable"}

\* complete: all fields of param that the action needs are there.
Request == {req \in [kind : Kind, complete : BOOLEAN] :
                req.kind \in {"GetAgentStatus", "unreadable"} => req.complete}

\* The codes of ManagerDN, -1 of OnparamError, and the value of an int never assigned.
Result == {"DN_INVALIDDN", "DN_OPERATOR_SUCCESSED", "DN_HAS_SIGNINED", "0", "-1", "any"}
Reply == [event : {"onlogin", "onlogout", "onchangestate", "onreset", "ongetusers", "ondial",
                   "onheartbeat", "ResetConfig", ""}, result : Result]

\* The empty string, as a key, an agent id or a DN: it comes before all others.
Nobody == -1
Id == User \cup {Nobody}

\* What a client may set, and what the acd thread sets.
ClientStatus == {"ready", "parking"}
Status == ClientStatus \cup {"ringing"}

\* key: the key in m_DNmap; user: m_agentid and m_DN, which a ghost does not have.
Entry == [key : Id, user : Id, status : Status, department : Department]

VARIABLES
    listening,   \* the server accepts connections
    m_DNmap,     \* set of entries: the users who are signed in, and ghosts
    dnuser,      \* the DNs with a row in the table, which outlives the server
    rewriting,   \* rows that Changestate has deleted for a call and not inserted yet
    up,          \* desks with a connection
    inbox,       \* Desk -> requests not handled yet
    asked,       \* Desk -> requests handled on this connection
    replies,     \* Desk -> replies sent on this connection
    received,    \* Desk -> how many of them have arrived
    belief,      \* Desk -> what its last login or logout told it
    crossed,     \* history: rows inserted for a call after their user had logged out
    disturbed,   \* history: desks that can be wrong, see BeliefTrue
    sent, drops, restarts  \* counters for the bounds

callVars == <<rewriting, crossed>>
serverVars == <<listening, m_DNmap, dnuser, callVars>>
connVars == <<up, inbox, asked, replies, received>>
deskVars == <<belief, disturbed>>
counters == <<sent, drops, restarts>>
vars == <<serverVars, connVars, deskVars, counters>>

\* Every row becomes an entry; a row does not hold the department.
LoadDNSet(rows, department) ==
    {[key |-> r, user |-> r, status |-> "ready", department |-> department[r]] : r \in rows}

Init ==
    /\ listening = TRUE
    /\ \E rows \in SUBSET Id : \E department \in [rows -> Unset] :
          dnuser = rows /\ m_DNmap = LoadDNSet(rows, department)
    /\ rewriting = {} /\ crossed = {}
    /\ up = {}
    /\ inbox = [d \in Desk |-> <<>>] /\ asked = [d \in Desk |-> <<>>]
    /\ replies = [d \in Desk |-> <<>>] /\ received = [d \in Desk |-> 0]
    /\ belief = [d \in Desk |-> "unknown"] /\ disturbed = {}
    /\ sent = 0 /\ drops = 0 /\ restarts = 0

----------------------------------------------------------------------------
(* Desks and their connections (external) *)

\* on_open sends a greeting, which is not counted.
Open(d) ==
    /\ listening
    /\ d \notin up
    /\ up' = up \cup {d}
    /\ UNCHANGED <<serverVars, inbox, asked, replies, received, deskVars, counters>>

Send(d, req) ==
    /\ d \in up
    /\ sent < MaxRequests
    /\ sent' = sent + 1
    /\ inbox' = [inbox EXCEPT ![d] = Append(@, req)]
    /\ UNCHANGED <<serverVars, up, asked, replies, received, deskVars, drops, restarts>>

SignedIn == {"DN_OPERATOR_SUCCESSED", "DN_HAS_SIGNINED"}
SignedOut == {"DN_OPERATOR_SUCCESSED", "DN_INVALIDDN"}

Learned(old, reply) ==
    CASE reply.event = "onlogin" /\ reply.result \in SignedIn -> "in"
      [] reply.event = "onlogout" /\ reply.result \in SignedOut -> "out"
      [] OTHER -> old

Receive(d) ==
    /\ d \in up
    /\ received[d] < Len(replies[d])
    /\ received' = [received EXCEPT ![d] = @ + 1]
    /\ belief' = [belief EXCEPT ![d] = Learned(@, replies[d][received[d] + 1])]
    /\ UNCHANGED <<serverVars, up, inbox, asked, replies, disturbed, counters>>

\* m_DNmap.find, and GetDNbyagentid, which does not find a ghost.
Under(u) == {e \in m_DNmap : e.key = u}
EntryOf(u) == {e \in m_DNmap : e.user = u}

Pending(d) == inbox[d] # <<>> \/ received[d] < Len(replies[d])

\* Requests not read and replies not delivered are lost.  on_close does nothing: the
\* agent stays signed in.  The desk no longer knows what its last request did.
Drop(d) ==
    /\ d \in up
    /\ drops < MaxDrops
    /\ drops' = drops + 1
    /\ up' = up \ {d}
    /\ inbox' = [inbox EXCEPT ![d] = <<>>] /\ asked' = [asked EXCEPT ![d] = <<>>]
    /\ replies' = [replies EXCEPT ![d] = <<>>] /\ received' = [received EXCEPT ![d] = 0]
    /\ belief' = [belief EXCEPT ![d] = IF Pending(d) THEN "unknown" ELSE @]
    /\ UNCHANGED <<serverVars, disturbed, sent, restarts>>

----------------------------------------------------------------------------
(* Calls (external: the acd and event threads, see AgentDispatch) *)

\* inline_TransformAgent looks up an agent who has logged out since he was chosen.
GhostEntry(u, status, department) ==
    /\ Under(u) = {}
    /\ m_DNmap' = m_DNmap \cup
          {[key |-> u, user |-> Nobody, status |-> status, department |-> department]}
    /\ UNCHANGED <<listening, dnuser, callVars, connVars, deskVars, counters>>

\* Changestate of an entry: its row is deleted ...
RewriteBegins(r) ==
    /\ EntryOf(r) # {} /\ r \notin rewriting
    /\ rewriting' = rewriting \cup {r}
    /\ dnuser' = dnuser \ {r}
    /\ UNCHANGED <<listening, m_DNmap, crossed, connVars, deskVars, counters>>

\* ... and inserted, also when the user has logged out in between.
RewriteEnds(r) ==
    /\ r \in rewriting
    /\ rewriting' = rewriting \ {r}
    /\ dnuser' = dnuser \cup {r}
    /\ crossed' = IF EntryOf(r) = {} THEN crossed \cup {r} ELSE crossed
    /\ UNCHANGED <<listening, m_DNmap, connVars, deskVars, counters>>

----------------------------------------------------------------------------
(* A crash, and the start of a new server *)

InHand(kind) ==
    {d \in up : inbox[d] # <<>> /\ Head(inbox[d]) = [kind |-> kind, complete |-> TRUE]}

\* What the table can be when the crash comes in the middle of a request: the row of a
\* login is in, that of a logout or a changestate is gone, and there is no reply.
HalfDone ==
    {dnuser \cup {UserOf[d]} : d \in {e \in InHand("login") : Under(UserOf[e]) = {}}}
    \cup
    {dnuser \ {UserOf[d]} : d \in {e \in InHand("logout") \cup InHand("changestate") :
                                    EntryOf(UserOf[e]) # {}}}

\* All connections are lost, and of m_DNmap what the table does not have.
Restart(rows) ==
    /\ restarts < MaxRestarts
    /\ restarts' = restarts + 1
    /\ listening' = TRUE
    /\ dnuser' = rows
    /\ \E department \in [rows -> Unset] : m_DNmap' = LoadDNSet(rows, department)
    /\ rewriting' = {} /\ crossed' = {}
    /\ up' = {}
    /\ inbox' = [d \in Desk |-> <<>>] /\ asked' = [d \in Desk |-> <<>>]
    /\ replies' = [d \in Desk |-> <<>>] /\ received' = [d \in Desk |-> 0]
    /\ belief' = [d \in Desk |-> IF Pending(d) THEN "unknown" ELSE belief[d]]
    /\ disturbed' = disturbed \cup
          {d \in Desk : \/ UserOf[d] \in rewriting \cup crossed
                        \/ (UserOf[d] \in rows) # (UserOf[d] \in dnuser)}
    /\ UNCHANGED <<sent, drops>>

----------------------------------------------------------------------------
(* on_message and on_callapclient *)

Handles(d, kind) ==
    /\ d \in up /\ inbox[d] # <<>>
    /\ Head(inbox[d]) = [kind |-> kind, complete |-> TRUE]
    /\ inbox' = [inbox EXCEPT ![d] = Tail(@)]
    /\ asked' = [asked EXCEPT ![d] = Append(@, Head(inbox[d]))]
    /\ UNCHANGED <<listening, rewriting, up, received, belief, counters>>

\* s->send(hdl, ...), once for each reply
Sends(d, list) == replies' = [replies EXCEPT ![d] = @ \o list]

Says(event, result) == <<[event |-> event, result |-> result]>>

tableVars == <<m_DNmap, dnuser, crossed>>

\* Desk d hears what is so; the other desks of its user do not.
Disturbed(d) == (disturbed \ {d}) \cup {e \in Desk \ {d} : UserOf[e] = UserOf[d]}

\* The event a reply names, if there is one.
EventOf ==
    [login |-> "onlogin", logout |-> "onlogout", changestate |-> "onchangestate",
     reset |-> "onreset", getusers |-> "ongetusers", dial |-> "ondial",
     heartbeat |-> "onheartbeat", ResetConfig |-> "ResetConfig"]

\* The reply to a payload that cannot be read, or to one with a field missing.
ErrorEvent(kind) ==
    CASE kind \in {"unreadable", "ResetConfig"} -> ""
      [] kind = "heartbeat" -> "onreset"
      [] OTHER -> EventOf[kind]

OnparamError(d) ==
    /\ d \in up /\ inbox[d] # <<>>
    /\ LET req == Head(inbox[d]) IN
       /\ req.kind = "unreadable" \/ ~req.complete
       /\ Sends(d, Says(ErrorEvent(req.kind), "-1"))
    /\ inbox' = [inbox EXCEPT ![d] = Tail(@)]
    /\ asked' = [asked EXCEPT ![d] = Append(@, Head(inbox[d]))]
    /\ UNCHANGED <<serverVars, up, received, deskVars, counters>>

\* FindJavaUserInfo: the user has no row in t_user_tbl, or the query failed.
UserNotFound(d, kind) ==
    /\ kind \in {"login", "reset"}
    /\ Handles(d, kind)
    /\ Sends(d, Says(EventOf[kind], "-1"))
    /\ UNCHANGED <<tableVars, disturbed>>

\* Signin: checkvaildDN fails.
SigninInvalid(d) ==
    /\ Handles(d, "login")
    /\ Sends(d, Says("onlogin", "DN_INVALIDDN"))
    /\ UNCHANGED <<tableVars, disturbed>>

SigninNew(d, department) ==
    LET u == UserOf[d] IN
    /\ Handles(d, "login")
    /\ Under(u) = {}
    /\ m_DNmap' = m_DNmap \cup
          {[key |-> u, user |-> u, status |-> "ready", department |-> department]}
    /\ dnuser' = dnuser \cup {u} /\ crossed' = crossed \ {u}
    /\ disturbed' = Disturbed(d)
    /\ Sends(d, Says("onlogin", "DN_OPERATOR_SUCCESSED"))

MadeReady(map, u) == {IF e.key = u THEN [e EXCEPT !.status = "ready"] ELSE e : e \in map}

\* A second login, say after the reply to the first was lost.  The entry found can be a
\* ghost, and then the desk, too, is told what is not so.
SigninAgain(d) ==
    LET u == UserOf[d] IN
    /\ Handles(d, "login")
    /\ Under(u) # {}
    /\ m_DNmap' = MadeReady(m_DNmap, u)
    /\ disturbed' = IF EntryOf(u) = {} THEN Disturbed(d) \cup {d} ELSE Disturbed(d)
    /\ Sends(d, Says("onlogin", "DN_HAS_SIGNINED"))
    /\ UNCHANGED <<dnuser, crossed>>

\* Mutant: only the entry goes.
Signout_KeepsRow(d) ==
    LET mine == EntryOf(UserOf[d]) IN
    /\ Handles(d, "logout")
    /\ m_DNmap' = m_DNmap \ mine
    /\ disturbed' = Disturbed(d)
    /\ Sends(d, Says("onlogout", IF mine = {} THEN "DN_INVALIDDN"
                                 ELSE "DN_OPERATOR_SUCCESSED"))
    /\ UNCHANGED <<dnuser, crossed>>

\* Mutant: the case does not return, and the next one answers, too.
Signout_FallsThrough(d) ==
    /\ Handles(d, "logout")
    /\ m_DNmap' = m_DNmap \ EntryOf(UserOf[d])
    /\ dnuser' = dnuser \ {UserOf[d]}
    /\ disturbed' = Disturbed(d)
    /\ Sends(d, Says("onlogout", "DN_OPERATOR_SUCCESSED")
                \o Says("onchangestate", "DN_INVALIDDN"))
    /\ UNCHANGED crossed

Signout(d) ==
    LET mine == EntryOf(UserOf[d]) IN
    /\ Handles(d, "logout")
    /\ m_DNmap' = m_DNmap \ mine
    /\ dnuser' = IF mine = {} THEN dnuser ELSE dnuser \ {UserOf[d]}
    /\ disturbed' = Disturbed(d)
    /\ Sends(d, Says("onlogout", IF mine = {} THEN "DN_INVALIDDN"
                                 ELSE "DN_OPERATOR_SUCCESSED"))
    /\ UNCHANGED crossed

SetDNstatus(d, status) ==
    LET mine == EntryOf(UserOf[d]) IN
    /\ Handles(d, "changestate")
    /\ m_DNmap' = (m_DNmap \ mine) \cup {[e EXCEPT !.status = status] : e \in mine}
    /\ dnuser' = IF mine = {} THEN dnuser ELSE dnuser \cup {UserOf[d]}
    /\ Sends(d, Says("onchangestate", IF mine = {} THEN "DN_INVALIDDN"
                                      ELSE "DN_OPERATOR_SUCCESSED"))
    /\ UNCHANGED <<crossed, disturbed>>

\* ResetDNinfo finds a ghost, too.  It has no return statement for an entry it found.
ResetDNinfo(d, department) ==
    LET mine == Under(UserOf[d]) IN
    /\ Handles(d, "reset")
    /\ m_DNmap' = (m_DNmap \ mine) \cup
          {[e EXCEPT !.status = "ready", !.department = department] : e \in mine}
    /\ Sends(d, Says("onreset", IF mine = {} THEN "-1" ELSE "any"))
    /\ UNCHANGED <<dnuser, crossed, disturbed>>

\* How an iterator walks over a set or the keys of a map.
InOrder(S) ==
    [i \in 1..Cardinality(S) |-> CHOOSE n \in S : Cardinality({m \in S : m < n}) = i - 1]

\* GetUserInfolist, for a department or AllDepartments, a status or AllStates.
AllDepartments == -1
AllStates == "0"
GetUserInfolist(department, status) ==
    LET found == {e \in m_DNmap : /\ department \in {AllDepartments, e.department}
                                  /\ status \in {AllStates, e.status}}
        keys == InOrder({e.key : e \in found})
    IN [i \in DOMAIN keys |-> CHOOSE e \in found : e.key = keys[i]]

Departments(list) == InOrder({list[i].department : i \in DOMAIN list})

\* Mutant: the iterator is at end() from the loop before, and is not set back.
ListData_NoRestart(list) == [k \in DOMAIN Departments(list) |-> <<>>]

\* The users of each department.  The label of a group is read from the element after
\* the last, and can be anything.
ListData(list) ==
    [k \in DOMAIN Departments(list) |->
        LET at == InOrder({i \in DOMAIN list : list[i].department = Departments(list)[k]})
        IN [j \in DOMAIN at |-> list[at[j]]]]

\* The reply carries ListData of the list.
getusers(d) ==
    /\ Handles(d, "getusers")
    /\ Sends(d, Says("ongetusers", IF Under(UserOf[d]) = {} THEN "DN_INVALIDDN"
                                   ELSE "DN_OPERATOR_SUCCESSED"))
    /\ UNCHANGED <<tableVars, disturbed>>

\* The case of dial has no break; ret has no value in either.
OutboundCall(d) ==
    /\ Handles(d, "dial")
    /\ Sends(d, Says("ondial", "any") \o Says("onheartbeat", "any"))
    /\ UNCHANGED <<tableVars, disturbed>>

Heartbeat(d) ==
    /\ Handles(d, "heartbeat")
    /\ Sends(d, Says("onheartbeat", "any"))
    /\ UNCHANGED <<tableVars, disturbed>>

\* reloaddb returns 0 whatever happened (see CallRecords).
ResetConfig(d) ==
    /\ Handles(d, "ResetConfig")
    /\ Sends(d, Says("ResetConfig", "0"))
    /\ UNCHANGED <<tableVars, disturbed>>

\* A case that was commented out, and default: no reply.
Silent(d) ==
    /\ Handles(d, "GetAgentStatus")
    /\ UNCHANGED <<tableVars, replies, disturbed>>

\* The payload "stop-listening": connections stay, new ones are refused.
StopListening(d) ==
    /\ d \in up
    /\ listening
    /\ listening' = FALSE
    /\ UNCHANGED <<tableVars, rewriting, connVars, deskVars, counters>>

on_message(d) ==
    \/ OnparamError(d) \/ \E kind \in Kind : UserNotFound(d, kind)
    \/ SigninInvalid(d) \/ SigninAgain(d) \/ Signout(d)
    \/ \E dep \in Listed : SigninNew(d, dep) \/ ResetDNinfo(d, dep)
    \/ \E status \in ClientStatus : SetDNstatus(d, status)
    \/ getusers(d) \/ OutboundCall(d) \/ Heartbeat(d) \/ ResetConfig(d) \/ Silent(d)

Calls ==
    \/ \E u \in User, status \in Status, dep \in Unset : GhostEntry(u, status, dep)
    \/ \E r \in Id : RewriteBegins(r) \/ RewriteEnds(r)

Next ==
    \/ \E d \in Desk :
          \/ Open(d) \/ Receive(d) \/ Drop(d) \/ StopListening(d) \/ on_message(d)
          \/ \E req \in Request : Send(d, req)
    \/ Calls
    \/ \E rows \in {dnuser} \cup HalfDone : Restart(rows)

Spec == Init /\ [][Next]_vars

----------------------------------------------------------------------------
(* Properties *)

\* The types of the variables; m_DNmap has one entry for a key at most, and a user is
\* found under his own DN only.
TypeOK ==
    /\ listening \in BOOLEAN
    /\ m_DNmap \subseteq Entry /\ \A k \in Id : Cardinality(Under(k)) <= 1
    /\ \A e \in m_DNmap : e.user \in {e.key, Nobody}
    /\ dnuser \subseteq Id /\ rewriting \subseteq Id /\ crossed \subseteq Id
    /\ up \subseteq Desk
    /\ inbox \in [Desk -> Seq(Request)] /\ asked \in [Desk -> Seq(Request)]
    /\ replies \in [Desk -> Seq(Reply)]
    /\ \A d \in Desk : received[d] \in 0..Len(replies[d])
    /\ belief \in [Desk -> {"unknown", "in", "out"}] /\ disturbed \subseteq Desk
    /\ sent \in 0..MaxRequests /\ drops \in 0..MaxDrops /\ restarts \in 0..MaxRestarts

\* Replies carry no number that names the request.  A desk that counts them is right, and
\* the i-th reply on a connection has the event of the i-th request, as long as it sent
\* complete requests only, none that has no case, and no dial, which is answered twice.
RepliesInStep ==
    \A d \in Desk :
        (\A i \in DOMAIN asked[d] : /\ asked[d][i].complete
                                   /\ asked[d][i].kind \notin {"dial", "GetAgentStatus", "unreadable"})
        => /\ Len(replies[d]) = Len(asked[d])
           /\ \A i \in DOMAIN asked[d] : replies[d][i].event = EventOf[asked[d][i].kind]

\* A desk that has no request under way is right about whether GetDNbyagentid finds its
\* user, also after it lost its connection and repeated a login or logout whose reply it
\* never saw, and after a crash.  Since its last answered login or logout, three things
\* can have made it wrong: another desk logged the same user in or out; a login found a
\* ghost; the server crashed after a call had rewritten the user's row across a logout,
\* or while a call or a request was at that row.
BeliefTrue ==
    \A d \in Desk \ disturbed :
        ~Pending(d) => /\ belief[d] = "in" => EntryOf(UserOf[d]) # {}
                       /\ belief[d] = "out" => EntryOf(UserOf[d]) = {}

\* Every one of the agents stands at one place of the groups, and nobody else; a group has
\* the agents of one department, and another group those of another.
Partition(groups, agents) ==
    LET Places == UNION {{k} \X DOMAIN groups[k] : k \in DOMAIN groups}
        At(p) == groups[p[1]][p[2]]
    IN /\ {At(p) : p \in Places} = agents
       /\ \A p, q \in Places : /\ At(p) = At(q) => p = q
                               /\ At(p).department = At(q).department <=> p[1] = q[1]
       /\ \A k \in DOMAIN groups : groups[k] # <<>>

\* Whatever department and status the getusers request in hand asks for, the groups of its
\* reply are the departments of the agents with these, each with its agents.
UsersGrouped ==
    InHand("getusers") # {} =>
    \A dep \in Department \cup {AllDepartments}, status \in {AllStates} \cup Status :
        Partition(ListData(GetUserInfolist(dep, status)),
                  {e \in m_DNmap : /\ dep # AllDepartments => e.department = dep
                                   /\ status # AllStates => e.status = status})

=============================================================================

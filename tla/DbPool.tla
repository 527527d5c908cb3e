------------------------------- MODULE DbPool -------------------------------
(***************************************************************************)
(* The MySQL connection pool (src/database/dbPool.cpp) and the pattern by  *)
(* which every function of db_operator_t (src/common/DBOperator.cpp) uses  *)
(* it: GetConnection, run a statement inside try, ReleaseConnection.       *)
(*                                                                         *)
(* GetConnection and ReleaseConnection run under the static mutex, so each *)
(* is one step.  The MySQL server is external: it goes up and down, and    *)
(* connections are closed when it goes down.  A NULL connection is only    *)
(* printed and then dereferenced, which ends the process; a statement that *)
(* throws leads to the deletion of pointers that were never assigned,      *)
(* which may end it too.                                                   *)
(***************************************************************************)
EXTENDS Integers, Sequences, FiniteSets

CONSTANTS
    Conn,       \* addresses of Connection objects
    Thread,     \* threads that call db_operator_t
    Null,       \* the NULL connection
    maxSize     \* argument of initPool (20 in initDatabase)

ASSUME PoolAssumption ==
    /\ maxSize \in Nat
    /\ Null \notin Conn
    /\ IsFiniteSet(Thread)

VARIABLES
    connList,   \* idle connections, front first
    curSize,    \* connections the pool believes it has
    initLeft,   \* iterations left of InitConnection's loop
    cmd,        \* Thread -> its connection, Null when it has none
    closed,     \* connections the server has closed
    dbUp,       \* "up" or "down"
    process,    \* "running", "refused" (NULL dereferenced) or "crashed"
    outage      \* history: the server has been down since the start

vars == <<connList, curSize, initLeft, cmd, closed, dbUp, process, outage>>

Lent == {t \in Thread : cmd[t] # Null}
Idle == {connList[i] : i \in 1..Len(connList)}

\* An address operator new may return: no live object has it.
Fresh == {c \in Conn : c \notin Idle /\ \A t \in Thread : cmd[t] # c}

----------------------------------------------------------------------------
\* initPool; InitConnection(maxSize / 2) follows.
Init ==
    /\ connList = <<>>
    /\ curSize = 0
    /\ initLeft = maxSize \div 2
    /\ cmd = [t \in Thread |-> Null]
    /\ closed = {}
    /\ dbUp \in {"up", "down"}
    /\ process = "running"
    /\ outage = (dbUp = "down")

\* CreateConnection returns NULL when connect throws.
Connects == dbUp = "up"

InitConnection ==
    /\ process = "running"
    /\ initLeft > 0
    /\ initLeft' = initLeft - 1
    /\ IF Connects
       THEN \E c \in Fresh :
              /\ connList' = Append(connList, c)
              /\ closed' = closed \ {c}
              /\ curSize' = curSize + 1
       ELSE UNCHANGED <<connList, closed, curSize>>
    /\ UNCHANGED <<cmd, dbUp, process, outage>>

\* The other threads are started after initPool has returned.
Calls(t) == process = "running" /\ initLeft = 0 /\ cmd[t] = Null

\* The front of the list is still open.
GetIdle(t) ==
    /\ Calls(t)
    /\ connList # <<>> /\ Head(connList) \notin closed
    /\ connList' = Tail(connList)
    /\ cmd' = [cmd EXCEPT ![t] = Head(connList)]
    /\ UNCHANGED <<curSize, initLeft, closed, dbUp, process, outage>>

\* The front of the list was closed: delete it and connect again; the new object
\* may get the old address.
GetRecreated(t) ==
    /\ Calls(t)
    /\ connList # <<>> /\ Head(connList) \in closed
    /\ Connects
    /\ connList' = Tail(connList)
    /\ \E c \in Fresh \cup {Head(connList)} :
          cmd' = [cmd EXCEPT ![t] = c] /\ closed' = (closed \ {c}) \ {Head(connList)}
    /\ UNCHANGED <<curSize, initLeft, dbUp, process, outage>>

\* Mutant: the pool forgets to count a connection it could not replace.
GetLost_NotCounted(t) ==
    /\ Calls(t)
    /\ connList # <<>> /\ Head(connList) \in closed
    /\ ~Connects
    /\ connList' = Tail(connList)
    /\ closed' = closed \ {Head(connList)}
    /\ process' = "refused"
    /\ UNCHANGED <<curSize, initLeft, cmd, dbUp, outage>>

\* The replacement fails: the pool is one smaller and the caller gets NULL.
GetLost(t) ==
    /\ Calls(t)
    /\ connList # <<>> /\ Head(connList) \in closed
    /\ ~Connects
    /\ connList' = Tail(connList)
    /\ closed' = closed \ {Head(connList)}
    /\ curSize' = curSize - 1
    /\ process' = "refused"
    /\ UNCHANGED <<initLeft, cmd, dbUp, outage>>

\* Nothing idle, but room for one more.
GetNew(t) ==
    /\ Calls(t)
    /\ connList = <<>> /\ curSize < maxSize
    /\ Connects
    /\ \E c \in Fresh : cmd' = [cmd EXCEPT ![t] = c] /\ closed' = closed \ {c}
    /\ curSize' = curSize + 1
    /\ UNCHANGED <<connList, initLeft, dbUp, process, outage>>

\* Mutant: the last free place of the pool is not used.
GetNull_OffByOne(t) ==
    /\ Calls(t)
    /\ connList = <<>> /\ (curSize + 1 < maxSize => ~Connects)
    /\ process' = "refused"
    /\ UNCHANGED <<connList, curSize, initLeft, cmd, closed, dbUp, outage>>

\* Nothing idle, and no connection can be made or the pool is full: NULL.
GetNull(t) ==
    /\ Calls(t)
    /\ connList = <<>> /\ (curSize < maxSize => ~Connects)
    /\ process' = "refused"
    /\ UNCHANGED <<connList, curSize, initLeft, cmd, closed, dbUp, outage>>

\* Mutant: the statement's connection stays with its thread.
ReleaseConnection_Kept(t) ==
    /\ process = "running"
    /\ cmd[t] # Null
    /\ connList' = Append(connList, cmd[t])
    /\ UNCHANGED <<curSize, initLeft, cmd, closed, dbUp, process, outage>>

\* The statement has run, or thrown: either way the connection goes back.
ReleaseConnection(t) ==
    /\ process = "running"
    /\ cmd[t] # Null
    /\ connList' = Append(connList, cmd[t])
    /\ cmd' = [cmd EXCEPT ![t] = Null]
    /\ UNCHANGED <<curSize, initLeft, closed, dbUp, process, outage>>

\* The statement threw before state or result was assigned, and deleting the
\* garbage pointer kills the process.
DeleteUnassigned(t) ==
    /\ process = "running"
    /\ cmd[t] # Null
    /\ process' = "crashed"
    /\ UNCHANGED <<connList, curSize, initLeft, cmd, closed, dbUp, outage>>

----------------------------------------------------------------------------
(* The MySQL server (external) *)

ServerDown ==
    /\ dbUp = "up"
    /\ dbUp' = "down"
    /\ closed' = closed \cup Idle \cup {cmd[t] : t \in Lent}
    /\ outage' = TRUE
    /\ UNCHANGED <<connList, curSize, initLeft, cmd, process>>

ServerUp ==
    /\ dbUp = "down"
    /\ dbUp' = "up"
    /\ UNCHANGED <<connList, curSize, initLeft, cmd, closed, process, outage>>

\* The server drops a session (wait_timeout, KILL, a broken network).
ServerCloses(c) ==
    /\ c \in (Idle \cup {cmd[t] : t \in Lent}) \ closed
    /\ closed' = closed \cup {c}
    /\ UNCHANGED <<connList, curSize, initLeft, cmd, dbUp, process, outage>>

Next ==
    \/ InitConnection
    \/ \E t \in Thread : \/ GetIdle(t) \/ GetRecreated(t) \/ GetLost(t)
                         \/ GetNew(t) \/ GetNull(t) \/ ReleaseConnection(t)
                         \/ DeleteUnassigned(t)
    \/ ServerDown \/ ServerUp \/ \E c \in Conn : ServerCloses(c)

Spec == Init /\ [][Next]_vars

----------------------------------------------------------------------------
(* Properties *)

\* Type correctness of the pool and its users.
TypeOK ==
    /\ connList \in Seq(Conn)
    /\ curSize \in Int
    /\ initLeft \in Nat /\ initLeft <= maxSize
    /\ cmd \in [Thread -> Conn \cup {Null}]
    /\ closed \in SUBSET Conn
    /\ dbUp \in {"up", "down"}
    /\ process \in {"running", "refused", "crashed"}
    /\ outage \in BOOLEAN

\* No connection is idle and in use, idle twice, or in use by two threads.
NoSharedConnection ==
    /\ \A i, j \in 1..Len(connList) : connList[i] = connList[j] => i = j
    /\ \A i \in 1..Len(connList), t \in Thread : connList[i] # cmd[t]
    /\ \A t, u \in Lent : cmd[t] = cmd[u] => t = u

\* curSize is the number of connections that are idle or in use, through outages,
\* failed replacements and failed statements, and never exceeds maxSize.
ConnectionsCounted ==
    /\ curSize = Len(connList) + Cardinality(Lent)
    /\ curSize <= maxSize

\* With no more threads than maxSize, a thread is refused a connection, and the
\* process dies of it, only after an outage of the server: sessions dropped one by
\* one, idle or in use, and statements that throw never use up the pool.
RefusalNeedsOutage ==
    (Cardinality(Thread) <= maxSize /\ process = "refused") => outage

=============================================================================

---------------------------- MODULE DbPoolProofs ----------------------------
(***************************************************************************)
(* The pool for any number of threads, connections and places: no          *)
(* connection has two users, curSize counts the connections there are, and *)
(* a pool with a place for every thread refuses nobody while the server    *)
(* has never been down.                                                    *)
(***************************************************************************)
EXTENDS DbPool, FiniteSetTheorems, TLAPS

----------------------------------------------------------------------------
(* The inductive invariant *)

\* InitConnection's loop leaves room for the connections it still makes, and a server
\* that is down has been down.
PoolInv ==
    /\ TypeOK
    /\ NoSharedConnection
    /\ ConnectionsCounted
    /\ curSize + initLeft <= maxSize
    /\ dbUp = "down" => outage
    /\ RefusalNeedsOutage

----------------------------------------------------------------------------
(* Sequences and counts *)

\* The elements of a list to which one is appended.
LEMMA AppendFacts ==
    ASSUME NEW S, NEW s \in Seq(S), NEW x \in S
    PROVE  /\ Append(s, x) \in Seq(S)
           /\ Len(Append(s, x)) = Len(s) + 1
           /\ \A i \in 1..Len(s) : Append(s, x)[i] = s[i]
           /\ Append(s, x)[Len(s) + 1] = x
           /\ Len(s) \in Nat
  OBVIOUS

\* The elements of a list whose front is taken.
LEMMA TailFacts ==
    ASSUME NEW S, NEW s \in Seq(S), s # <<>>
    PROVE  /\ Tail(s) \in Seq(S)
           /\ Head(s) \in S /\ Head(s) = s[1]
           /\ Len(s) \in Nat \ {0}
           /\ Len(Tail(s)) = Len(s) - 1
           /\ \A i \in 1..Len(s) - 1 : Tail(s)[i] = s[i + 1]
  OBVIOUS

\* The threads that have a connection are finitely many, and not all of them when
\* one has none.
LEMMA LentFinite ==
    ASSUME TypeOK
    PROVE  /\ IsFiniteSet(Lent) /\ Cardinality(Lent) \in Nat
           /\ Cardinality(Thread) \in Nat
           /\ \A t \in Thread : cmd[t] = Null => Cardinality(Lent) < Cardinality(Thread)
<1>1. Lent \in SUBSET Thread
  BY DEF Lent
<1>2. /\ IsFiniteSet(Lent) /\ Cardinality(Lent) <= Cardinality(Thread)
      /\ Cardinality(Thread) = Cardinality(Lent) => Thread = Lent
  BY <1>1, PoolAssumption, FS_Subset
<1>3. Cardinality(Lent) \in Nat /\ Cardinality(Thread) \in Nat
  BY <1>2, PoolAssumption, FS_CardinalityType
<1>4. ASSUME NEW t \in Thread, cmd[t] = Null
      PROVE  Cardinality(Lent) < Cardinality(Thread)
  <2>1. Thread # Lent
    BY <1>4 DEF Lent
  <2> QED
    BY <2>1, <1>2, <1>3
<1> QED
  BY <1>2, <1>3, <1>4

\* A thread that gets a connection adds one to those that have one.
LEMMA LentOneMore ==
    ASSUME TypeOK, NEW t \in Thread, cmd[t] = Null, NEW c \in Conn,
           cmd' = [cmd EXCEPT ![t] = c]
    PROVE  Cardinality(Lent') = Cardinality(Lent) + 1
<1>1. Lent' = Lent \cup {t}
  BY PoolAssumption DEF Lent, TypeOK
<1>2. t \notin Lent
  BY DEF Lent
<1> QED
  BY <1>1, <1>2, LentFinite, FS_AddElement

\* A thread that gives its connection back takes one away.
LEMMA LentOneLess ==
    ASSUME TypeOK, NEW t \in Thread, cmd[t] # Null,
           cmd' = [cmd EXCEPT ![t] = Null]
    PROVE  Cardinality(Lent') = Cardinality(Lent) - 1
<1>1. Lent' = Lent \ {t}
  BY DEF Lent, TypeOK
<1>2. t \in Lent
  BY DEF Lent
<1> QED
  BY <1>1, <1>2, LentFinite, FS_RemoveElement

\* An address that operator new returns is nobody's.
LEMMA FreshFacts ==
    ASSUME NEW c \in Fresh
    PROVE  /\ c \in Conn
           /\ \A i \in 1..Len(connList) : connList[i] # c
           /\ \A t \in Thread : cmd[t] # c
  BY DEF Fresh, Idle

----------------------------------------------------------------------------
(* The steps *)

\* initPool starts without connections.
LEMMA PoolInit == Init => PoolInv
<1> SUFFICES ASSUME Init PROVE PoolInv
  OBVIOUS
<1>1. TypeOK
  BY PoolAssumption DEF Init, TypeOK
<1>2. Lent = {}
  BY DEF Init, Lent
<1>3. ConnectionsCounted /\ curSize + initLeft <= maxSize
  BY <1>2, PoolAssumption, FS_EmptySet DEF Init, ConnectionsCounted
<1>4. NoSharedConnection /\ RefusalNeedsOutage
  BY <1>2 DEF Init, NoSharedConnection, RefusalNeedsOutage
<1> QED
  BY <1>1, <1>3, <1>4 DEF PoolInv, Init

\* InitConnection adds a new object to the list, or none.
LEMMA PoolInitConnection ==
    ASSUME PoolInv, InitConnection
    PROVE  PoolInv'
<1> USE DEF PoolInv
<1>0. Lent' = Lent /\ Cardinality(Lent) \in Nat
  BY LentFinite DEF InitConnection, Lent
<1>1. CASE ~Connects
  <2>1. UNCHANGED <<connList, closed, curSize, cmd, dbUp, process, outage>>
        /\ initLeft' = initLeft - 1 /\ initLeft > 0
    BY <1>1 DEF InitConnection
  <2>2. TypeOK'
    BY <2>1, PoolAssumption DEF TypeOK
  <2>3. ConnectionsCounted' /\ curSize' + initLeft' <= maxSize
    BY <1>0, <2>1, PoolAssumption DEF ConnectionsCounted, TypeOK
  <2>4. NoSharedConnection' /\ RefusalNeedsOutage'
    BY <1>0, <2>1 DEF NoSharedConnection, RefusalNeedsOutage
  <2> QED
    BY <2>1, <2>2, <2>3, <2>4
<1>2. CASE Connects
  <2>0. PICK c \in Fresh : /\ connList' = Append(connList, c)
                           /\ closed' = closed \ {c}
                           /\ curSize' = curSize + 1
    BY <1>2 DEF InitConnection
  <2>1. UNCHANGED <<cmd, dbUp, process, outage>> /\ initLeft' = initLeft - 1 /\ initLeft > 0
    BY DEF InitConnection
  <2>2. /\ connList' \in Seq(Conn) /\ Len(connList') = Len(connList) + 1
        /\ \A i \in 1..Len(connList) : connList'[i] = connList[i]
        /\ connList'[Len(connList) + 1] = c /\ Len(connList) \in Nat
    BY <2>0, FreshFacts, AppendFacts DEF TypeOK
  <2>3. TypeOK'
    BY <2>0, <2>1, <2>2, PoolAssumption DEF TypeOK
  <2>4. ConnectionsCounted' /\ curSize' + initLeft' <= maxSize
    <3>1. curSize' = Len(connList') + Cardinality(Lent')
      BY <1>0, <2>0, <2>2 DEF ConnectionsCounted
    <3>2. curSize' <= maxSize /\ curSize' + initLeft' <= maxSize
      BY <2>0, <2>1, PoolAssumption DEF TypeOK
    <3> QED
      BY <3>1, <3>2 DEF ConnectionsCounted
  <2>5. NoSharedConnection'
    BY <1>0, <2>0, <2>1, <2>2, FreshFacts DEF NoSharedConnection
  <2>6. RefusalNeedsOutage'
    BY <2>1 DEF RefusalNeedsOutage
  <2> QED
    BY <2>1, <2>3, <2>4, <2>5, <2>6
<1> QED
  BY <1>1, <1>2

\* A front that is taken leaves the others in place.
LEMMA FrontTaken ==
    ASSUME PoolInv, connList # <<>>, connList' = Tail(connList)
    PROVE  /\ connList' \in Seq(Conn) /\ Head(connList) \in Conn
           /\ Len(connList') = Len(connList) - 1 /\ Len(connList) \in Nat \ {0}
           /\ \A i \in 1..Len(connList') : \E j \in 2..Len(connList) :
                 j = i + 1 /\ connList'[i] = connList[j]
           /\ \A i \in 1..Len(connList') : connList'[i] # Head(connList)
           /\ \A i, j \in 1..Len(connList') : connList'[i] = connList'[j] => i = j
           /\ \A t \in Thread : cmd[t] # Head(connList)
<1>1. /\ connList' \in Seq(Conn) /\ Head(connList) \in Conn /\ Head(connList) = connList[1]
      /\ Len(connList') = Len(connList) - 1 /\ Len(connList) \in Nat \ {0}
      /\ \A i \in 1..Len(connList) - 1 : connList'[i] = connList[i + 1]
  BY TailFacts DEF PoolInv, TypeOK
<1>2. \A i, j \in 1..Len(connList) : connList[i] = connList[j] => i = j
  BY DEF PoolInv, NoSharedConnection
<1>3. \A i \in 1..Len(connList') : i + 1 \in 2..Len(connList) /\ connList'[i] = connList[i + 1]
  BY <1>1
<1>4. \A i \in 1..Len(connList') : connList'[i] # Head(connList)
  BY <1>1, <1>2, <1>3
<1>5. \A i, j \in 1..Len(connList') : connList'[i] = connList'[j] => i = j
  BY <1>1, <1>2, <1>3
<1>6. \A t \in Thread : cmd[t] # Head(connList)
  BY <1>1 DEF PoolInv, NoSharedConnection
<1> QED
  BY <1>1, <1>3, <1>4, <1>5, <1>6

\* The front of the list, or the object made in its place, goes to one thread.
LEMMA PoolGetFront ==
    ASSUME PoolInv, NEW t \in Thread, GetIdle(t) \/ GetRecreated(t)
    PROVE  PoolInv'
<1> USE DEF PoolInv
<1>1. PICK c \in Fresh \cup {Head(connList)} :
         /\ cmd' = [cmd EXCEPT ![t] = c] /\ closed' \subseteq closed
  BY DEF GetIdle, GetRecreated
<1>2. /\ UNCHANGED <<curSize, initLeft, dbUp, process, outage>>
      /\ cmd[t] = Null /\ connList # <<>> /\ connList' = Tail(connList)
  BY DEF GetIdle, GetRecreated, Calls
<1>3. /\ connList' \in Seq(Conn) /\ Head(connList) \in Conn
      /\ Len(connList') = Len(connList) - 1 /\ Len(connList) \in Nat \ {0}
      /\ \A i \in 1..Len(connList') : \E j \in 2..Len(connList) :
            j = i + 1 /\ connList'[i] = connList[j]
      /\ \A i \in 1..Len(connList') : connList'[i] # Head(connList)
      /\ \A i, j \in 1..Len(connList') : connList'[i] = connList'[j] => i = j
      /\ \A u \in Thread : cmd[u] # Head(connList)
  BY <1>2, FrontTaken
<1>4. /\ c \in Conn /\ \A i \in 1..Len(connList') : connList'[i] # c
      /\ \A u \in Thread : cmd[u] # c
  <2>1. CASE c \in Fresh
    <3>1. /\ c \in Conn /\ \A u \in Thread : cmd[u] # c
          /\ \A i \in 1..Len(connList) : connList[i] # c
      BY <2>1, FreshFacts
    <3> QED
      BY <1>3, <3>1
  <2>2. CASE c = Head(connList)
    BY <2>2, <1>3
  <2> QED
    BY <2>1, <2>2
<1>5. TypeOK'
  BY <1>1, <1>2, <1>3, <1>4 DEF TypeOK
<1>6. Cardinality(Lent') = Cardinality(Lent) + 1 /\ Cardinality(Lent) \in Nat
  BY <1>1, <1>2, <1>4, LentOneMore, LentFinite
<1>7. ConnectionsCounted' /\ curSize' + initLeft' <= maxSize
  BY <1>2, <1>3, <1>6 DEF ConnectionsCounted, TypeOK
<1>8. NoSharedConnection'
  <2>1. \A u \in Thread : cmd'[u] = IF u = t THEN c ELSE cmd[u]
    BY <1>1 DEF TypeOK
  <2>2. \A i \in 1..Len(connList'), u \in Thread : connList'[i] # cmd'[u]
    BY <2>1, <1>3, <1>4 DEF NoSharedConnection
  <2>3. \A u, v \in Lent' : cmd'[u] = cmd'[v] => u = v
    BY <2>1, <1>4 DEF NoSharedConnection, Lent
  <2> QED
    BY <2>2, <2>3, <1>3 DEF NoSharedConnection
<1>9. RefusalNeedsOutage'
  BY <1>2 DEF RefusalNeedsOutage
<1> QED
  BY <1>2, <1>5, <1>7, <1>8, <1>9

\* The front of the list was closed and cannot be replaced: the server is down.
LEMMA PoolGetLost ==
    ASSUME PoolInv, NEW t \in Thread, GetLost(t)
    PROVE  PoolInv'
<1> USE DEF PoolInv
<1>2. /\ UNCHANGED <<initLeft, cmd, dbUp, outage>> /\ process' = "refused"
      /\ closed' \subseteq closed /\ curSize' = curSize - 1
      /\ connList # <<>> /\ connList' = Tail(connList) /\ dbUp # "up"
  BY DEF GetLost, Connects
<1>3. /\ connList' \in Seq(Conn)
      /\ Len(connList') = Len(connList) - 1 /\ Len(connList) \in Nat \ {0}
      /\ \A i \in 1..Len(connList') : \E j \in 2..Len(connList) :
            j = i + 1 /\ connList'[i] = connList[j]
      /\ \A i, j \in 1..Len(connList') : connList'[i] = connList'[j] => i = j
  BY <1>2, FrontTaken
<1>4. TypeOK'
  BY <1>2, <1>3 DEF TypeOK
<1>5. Lent' = Lent /\ Cardinality(Lent) \in Nat
  BY <1>2, LentFinite DEF Lent
<1>6. ConnectionsCounted' /\ curSize' + initLeft' <= maxSize
  BY <1>2, <1>3, <1>5, PoolAssumption DEF ConnectionsCounted, TypeOK
<1>7. NoSharedConnection'
  BY <1>2, <1>3, <1>5 DEF NoSharedConnection
<1>8. outage'
  BY <1>2 DEF TypeOK
<1> QED
  BY <1>2, <1>4, <1>6, <1>7, <1>8 DEF RefusalNeedsOutage

\* A new object is made for the thread, and there is room for it.
LEMMA PoolGetNew ==
    ASSUME PoolInv, NEW t \in Thread, GetNew(t)
    PROVE  PoolInv'
<1> USE DEF PoolInv
<1>1. PICK c \in Fresh : cmd' = [cmd EXCEPT ![t] = c] /\ closed' = closed \ {c}
  BY DEF GetNew
<1>2. /\ UNCHANGED <<connList, initLeft, dbUp, process, outage>> /\ cmd[t] = Null
      /\ curSize < maxSize /\ curSize' = curSize + 1 /\ initLeft = 0
  BY DEF GetNew, Calls
<1>3. /\ c \in Conn /\ \A i \in 1..Len(connList) : connList[i] # c
      /\ \A u \in Thread : cmd[u] # c
  BY FreshFacts
<1>4. TypeOK'
  BY <1>1, <1>2, <1>3 DEF TypeOK
<1>5. Cardinality(Lent') = Cardinality(Lent) + 1 /\ Cardinality(Lent) \in Nat
  BY <1>1, <1>2, <1>3, LentOneMore, LentFinite
<1>6. ConnectionsCounted' /\ curSize' + initLeft' <= maxSize
  BY <1>2, <1>5, PoolAssumption DEF ConnectionsCounted, TypeOK
<1>7. NoSharedConnection'
  <2>1. \A u \in Thread : cmd'[u] = IF u = t THEN c ELSE cmd[u]
    BY <1>1 DEF TypeOK
  <2> QED
    BY <2>1, <1>2, <1>3 DEF NoSharedConnection, Lent
<1> QED
  BY <1>2, <1>4, <1>6, <1>7 DEF RefusalNeedsOutage

\* Nothing is idle: with the server up all places are taken, by other threads.
LEMMA PoolGetNull ==
    ASSUME PoolInv, NEW t \in Thread, GetNull(t)
    PROVE  PoolInv'
<1> USE DEF PoolInv
<1>1. /\ UNCHANGED <<connList, curSize, initLeft, cmd, closed, dbUp, outage>>
      /\ process' = "refused" /\ cmd[t] = Null /\ connList = <<>>
      /\ curSize < maxSize => dbUp # "up"
  BY DEF GetNull, Calls, Connects
<1>2. Lent' = Lent
  BY <1>1 DEF Lent
<1>3. TypeOK' /\ NoSharedConnection' /\ ConnectionsCounted'
  BY <1>1, <1>2 DEF TypeOK, NoSharedConnection, ConnectionsCounted
<1>4. Cardinality(Thread) <= maxSize => outage
  <2>1. Cardinality(Lent) \in Nat /\ Cardinality(Thread) \in Nat
        /\ Cardinality(Lent) < Cardinality(Thread)
    BY <1>1, LentFinite
  <2>2. Cardinality(Thread) <= maxSize => curSize < maxSize
    BY <2>1, <1>1, PoolAssumption DEF ConnectionsCounted, TypeOK
  <2> QED
    BY <2>2, <1>1 DEF TypeOK
<1> QED
  BY <1>1, <1>3, <1>4 DEF RefusalNeedsOutage

\* The connection goes back to the end of the list.
LEMMA PoolRelease ==
    ASSUME PoolInv, NEW t \in Thread, ReleaseConnection(t)
    PROVE  PoolInv'
<1> USE DEF PoolInv
<1>1. /\ UNCHANGED <<curSize, initLeft, closed, dbUp, process, outage>>
      /\ cmd[t] # Null /\ cmd[t] \in Conn
      /\ connList' = Append(connList, cmd[t]) /\ cmd' = [cmd EXCEPT ![t] = Null]
  BY DEF ReleaseConnection, TypeOK
<1>2. /\ connList' \in Seq(Conn) /\ Len(connList') = Len(connList) + 1
      /\ \A i \in 1..Len(connList) : connList'[i] = connList[i]
      /\ connList'[Len(connList) + 1] = cmd[t] /\ Len(connList) \in Nat
  BY <1>1, AppendFacts DEF TypeOK
<1>3. TypeOK'
  BY <1>1, <1>2 DEF TypeOK
<1>4. Cardinality(Lent') = Cardinality(Lent) - 1 /\ Cardinality(Lent) \in Nat
  BY <1>1, LentOneLess, LentFinite
<1>5. ConnectionsCounted' /\ curSize' + initLeft' <= maxSize
  BY <1>1, <1>2, <1>4, PoolAssumption DEF ConnectionsCounted, TypeOK
<1>6. NoSharedConnection'
  <2>1. \A u \in Thread : cmd'[u] = IF u = t THEN Null ELSE cmd[u]
    BY <1>1 DEF TypeOK
  <2>2. \A i \in 1..Len(connList') : connList'[i] \in Conn
    BY <1>2
  <2>3. \A i \in 1..Len(connList') : i \in 1..Len(connList) \/ i = Len(connList) + 1
    BY <1>2
  <2>4. \A i, j \in 1..Len(connList') : connList'[i] = connList'[j] => i = j
    BY <1>1, <1>2, <2>3 DEF NoSharedConnection
  <2>5. ASSUME NEW i \in 1..Len(connList'), NEW u \in Thread
        PROVE  connList'[i] # cmd'[u]
    <3>1. CASE u = t
      BY <3>1, <2>1, <2>2, PoolAssumption
    <3>2. CASE u # t /\ i \in 1..Len(connList)
      BY <3>2, <2>1, <1>2 DEF NoSharedConnection
    <3>3. CASE u # t /\ i = Len(connList) + 1
      BY <3>3, <2>1, <1>1, <1>2 DEF NoSharedConnection, Lent
    <3> QED
      BY <3>1, <3>2, <3>3, <2>3
  <2>6. \A u, v \in Lent' : cmd'[u] = cmd'[v] => u = v
    BY <2>1 DEF NoSharedConnection, Lent
  <2> QED
    BY <2>4, <2>5, <2>6 DEF NoSharedConnection
<1> QED
  BY <1>1, <1>3, <1>5, <1>6 DEF RefusalNeedsOutage

\* The other steps move no connection.
LEMMA PoolOthers ==
    ASSUME PoolInv,
           \/ \E t \in Thread : DeleteUnassigned(t)
           \/ ServerDown \/ ServerUp \/ \E c \in Conn : ServerCloses(c)
           \/ UNCHANGED vars
    PROVE  PoolInv'
<1> USE DEF PoolInv
<1>1. UNCHANGED <<connList, curSize, initLeft, cmd>>
  BY DEF DeleteUnassigned, ServerDown, ServerUp, ServerCloses, vars
<1>2. Lent' = Lent
  BY <1>1 DEF Lent
<1>3. NoSharedConnection' /\ ConnectionsCounted' /\ curSize' + initLeft' <= maxSize
  BY <1>1, <1>2 DEF NoSharedConnection, ConnectionsCounted
<1>4. Idle \subseteq Conn /\ {cmd[t] : t \in Lent} \subseteq Conn
  BY DEF Idle, Lent, TypeOK
<1>5. closed' \in SUBSET Conn
  BY <1>4 DEF DeleteUnassigned, ServerDown, ServerUp, ServerCloses, vars, TypeOK
<1>6. /\ dbUp' \in {"up", "down"} /\ process' \in {"running", "refused", "crashed"}
      /\ outage' \in BOOLEAN /\ (dbUp' = "down" => outage')
      /\ outage => outage'
      /\ process' = "refused" => process = "refused"
  BY DEF DeleteUnassigned, ServerDown, ServerUp, ServerCloses, vars, TypeOK
<1>7. TypeOK'
  BY <1>1, <1>5, <1>6 DEF TypeOK
<1>8. RefusalNeedsOutage'
  BY <1>6 DEF RefusalNeedsOutage
<1> QED
  BY <1>3, <1>6, <1>7, <1>8

----------------------------------------------------------------------------
(* The theorems *)

\* Every step of the pool, of its users and of the server keeps the invariant.
LEMMA PoolInductive == Spec => []PoolInv
<1>1. PoolInv /\ [Next]_vars => PoolInv'
  BY PoolInitConnection, PoolGetFront, PoolGetLost, PoolGetNew, PoolGetNull, PoolRelease,
     PoolOthers DEF Next
<1> QED
  BY PoolInit, <1>1, PTL DEF Spec

\* The variables of the pool have their types.
THEOREM PoolTypes == Spec => []TypeOK
  BY PoolInductive, PTL DEF PoolInv

\* GetConnection never gives a connection to two threads, and none that is in connList,
\* also when a replaced object gets the address of the one just deleted.
THEOREM ConnectionsAreUnshared == Spec => []NoSharedConnection
  BY PoolInductive, PTL DEF PoolInv

\* curSize is exact: GetConnection and ReleaseConnection lose and leak no connection.
THEOREM CountIsExact == Spec => []ConnectionsCounted
  BY PoolInductive, PTL DEF PoolInv

\* A pool with a place for every thread returns NULL only after an outage.
THEOREM OnlyOutagesRefuse == Spec => []RefusalNeedsOutage
  BY PoolInductive, PTL DEF PoolInv

=============================================================================

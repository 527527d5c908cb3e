--------------------------- MODULE CallTaskProofs ---------------------------
(***************************************************************************)
(* The predictive dialler, for any number of tasks, agents, rows and       *)
(* messages: a hang-up is not lost on a task, m_tasklist holds the tasks   *)
(* that exist and no other, and Deletetask runs past its end only when a   *)
(* second task is in it.                                                   *)
(*                                                                         *)
(* The list Deletetask leaves is a recursive function.  That it is defined *)
(* and what it holds is proved by induction over a set of numbers, which   *)
(* needs no operator as a parameter.                                       *)
(***************************************************************************)
EXTENDS CallTask, WellFoundedInduction, TLAPS

----------------------------------------------------------------------------
(* Induction *)

\* A set of numbers that has 0 and the successor of each member has them all.
LEMMA SetInduction ==
    ASSUME NEW T \in SUBSET Nat, 0 \in T, \A n \in T : n + 1 \in T
    PROVE  T = Nat
<1> SUFFICES ASSUME T # Nat PROVE FALSE
  OBVIOUS
<1> DEFINE C == Nat \ T
           R == {ss \in Nat \X Nat : ss[1] < ss[2]}
<1>1. IsWellFoundedOn(R, Nat)
  BY NatLessThanWellFounded DEF OpToRel
<1>2. C \in SUBSET Nat /\ C # {}
  OBVIOUS
<1>3. PICK m \in C : \A k \in C : ~ (<<k, m>> \in R)
  <2> HIDE DEF R, C
  <2> QED
    BY <1>1, <1>2, WFMin
<1>4. m \in Nat /\ m # 0 /\ m - 1 \in Nat /\ m - 1 < m
  BY <1>3
<1>5. m - 1 \notin C
  BY <1>3, <1>4
<1>6. m - 1 \in T /\ m - 1 + 1 = m
  BY <1>4, <1>5
<1> QED
  BY <1>3, <1>6

----------------------------------------------------------------------------
(* Deletetask *)

\* What one place of the list adds to what is kept.
KeepStep(v, i) == IF i \in Deleted THEN v ELSE Append(v, m_tasklist[i])

\* The recursive function exists, so its equation holds.
LEMMA KeptEquation ==
    /\ KeptUpTo[0] = <<>>
    /\ \A i \in Nat \ {0} : KeptUpTo[i] = KeepStep(KeptUpTo[i - 1], i)
<1> DEFINE Approx(n, g) == /\ g[0] = <<>>
                           /\ \A i \in 1..n : g[i] = KeepStep(g[i - 1], i)
           T == {n \in Nat : \E g : Approx(n, g)}
           G(n) == CHOOSE g : Approx(n, g)
           f == [n \in Nat |-> G(n)[n]]
<1> HIDE DEF KeepStep
<1>1. T = Nat
  <2>1. 0 \in T
    <3>1. Approx(0, [i \in {0} |-> <<>>])
      OBVIOUS
    <3> QED
      BY <3>1
  <2>2. ASSUME NEW n \in T PROVE n + 1 \in T
    <3>1. PICK g : Approx(n, g)
      OBVIOUS
    <3> DEFINE h == [i \in 0..n + 1 |-> IF i <= n THEN g[i] ELSE KeepStep(g[n], n + 1)]
    <3>2. n \in Nat
      OBVIOUS
    <3>3. h[0] = <<>>
      BY <3>1, <3>2
    <3>4. ASSUME NEW i \in 1..n + 1 PROVE h[i] = KeepStep(h[i - 1], i)
      <4>1. CASE i <= n
        <5>1. i \in 1..n /\ i - 1 <= n /\ i \in 0..n + 1 /\ i - 1 \in 0..n + 1
          BY <3>2, <4>1
        <5>2. g[i] = KeepStep(g[i - 1], i)
          BY <3>1, <5>1
        <5> QED
          BY <4>1, <5>1, <5>2
      <4>2. CASE ~(i <= n)
        <5>1. i = n + 1 /\ i - 1 = n /\ i \in 0..n + 1 /\ i - 1 \in 0..n + 1 /\ n <= n
          BY <3>2, <4>2
        <5> QED
          BY <4>2, <5>1
      <4> QED
        BY <4>1, <4>2
    <3>5. Approx(n + 1, h)
      BY <3>3, <3>4
    <3> HIDE DEF h
    <3> QED
      BY <3>2, <3>5
  <2> HIDE DEF T
  <2>3. T \in SUBSET Nat
    BY DEF T
  <2> QED
    BY <2>1, <2>2, <2>3, SetInduction
<1>2. ASSUME NEW n \in Nat, NEW g, NEW h, Approx(n, g), Approx(n, h)
      PROVE  g[n] = h[n]
  <2> DEFINE U == {i \in Nat : i <= n => g[i] = h[i]}
  <2>1. 0 \in U
    BY <1>2
  <2>2. ASSUME NEW i \in U PROVE i + 1 \in U
    <3> SUFFICES ASSUME i + 1 <= n PROVE g[i + 1] = h[i + 1]
      BY <2>2
    <3>1. i \in Nat /\ i + 1 \in 1..n /\ i + 1 - 1 = i /\ i <= n
      BY <1>2
    <3>2. g[i] = h[i]
      BY <3>1
    <3>3. g[i + 1] = KeepStep(g[i], i + 1) /\ h[i + 1] = KeepStep(h[i], i + 1)
      BY <1>2, <3>1
    <3> QED
      BY <3>2, <3>3
  <2>3. U = Nat
    <3>1. U \in SUBSET Nat
      OBVIOUS
    <3> HIDE DEF U
    <3> QED
      BY <2>1, <2>2, <3>1, SetInduction
  <2> QED
    BY <1>2, <2>3
<1>3. \A n \in Nat : Approx(n, G(n))
  <2> SUFFICES ASSUME NEW n \in Nat PROVE Approx(n, G(n))
    OBVIOUS
  <2>1. \E g : Approx(n, g)
    BY <1>1
  <2> HIDE DEF Approx
  <2> QED
    BY <2>1
<1>4. f[0] = <<>>
  BY <1>3
<1>5. ASSUME NEW i \in Nat, i # 0 PROVE f[i] = KeepStep(f[i - 1], i)
  <2>1. i - 1 \in Nat /\ i \in 1..i /\ \A j \in 1..i - 1 : j \in 1..i
    BY <1>5
  <2>2. Approx(i, G(i)) /\ Approx(i - 1, G(i - 1))
    BY <1>3, <2>1
  <2>3. Approx(i - 1, G(i))
    BY <2>1, <2>2
  <2>4. G(i)[i - 1] = G(i - 1)[i - 1]
    <3> HIDE DEF Approx, G
    <3> QED
      BY <1>2, <2>1, <2>2, <2>3
  <2>5. G(i)[i] = KeepStep(G(i)[i - 1], i)
    BY <2>1, <2>2
  <2> HIDE DEF G
  <2> QED
    BY <2>1, <2>4, <2>5
<1>6. f = [i \in Nat |-> IF i = 0 THEN <<>>
                         ELSE IF i \in Deleted THEN f[i - 1]
                         ELSE Append(f[i - 1], m_tasklist[i])]
  <2>1. f = [i \in Nat |-> f[i]]
    OBVIOUS
  <2> HIDE DEF f
  <2>2. \A i \in Nat : f[i] = IF i = 0 THEN <<>> ELSE KeepStep(f[i - 1], i)
    BY <1>4, <1>5
  <2> QED
    BY <2>1, <2>2 DEF KeepStep
<1> HIDE DEF f
<1>7. KeptUpTo = [i \in Nat |-> IF i = 0 THEN <<>>
                                ELSE IF i \in Deleted THEN KeptUpTo[i - 1]
                                ELSE Append(KeptUpTo[i - 1], m_tasklist[i])]
  BY <1>6, Zenon DEF KeptUpTo
<1> QED
  BY <1>7 DEF KeepStep

\* The list holds each task once.
Distinct(s) == \A i, j \in 1..Len(s) : s[i] = s[j] => i = j

\* What Deletetask keeps: the tasks of the places it does not erase, each once.
LEMMA KeptFacts ==
    ASSUME m_tasklist \in Seq(Task)
    PROVE  /\ Kept \in Seq(Task)
           /\ \A t : (\E j \in 1..Len(Kept) : Kept[j] = t)
                     <=> \E k \in 1..Len(m_tasklist) : k \notin Deleted /\ m_tasklist[k] = t
           /\ Distinct(m_tasklist) => Distinct(Kept)
<1> DEFINE n == Len(m_tasklist)
           K(i) == KeptUpTo[i]
           Good(i) ==
              /\ K(i) \in Seq(Task)
              /\ \A t : (\E j \in 1..Len(K(i)) : K(i)[j] = t)
                        <=> \E k \in 1..i : k \notin Deleted /\ m_tasklist[k] = t
              /\ Distinct(m_tasklist) => Distinct(K(i))
           T == {i \in Nat : i <= n => Good(i)}
<1>1. n \in Nat /\ \A k \in 1..n : m_tasklist[k] \in Task
  OBVIOUS
<1>2. 0 \in T
  <2>1. K(0) = <<>>
    BY KeptEquation
  <2>2. Good(0)
    BY <2>1 DEF Distinct
  <2> QED
    BY <2>2
<1>3. ASSUME NEW i \in T PROVE i + 1 \in T
  <2> SUFFICES ASSUME i + 1 <= n PROVE Good(i + 1)
    BY <1>3
  <2>1. i \in Nat /\ i <= n /\ i + 1 \in 1..n /\ i + 1 # 0 /\ i + 1 - 1 = i
    BY <1>1
  <2>2. Good(i)
    BY <2>1
  <2>3. K(i + 1) = KeepStep(K(i), i + 1)
    BY <2>1, KeptEquation
  <2>4. PICK u, v : u = K(i) /\ v = K(i + 1)
    OBVIOUS
  <2> HIDE DEF K, n
  <2>5. CASE i + 1 \in Deleted
    <3>1. v = u
      BY <2>3, <2>4, <2>5 DEF KeepStep
    <3>2. \A t : (\E k \in 1..i + 1 : k \notin Deleted /\ m_tasklist[k] = t)
                 <=> \E k \in 1..i : k \notin Deleted /\ m_tasklist[k] = t
      BY <2>1, <2>5
    <3> QED
      BY <2>2, <2>4, <3>1, <3>2
  <2>6. CASE i + 1 \notin Deleted
    <3>1. v = Append(u, m_tasklist[i + 1]) /\ m_tasklist[i + 1] \in Task
      BY <1>1, <2>1, <2>3, <2>4, <2>6 DEF KeepStep
    <3>2. u \in Seq(Task) /\ Len(u) \in Nat
      BY <2>2, <2>4
    <3>3. /\ v \in Seq(Task) /\ Len(v) = Len(u) + 1 /\ v[Len(u) + 1] = m_tasklist[i + 1]
          /\ \A j \in 1..Len(u) : v[j] = u[j]
      BY <3>1, <3>2
    <3>4. \A t : (\E j \in 1..Len(u) : u[j] = t)
                 <=> \E k \in 1..i : k \notin Deleted /\ m_tasklist[k] = t
      BY <2>2, <2>4
    <3>5. \A t : (\E j \in 1..Len(v) : v[j] = t)
                 <=> ((\E j \in 1..Len(u) : u[j] = t) \/ m_tasklist[i + 1] = t)
      <4>1. \A j \in 1..Len(v) : j \in 1..Len(u) \/ j = Len(u) + 1
        BY <3>2, <3>3
      <4>2. /\ \A j \in 1..Len(u) : j \in 1..Len(v)
            /\ Len(u) + 1 \in 1..Len(v)
        BY <3>2, <3>3
      <4> QED
        BY <3>3, <4>1, <4>2
    <3>6. \A t : (\E k \in 1..i + 1 : k \notin Deleted /\ m_tasklist[k] = t)
                 <=> ((\E k \in 1..i : k \notin Deleted /\ m_tasklist[k] = t)
                      \/ m_tasklist[i + 1] = t)
      <4>1. \A k \in 1..i + 1 : k \in 1..i \/ k = i + 1
        BY <2>1
      <4>2. i + 1 \in 1..i + 1 /\ \A k \in 1..i : k \in 1..i + 1
        BY <2>1
      <4> QED
        BY <2>6, <4>1, <4>2
    <3>7. ASSUME Distinct(m_tasklist) PROVE Distinct(v)
      <4>1. Distinct(u)
        BY <2>2, <2>4, <3>7
      <4>2. ASSUME NEW j \in 1..Len(u), u[j] = m_tasklist[i + 1] PROVE FALSE
        <5>1. PICK k \in 1..i : m_tasklist[k] = m_tasklist[i + 1]
          BY <3>4, <4>2
        <5>2. k \in 1..Len(m_tasklist) /\ i + 1 \in 1..Len(m_tasklist) /\ k # i + 1
          BY <1>1, <2>1 DEF n
        <5> QED
          BY <3>7, <5>1, <5>2 DEF Distinct
      <4>3. \A j \in 1..Len(v) : j \in 1..Len(u) \/ j = Len(u) + 1
        BY <3>2, <3>3
      <4> QED
        BY <3>3, <4>1, <4>2, <4>3 DEF Distinct
    <3>8. \A t : (\E j \in 1..Len(v) : v[j] = t)
                 <=> \E k \in 1..i + 1 : k \notin Deleted /\ m_tasklist[k] = t
      BY <3>4, <3>5, <3>6
    <3> QED
      BY <2>4, <3>3, <3>7, <3>8
  <2> QED
    BY <2>5, <2>6
<1>4. T = Nat
  <2>1. T \in SUBSET Nat
    OBVIOUS
  <2> HIDE DEF T
  <2> QED
    BY <1>2, <1>3, <2>1, SetInduction
<1>5. Good(n)
  <2>1. n <= n
    BY <1>1
  <2>2. \A i \in Nat : i <= n => Good(i)
    <3> HIDE DEF Good, n
    <3> QED
      BY <1>4
  <2> HIDE DEF Good, n
  <2> QED
    BY <1>1, <2>1, <2>2
<1> QED
  BY <1>5 DEF Kept

----------------------------------------------------------------------------
(* The inductive invariant *)

TaskRecord == [at : Place, company : Company, id : TaskId, m_rate : Int,
               num : Int, acc : Nat, pos : Nat \ {0}, first : BOOLEAN, left : 0..NRow]

TaskInv == TypeOK /\ HangupReachesTask /\ ListedTasksExist /\ CrashNeedsTwoTasks

\* The record of an address without an object.
LEMMA NoTaskType == NoTask \in TaskRecord /\ NoTask.at = "free"
<1>1. /\ (CHOOSE c \in Company : TRUE) \in Company
      /\ (CHOOSE i \in TaskId : TRUE) \in TaskId
  BY CallTaskAssumption
<1>2. 0 \in 0..NRow /\ 0 \in Nat /\ 0 \in Int /\ 1 \in Int /\ 1 \in Nat \ {0}
  BY CallTaskAssumption
<1>3. "free" \in Place
  BY DEF Place
<1> QED
  BY <1>1, <1>2, <1>3 DEF NoTask, TaskRecord

\* The tasks Deletetask erases have finished; the others stay as they are.
LEMMA DeleteFacts ==
    ASSUME TypeOK, ListedTasksExist
    PROVE  LET after == AfterDelete(task, NoTask)
               erased == {t \in Task : \E i \in Deleted : m_tasklist[i] = t} IN
           /\ after \in [Task -> TaskRecord]
           /\ \A t \in erased : after[t] = NoTask /\ task[t].at = "finish"
           /\ \A t \in Task \ erased : after[t] = task[t]
           /\ Kept \in Seq(Task) /\ Distinct(Kept)
           /\ {Kept[j] : j \in 1..Len(Kept)} = {t \in Task : after[t].at # "free"}
<1> DEFINE after == AfterDelete(task, NoTask)
           erased == {t \in Task : \E i \in Deleted : m_tasklist[i] = t}
<1>1. /\ task \in [Task -> TaskRecord] /\ m_tasklist \in Seq(Task)
      /\ Distinct(m_tasklist)
      /\ \A t \in Task : task[t].at # "free"
                         <=> \E i \in 1..Len(m_tasklist) : m_tasklist[i] = t
  <2>1. task \in [Task -> TaskRecord] /\ m_tasklist \in Seq(Task)
    BY Zenon DEF TypeOK, TaskRecord
  <2>2. Distinct(m_tasklist)
    BY DEF ListedTasksExist, Distinct
  <2>3. \A t \in Task : task[t].at # "free"
                         <=> t \in {m_tasklist[i] : i \in 1..Len(m_tasklist)}
    BY DEF ListedTasksExist
  <2> QED
    BY <2>1, <2>2, <2>3
<1>2. Deleted \subseteq 1..Len(m_tasklist) /\ \A i \in Deleted : task[m_tasklist[i]].at = "finish"
  BY DEF Deleted, Finished
<1>3. after = [t \in Task |-> IF t \in erased THEN NoTask ELSE task[t]]
  BY DEF AfterDelete
<1>4. after \in [Task -> TaskRecord]
  BY <1>1, <1>3, NoTaskType
<1>5. \A t \in erased : after[t] = NoTask /\ task[t].at = "finish"
  BY <1>2, <1>3
<1>6. \A t \in Task \ erased : after[t] = task[t]
  BY <1>3
<1>7. /\ Kept \in Seq(Task) /\ Distinct(Kept)
      /\ \A t : (\E j \in 1..Len(Kept) : Kept[j] = t)
                <=> \E k \in 1..Len(m_tasklist) : k \notin Deleted /\ m_tasklist[k] = t
  BY <1>1, KeptFacts
<1>8. \A t \in Task : (\E k \in 1..Len(m_tasklist) : k \notin Deleted /\ m_tasklist[k] = t)
                      <=> after[t].at # "free"
  <2> SUFFICES ASSUME NEW t \in Task
               PROVE  (\E k \in 1..Len(m_tasklist) : k \notin Deleted /\ m_tasklist[k] = t)
                      <=> after[t].at # "free"
    OBVIOUS
  <2>1. CASE t \in erased
    <3>1. PICK i \in Deleted : m_tasklist[i] = t
      BY <2>1
    <3>2. \A k \in 1..Len(m_tasklist) : m_tasklist[k] = t => k = i
      BY <1>1, <1>2, <3>1 DEF Distinct
    <3> HIDE DEF after
    <3> QED
      BY <1>5, <2>1, <3>1, <3>2, NoTaskType
  <2>2. CASE t \notin erased
    <3>1. \A k \in 1..Len(m_tasklist) : m_tasklist[k] = t => k \notin Deleted
      BY <2>2
    <3> HIDE DEF after
    <3> QED
      BY <1>1, <1>6, <2>2, <3>1
  <2> QED
    BY <2>1, <2>2
<1>9. {Kept[j] : j \in 1..Len(Kept)} = {t \in Task : after[t].at # "free"}
  <2>1. \A j \in 1..Len(Kept) : Kept[j] \in Task
    BY <1>7
  <2> HIDE DEF after
  <2> QED
    BY <1>7, <1>8, <2>1
<1> QED
  BY <1>4, <1>5, <1>6, <1>7, <1>9

----------------------------------------------------------------------------
(* The steps *)

\* The list and the tasks agree after a message that only deletes tasks and writes
\* fields other than at.
LEMMA ListedAfter ==
    ASSUME TypeOK, ListedTasksExist, m_tasklist' = Kept,
           task' \in [Task -> TaskRecord],
           \A t \in Task : task'[t].at = AfterDelete(task, NoTask)[t].at
    PROVE  ListedTasksExist' /\ m_tasklist' \in Seq(Task)
<1> DEFINE after == AfterDelete(task, NoTask)
<1>1. /\ Kept \in Seq(Task) /\ Distinct(Kept)
      /\ {Kept[j] : j \in 1..Len(Kept)} = {t \in Task : after[t].at # "free"}
  BY DeleteFacts
<1> HIDE DEF after
<1>2. {t \in Task : after[t].at # "free"} = {t \in Task : task'[t].at # "free"}
  BY DEF after
<1> QED
  BY <1>1, <1>2 DEF ListedTasksExist, Distinct

\* A hang-up is as known as it was to tasks that run no more than they did.
LEMMA HangupFrame ==
    ASSUME HangupReachesTask, UNCHANGED <<m_calloutsema, signalDue>>,
           \A t \in Task : task'[t].at \in {"count", "loop", "wait"} =>
              \/ freed'[t] = {}
              \/ /\ task[t].at \in {"count", "loop", "wait"}
                 /\ freed'[t] = freed[t] /\ stolen'[t] = stolen[t]
    PROVE  HangupReachesTask'
  BY DEF HangupReachesTask

\* The messages of the task server.
LEMMA MessagesStep ==
    ASSUME TaskInv, Messages
    PROVE  TaskInv'
<1> DEFINE after == AfterDelete(task, NoTask)
           erased == {t \in Task : \E i \in Deleted : m_tasklist[i] = t}
<1>1. TypeOK /\ HangupReachesTask /\ ListedTasksExist /\ CrashNeedsTwoTasks
  BY DEF TaskInv
<1>2. /\ after \in [Task -> TaskRecord]
      /\ \A t \in erased : after[t] = NoTask /\ task[t].at = "finish"
      /\ \A t \in Task \ erased : after[t] = task[t]
      /\ Kept \in Seq(Task) /\ Distinct(Kept)
      /\ {Kept[j] : j \in 1..Len(Kept)} = {t \in Task : after[t].at # "free"}
  BY <1>1, DeleteFacts
<1>3. /\ Message
      /\ UNCHANGED <<ready, m_calloutsema, signalDue, legs>> /\ process = "running"
  BY DEF Messages, DeletetaskCrashes, OtherMessage, CreateTask, SetCallrate, Message
<1>4. msgs' \in 0..MaxMsg
  BY <1>1, <1>3, CallTaskAssumption DEF Message, TypeOK
<1>5. \A t \in Task : after[t].at \in {"count", "loop", "wait"}
                      => task[t].at = after[t].at
  <2> HIDE DEF after
  <2> QED
    BY <1>2, NoTaskType
<1>6. ASSUME task' \in [Task -> TaskRecord], m_tasklist' \in Seq(Task),
             process' \in {"running", "crashed"},
             freed' \in [Task -> SUBSET Agent], stolen' \in [Task -> BOOLEAN]
      PROVE  TypeOK'
  <2>1. /\ ready' \subseteq Agent
        /\ m_calloutsema' \in Nat /\ signalDue' \in BOOLEAN /\ legs' \in 0..MaxLeg
    BY <1>1, <1>3 DEF TypeOK
  <2> QED
    BY <1>4, <1>6, <2>1, Zenon DEF TypeOK, TaskRecord
<1>7. task \in [Task -> TaskRecord]
  BY <1>1, Zenon DEF TypeOK, TaskRecord
<1>8. CASE DeletetaskCrashes
  <2>1. /\ process' = "crashed" /\ UNCHANGED <<m_tasklist, task, freed, stolen>>
        /\ RunsPastEnd
    BY <1>8 DEF DeletetaskCrashes
  <2>2. TypeOK'
    <3>1. /\ m_tasklist \in Seq(Task)
          /\ freed \in [Task -> SUBSET Agent] /\ stolen \in [Task -> BOOLEAN]
      BY <1>1, Zenon DEF TypeOK
    <3> QED
      BY <1>6, <1>7, <2>1, <3>1
  <2>3. HangupReachesTask' /\ ListedTasksExist'
    BY <1>1, <1>3, <2>1 DEF HangupReachesTask, ListedTasksExist
  <2>4. Len(m_tasklist) >= 2
    <3>1. m_tasklist \in Seq(Task) /\ Len(m_tasklist) \in Nat
      BY <1>1 DEF TypeOK
    <3>2. /\ Len(m_tasklist) \in Deleted /\ Kept # <<>>
          /\ Deleted \subseteq 1..Len(m_tasklist)
      BY <2>1 DEF RunsPastEnd, Deleted
    <3>3. Len(Kept) # 0
      BY <1>2, <3>2
    <3>4. 1 \in 1..Len(Kept)
      BY <1>2, <3>3
    <3>5. \E k \in 1..Len(m_tasklist) : k \notin Deleted /\ m_tasklist[k] = Kept[1]
      BY <3>1, <3>4, KeptFacts
    <3>6. PICK k \in 1..Len(m_tasklist) : k \notin Deleted
      BY <3>5
    <3> QED
      BY <3>1, <3>2, <3>6
  <2>5. CrashNeedsTwoTasks'
    BY <2>1, <2>4 DEF CrashNeedsTwoTasks
  <2> QED
    BY <2>2, <2>3, <2>5 DEF TaskInv
<1>9. CASE OtherMessage
  <2>1. m_tasklist' = Kept /\ task' = after /\ UNCHANGED <<process, freed, stolen>>
    BY <1>9 DEF OtherMessage, Deletetask
  <2> HIDE DEF after
  <2>2. ListedTasksExist' /\ m_tasklist' \in Seq(Task)
    BY <1>1, <1>2, <2>1, ListedAfter DEF after
  <2>3. TypeOK'
    <3>1. /\ process \in {"running", "crashed"}
          /\ freed \in [Task -> SUBSET Agent] /\ stolen \in [Task -> BOOLEAN]
      BY <1>1, Zenon DEF TypeOK
    <3> QED
      BY <1>2, <1>6, <2>1, <2>2, <3>1
  <2>4. HangupReachesTask'
    BY <1>1, <1>3, <1>5, <2>1, HangupFrame
  <2>5. CrashNeedsTwoTasks'
    BY <1>3, <2>1 DEF CrashNeedsTwoTasks
  <2> QED
    BY <2>2, <2>3, <2>4, <2>5 DEF TaskInv
<1>10. ASSUME NEW t \in Task, NEW c \in Company, NEW id \in TaskId, CreateTask(t, c, id)
       PROVE  TaskInv'
  <2> DEFINE new == [NoTask EXCEPT !.at = "count", !.company = c, !.id = id, !.left = NRow]
  <2>1. /\ m_tasklist' = Append(Kept, t) /\ task' = [after EXCEPT ![t] = new]
        /\ freed' = [freed EXCEPT ![t] = {}] /\ stolen' = [stolen EXCEPT ![t] = FALSE]
        /\ process' = process
    BY <1>10 DEF CreateTask
  <2>2. new \in TaskRecord /\ new.at = "count"
    <3>1. NRow \in 0..NRow /\ "count" \in Place
      BY CallTaskAssumption DEF Place
    <3> QED
      BY <3>1, NoTaskType DEF TaskRecord
  <2> HIDE DEF new
  <2>3. after[t].at = "free"
    <3>1. CASE t \in erased
      <4> HIDE DEF after
      <4> QED
        BY <1>2, <3>1, NoTaskType
    <3>2. CASE t \notin erased
      <4>1. task[t].at = "free"
        BY <1>10, <3>2 DEF CreateTask
      <4> HIDE DEF after
      <4> QED
        BY <1>2, <3>2, <4>1
    <3> QED
      BY <3>1, <3>2
  <2> HIDE DEF after
  <2>4. /\ task' \in [Task -> TaskRecord] /\ task'[t].at = "count"
        /\ \A u \in Task \ {t} : task'[u] = after[u]
    BY <1>2, <2>1, <2>2
  <2>5. /\ m_tasklist' \in Seq(Task) /\ Len(m_tasklist') = Len(Kept) + 1 /\ Len(Kept) \in Nat
        /\ m_tasklist'[Len(Kept) + 1] = t
        /\ \A j \in 1..Len(Kept) : m_tasklist'[j] = Kept[j]
    BY <1>2, <2>1
  <2>6. \A j \in 1..Len(Kept) : Kept[j] # t /\ Kept[j] \in Task
    BY <1>2, <2>3
  <2>7. /\ \A j \in 1..Len(m_tasklist') : j \in 1..Len(Kept) \/ j = Len(Kept) + 1
        /\ \A j \in 1..Len(Kept) : j \in 1..Len(m_tasklist')
        /\ Len(Kept) + 1 \in 1..Len(m_tasklist')
    BY <2>5
  <2>8. ListedTasksExist'
    <3>1. \A i, j \in 1..Len(m_tasklist') : m_tasklist'[i] = m_tasklist'[j] => i = j
      BY <1>2, <2>5, <2>6, <2>7 DEF Distinct
    <3>2. \A u \in Task : (\E i \in 1..Len(m_tasklist') : m_tasklist'[i] = u)
                          <=> (u = t \/ \E j \in 1..Len(Kept) : Kept[j] = u)
      BY <2>5, <2>7
    <3>3. \A u \in Task : (\E j \in 1..Len(Kept) : Kept[j] = u) <=> after[u].at # "free"
      BY <1>2
    <3>4. \A u \in Task : task'[u].at # "free" <=> (u = t \/ after[u].at # "free")
      BY <2>4
    <3>5. \A i \in 1..Len(m_tasklist') : m_tasklist'[i] \in Task
      BY <2>5
    <3>6. {m_tasklist'[i] : i \in 1..Len(m_tasklist')} = {u \in Task : task'[u].at # "free"}
      BY <3>2, <3>3, <3>4, <3>5
    <3> QED
      BY <3>1, <3>6 DEF ListedTasksExist
  <2>9. freed \in [Task -> SUBSET Agent] /\ stolen \in [Task -> BOOLEAN]
        /\ process \in {"running", "crashed"}
    BY <1>1, Zenon DEF TypeOK
  <2>10. freed' \in [Task -> SUBSET Agent] /\ stolen' \in [Task -> BOOLEAN]
    BY <2>1, <2>9
  <2>11. TypeOK'
    BY <1>6, <2>1, <2>4, <2>5, <2>9, <2>10
  <2>12. HangupReachesTask'
    <3>1. /\ freed'[t] = {}
          /\ \A u \in Task \ {t} : freed'[u] = freed[u] /\ stolen'[u] = stolen[u]
      BY <2>1, <2>9
    <3>2. \A u \in Task : task'[u].at \in {"count", "loop", "wait"} =>
             \/ freed'[u] = {}
             \/ /\ task[u].at \in {"count", "loop", "wait"}
                /\ freed'[u] = freed[u] /\ stolen'[u] = stolen[u]
      BY <1>5, <2>4, <3>1
    <3> QED
      BY <1>1, <1>3, <3>2, HangupFrame
  <2>13. CrashNeedsTwoTasks'
    BY <1>3, <2>1 DEF CrashNeedsTwoTasks
  <2> QED
    BY <2>8, <2>11, <2>12, <2>13 DEF TaskInv
<1>11. ASSUME NEW id \in TaskId, NEW rate \in Rate, SetCallrate(id, rate)
       PROVE  TaskInv'
  <2>1. /\ m_tasklist' = Kept /\ UNCHANGED <<process, freed, stolen>>
        /\ task' = [t \in Task |->
                      IF after[t].at # "free" /\ after[t].id = id
                      THEN [after[t] EXCEPT !.m_rate = rate] ELSE after[t]]
    BY <1>11 DEF SetCallrate
  <2> HIDE DEF after
  <2>2. rate \in Int
    BY CallTaskAssumption
  <2>3. task' \in [Task -> TaskRecord] /\ \A t \in Task : task'[t].at = after[t].at
    <3>1. ASSUME NEW r \in TaskRecord
          PROVE  [r EXCEPT !.m_rate = rate] \in TaskRecord
                 /\ [r EXCEPT !.m_rate = rate].at = r.at
      BY <2>2 DEF TaskRecord
    <3>2. ASSUME NEW t \in Task PROVE task'[t] \in TaskRecord /\ task'[t].at = after[t].at
      BY <1>2, <2>1, <3>1
    <3>3. task' = [t \in Task |-> task'[t]]
      BY <2>1
    <3> QED
      BY <3>2, <3>3
  <2>4. ListedTasksExist' /\ m_tasklist' \in Seq(Task)
    BY <1>1, <2>1, <2>3, ListedAfter DEF after
  <2>5. TypeOK'
    <3>1. /\ process \in {"running", "crashed"}
          /\ freed \in [Task -> SUBSET Agent] /\ stolen \in [Task -> BOOLEAN]
      BY <1>1, Zenon DEF TypeOK
    <3> QED
      BY <1>6, <2>1, <2>3, <2>4, <3>1
  <2>6. HangupReachesTask'
    BY <1>1, <1>3, <1>5, <2>1, <2>3, HangupFrame
  <2>7. CrashNeedsTwoTasks'
    BY <1>3, <2>1 DEF CrashNeedsTwoTasks
  <2> QED
    BY <2>4, <2>5, <2>6, <2>7 DEF TaskInv
<1> QED
  BY <1>8, <1>9, <1>10, <1>11 DEF Messages

\* A step of run() changes the record of its task, which goes on existing.
LEMMA RunFrame ==
    ASSUME TaskInv, NEW t \in Task, NEW r \in TaskRecord, r.at # "free",
           task[t].at # "free", task' = [task EXCEPT ![t] = r],
           UNCHANGED <<ready, signalDue, legs, m_tasklist, msgs, process>>
    PROVE  /\ task' \in [Task -> TaskRecord]
           /\ task'[t] = r /\ \A u \in Task \ {t} : task'[u] = task[u]
           /\ ListedTasksExist' /\ CrashNeedsTwoTasks'
<1>1. TypeOK /\ ListedTasksExist /\ CrashNeedsTwoTasks
  BY DEF TaskInv
<1>2. task \in [Task -> TaskRecord]
  BY <1>1, Zenon DEF TypeOK, TaskRecord
<1>3. /\ task' \in [Task -> TaskRecord]
      /\ task'[t] = r /\ \A u \in Task \ {t} : task'[u] = task[u]
  BY <1>2
<1>4. {u \in Task : task'[u].at # "free"} = {u \in Task : task[u].at # "free"}
  BY <1>3
<1>5. ListedTasksExist'
  BY <1>1, <1>4 DEF ListedTasksExist
<1>6. CrashNeedsTwoTasks'
  BY <1>1 DEF CrashNeedsTwoTasks
<1> QED
  BY <1>3, <1>5, <1>6

\* A step of run() other than Wake leaves the semaphore and the history alone.
LEMMA RunQuiet ==
    ASSUME TaskInv, NEW t \in Task, NEW r \in TaskRecord, r.at # "free",
           task[t].at # "free",
           r.at \in {"count", "loop", "wait"} => task[t].at \in {"count", "loop", "wait"},
           task' = [task EXCEPT ![t] = r],
           UNCHANGED <<ready, m_calloutsema, signalDue, legs, m_tasklist, msgs, process,
                       freed, stolen>>
    PROVE  TaskInv'
<1>1. /\ task' \in [Task -> TaskRecord]
      /\ task'[t] = r /\ \A u \in Task \ {t} : task'[u] = task[u]
      /\ ListedTasksExist' /\ CrashNeedsTwoTasks'
  BY RunFrame
<1>2. HangupReachesTask'
  <2>1. HangupReachesTask
    BY DEF TaskInv
  <2>2. \A u \in Task : task'[u].at \in {"count", "loop", "wait"}
                        => task[u].at \in {"count", "loop", "wait"}
    BY <1>1
  <2> QED
    BY <2>1, <2>2, HangupFrame
<1>3. TypeOK'
  <2>1. TypeOK
    BY DEF TaskInv
  <2> QED
    BY <1>1, <2>1, Zenon DEF TypeOK, TaskRecord
<1> QED
  BY <1>1, <1>2, <1>3 DEF TaskInv

\* CallTask::run.
LEMMA RunTaskStep ==
    ASSUME TaskInv, NEW t \in Task, RunStep(t)
    PROVE  TaskInv'
<1> DEFINE q == task[t]
<1>1. TypeOK /\ HangupReachesTask
  BY DEF TaskInv
<1>2. task \in [Task -> TaskRecord] /\ q \in TaskRecord
  <2>1. task \in [Task -> TaskRecord]
    BY <1>1, Zenon DEF TypeOK, TaskRecord
  <2> QED
    BY <2>1
<1>3. /\ q.pos \in Nat \ {0} /\ q.acc \in Nat /\ q.num \in Int /\ q.m_rate \in Int
      /\ q.left \in 0..NRow /\ q.first \in BOOLEAN
  BY <1>2 DEF TaskRecord
<1>4. CASE CountAgent(t)
  <2> DEFINE r == [q EXCEPT !.pos = q.pos + 1,
                            !.acc = IF q.pos \in ready /\ Mine(t, q.pos) THEN q.acc + 1 ELSE q.acc]
  <2>1. task' = [task EXCEPT ![t] = r] /\ q.at = "count"
        /\ UNCHANGED <<ready, m_calloutsema, signalDue, legs, m_tasklist, msgs, process,
                       freed, stolen>>
    BY <1>2, <1>4 DEF CountAgent, Runs
  <2>2. r \in TaskRecord /\ r.at = "count"
    <3>1. PICK p \in Nat \ {0} : p = q.pos + 1
      BY <1>3
    <3>2. PICK n \in Nat : n = IF q.pos \in ready /\ Mine(t, q.pos) THEN q.acc + 1 ELSE q.acc
      BY <1>3
    <3>3. r = [q EXCEPT !.pos = p, !.acc = n]
      BY <3>1, <3>2
    <3> HIDE DEF r
    <3> QED
      BY <1>2, <2>1, <3>3 DEF TaskRecord
  <2> HIDE DEF r
  <2> QED
    BY <2>1, <2>2, RunQuiet
<1>5. CASE CountDone(t)
  <2> DEFINE r == [q EXCEPT !.num = IF q.first THEN q.acc ELSE q.acc * q.m_rate,
                            !.first = FALSE, !.at = "loop"]
  <2>1. task' = [task EXCEPT ![t] = r] /\ q.at = "count"
        /\ UNCHANGED <<ready, m_calloutsema, signalDue, legs, m_tasklist, msgs, process,
                       freed, stolen>>
    BY <1>2, <1>5 DEF CountDone, Runs
  <2>2. r \in TaskRecord /\ r.at = "loop"
    <3>1. q.acc * q.m_rate \in Int /\ q.acc \in Int /\ "loop" \in Place
      BY <1>3 DEF Place
    <3> QED
      BY <1>2, <3>1 DEF TaskRecord
  <2> HIDE DEF r
  <2> QED
    BY <2>1, <2>2, RunQuiet
<1>6. CASE Originate(t)
  <2> DEFINE r == [q EXCEPT !.num = q.num - 1, !.left = q.left - 1]
  <2>1. task' = [task EXCEPT ![t] = r] /\ q.at = "loop" /\ q.left > 0
        /\ UNCHANGED <<ready, m_calloutsema, signalDue, legs, m_tasklist, msgs, process,
                       freed, stolen>>
    BY <1>2, <1>6 DEF Originate, Runs
  <2>2. r \in TaskRecord /\ r.at = "loop"
    <3>1. q.num - 1 \in Int /\ q.left - 1 \in 0..NRow
      BY <1>3, <2>1, CallTaskAssumption
    <3> QED
      BY <1>2, <2>1, <3>1 DEF TaskRecord
  <2> HIDE DEF r
  <2> QED
    BY <2>1, <2>2, RunQuiet
<1>7. CASE Waitcalloutsema(t)
  <2> DEFINE r == [q EXCEPT !.at = "wait"]
  <2>1. task' = [task EXCEPT ![t] = r] /\ q.at = "loop"
        /\ UNCHANGED <<ready, m_calloutsema, signalDue, legs, m_tasklist, msgs, process,
                       freed, stolen>>
    BY <1>2, <1>7 DEF Waitcalloutsema, Runs
  <2>2. r \in TaskRecord /\ r.at = "wait"
    BY <1>2 DEF TaskRecord, Place
  <2> HIDE DEF r
  <2> QED
    BY <2>1, <2>2, RunQuiet
<1>8. CASE Finish(t)
  <2> DEFINE r == [q EXCEPT !.at = "finish"]
  <2>1. task' = [task EXCEPT ![t] = r] /\ q.at = "loop"
        /\ UNCHANGED <<ready, m_calloutsema, signalDue, legs, m_tasklist, msgs, process,
                       freed, stolen>>
    BY <1>2, <1>8 DEF Finish, Runs
  <2>2. r \in TaskRecord /\ r.at = "finish"
    BY <1>2 DEF TaskRecord, Place
  <2> HIDE DEF r
  <2> QED
    BY <2>1, <2>2, RunQuiet
<1>9. CASE Wake(t)
  <2> DEFINE r == [q EXCEPT !.at = "count", !.pos = 1, !.acc = 0]
  <2>1. /\ task' = [task EXCEPT ![t] = r] /\ q.at = "wait"
        /\ UNCHANGED <<ready, signalDue, legs, m_tasklist, msgs, process>>
        /\ m_calloutsema > 0 /\ m_calloutsema' = m_calloutsema - 1
        /\ freed' = [freed EXCEPT ![t] = {}]
        /\ stolen' = [u \in Task |-> u # t /\ (stolen[u] \/ freed[u] # {})]
    BY <1>2, <1>9 DEF Wake, Runs
  <2>2. r \in TaskRecord /\ r.at = "count"
    <3>1. 1 \in Nat \ {0} /\ 0 \in Nat /\ "count" \in Place
      BY DEF Place
    <3> QED
      BY <1>2, <3>1 DEF TaskRecord
  <2> HIDE DEF r
  <2>3. /\ task' \in [Task -> TaskRecord] /\ ListedTasksExist' /\ CrashNeedsTwoTasks'
    BY <2>1, <2>2, RunFrame
  <2>4. freed \in [Task -> SUBSET Agent] /\ m_calloutsema \in Nat
    BY <1>1 DEF TypeOK
  <2>5. /\ freed' \in [Task -> SUBSET Agent] /\ m_calloutsema' \in Nat
        /\ freed'[t] = {} /\ \A u \in Task \ {t} : freed'[u] = freed[u]
    BY <2>1, <2>4
  <2>6. stolen' \in [Task -> BOOLEAN]
    BY <2>1, Zenon
  <2>7. HangupReachesTask'
    <3>1. \A u \in Task : freed'[u] # {} => stolen'[u]
      BY <2>1, <2>5
    <3> QED
      BY <3>1 DEF HangupReachesTask
  <2>8. TypeOK'
    BY <1>1, <2>1, <2>3, <2>5, <2>6, Zenon DEF TypeOK, TaskRecord
  <2> QED
    BY <2>3, <2>7, <2>8 DEF TaskInv
<1> QED
  BY <1>4, <1>5, <1>6, <1>7, <1>8, <1>9 DEF RunStep

\* The agents and the event thread.
LEMMA AgentsStep ==
    ASSUME TaskInv, Agents
    PROVE  TaskInv'
<1>1. TypeOK /\ HangupReachesTask /\ ListedTasksExist /\ CrashNeedsTwoTasks
  BY DEF TaskInv
<1>2. UNCHANGED <<m_tasklist, msgs, process, task, stolen>>
  BY DEF Agents, ReadySilently, Busy, ChannelDestroy, Setcalloutsemafree
<1>3. ListedTasksExist' /\ CrashNeedsTwoTasks'
  BY <1>1, <1>2 DEF ListedTasksExist, CrashNeedsTwoTasks
<1>4. /\ m_calloutsema \in Nat /\ ready \subseteq Agent /\ legs \in 0..MaxLeg
      /\ signalDue \in BOOLEAN /\ freed \in [Task -> SUBSET Agent]
  BY <1>1 DEF TypeOK
<1>5. ASSUME m_calloutsema' \in Nat, signalDue' \in BOOLEAN, ready' \subseteq Agent,
             legs' \in 0..MaxLeg, freed' \in [Task -> SUBSET Agent]
      PROVE  TypeOK'
  BY <1>1, <1>2, <1>5, Zenon DEF TypeOK
<1>6. ASSUME NEW a \in Agent, ReadySilently(a) \/ Busy(a) PROVE TaskInv'
  <2>1. UNCHANGED <<m_calloutsema, signalDue, legs, freed>> /\ ready' \subseteq Agent
    BY <1>4, <1>6 DEF ReadySilently, Busy
  <2>2. HangupReachesTask'
    BY <1>1, <1>2, <2>1 DEF HangupReachesTask
  <2>3. TypeOK'
    BY <1>4, <1>5, <2>1
  <2> QED
    BY <1>3, <2>2, <2>3 DEF TaskInv
<1>7. ASSUME NEW a \in Agent, ChannelDestroy(a) PROVE TaskInv'
  <2>1. /\ m_calloutsema' = m_calloutsema /\ signalDue' = TRUE
        /\ ready' = ready \cup {a} /\ legs < MaxLeg /\ legs' = legs + 1
        /\ freed' = [t \in Task |-> IF LookedPast(t, a) THEN freed[t] \cup {a} ELSE freed[t]]
    BY <1>7 DEF ChannelDestroy
  <2>2. HangupReachesTask'
    BY <2>1 DEF HangupReachesTask
  <2>3. legs' \in 0..MaxLeg
    BY <1>4, <2>1, CallTaskAssumption
  <2>4. freed' \in [Task -> SUBSET Agent] /\ ready' \subseteq Agent
    BY <1>4, <2>1
  <2>5. TypeOK'
    BY <1>4, <1>5, <2>1, <2>3, <2>4
  <2> QED
    BY <1>3, <2>2, <2>5 DEF TaskInv
<1>8. CASE Setcalloutsemafree
  <2>1. /\ m_calloutsema' = m_calloutsema + 1 /\ signalDue' = FALSE
        /\ UNCHANGED <<ready, legs, freed>>
    BY <1>8 DEF Setcalloutsemafree
  <2>2. m_calloutsema' \in Nat /\ m_calloutsema' > 0
    BY <1>4, <2>1
  <2>3. HangupReachesTask'
    BY <2>2 DEF HangupReachesTask
  <2>4. TypeOK'
    BY <1>4, <1>5, <2>1, <2>2
  <2> QED
    BY <1>3, <2>3, <2>4 DEF TaskInv
<1> QED
  BY <1>6, <1>7, <1>8 DEF Agents

\* There is no task at first.
LEMMA TaskInit == Init => TaskInv
<1> SUFFICES ASSUME Init PROVE TaskInv
  OBVIOUS
<1>1. task = [t \in Task |-> NoTask] /\ m_tasklist = <<>> /\ freed = [t \in Task |-> {}]
      /\ stolen = [t \in Task |-> FALSE] /\ process = "running"
  BY DEF Init
<1>2. TypeOK
  <2>1. task \in [Task -> TaskRecord]
    BY <1>1, NoTaskType
  <2>2. ready \subseteq Agent /\ m_calloutsema \in Nat /\ legs \in 0..MaxLeg
        /\ m_tasklist \in Seq(Task) /\ msgs \in 0..MaxMsg
    BY CallTaskAssumption DEF Init
  <2>3. /\ freed \in [Task -> SUBSET Agent] /\ stolen \in [Task -> BOOLEAN]
        /\ signalDue \in BOOLEAN
    BY <1>1 DEF Init
  <2> QED
    BY <1>1, <2>1, <2>2, <2>3, Zenon DEF TypeOK, TaskRecord
<1>3. HangupReachesTask
  BY <1>1 DEF HangupReachesTask
<1>4. ListedTasksExist
  <2>1. \A t \in Task : task[t].at = "free"
    BY <1>1, NoTaskType
  <2> QED
    BY <1>1, <2>1 DEF ListedTasksExist
<1>5. CrashNeedsTwoTasks
  BY <1>1 DEF CrashNeedsTwoTasks
<1> QED
  BY <1>2, <1>3, <1>4, <1>5 DEF TaskInv

\* Every step keeps the invariant.
LEMMA TaskNext == TaskInv /\ [Next]_vars => TaskInv'
<1> SUFFICES ASSUME TaskInv, [Next]_vars PROVE TaskInv'
  OBVIOUS
<1>1. CASE UNCHANGED vars
  <2>1. TypeOK /\ HangupReachesTask /\ ListedTasksExist /\ CrashNeedsTwoTasks
    BY DEF TaskInv
  <2>2. TypeOK'
    BY <1>1, <2>1, Zenon DEF vars, TypeOK
  <2>3. HangupReachesTask' /\ ListedTasksExist' /\ CrashNeedsTwoTasks'
    BY <1>1, <2>1 DEF vars, HangupReachesTask, ListedTasksExist, CrashNeedsTwoTasks
  <2> QED
    BY <2>2, <2>3 DEF TaskInv
<1>2. CASE Next
  BY <1>2, MessagesStep, RunTaskStep, AgentsStep DEF Next
<1> QED
  BY <1>1, <1>2

\* The invariant is one of the specification.
LEMMA TaskHolds == Spec => []TaskInv
  BY TaskInit, TaskNext, PTL DEF Spec

----------------------------------------------------------------------------
(* The theorems *)

\* A hang-up that frees an agent a task has already looked at leaves a signal, or one
\* about to come, unless another task has taken it.
THEOREM HangupsAreKept == Spec => []HangupReachesTask
<1>1. TaskInv => HangupReachesTask
  BY DEF TaskInv
<1> QED
  BY <1>1, TaskHolds, PTL

\* m_tasklist holds each existing task once and no deleted one, for any interleaving of
\* the messages with the ends of the tasks.
THEOREM ListMatchesTasks == Spec => []ListedTasksExist
<1>1. TaskInv => ListedTasksExist
  BY DEF TaskInv
<1> QED
  BY <1>1, TaskHolds, PTL

\* Deletetask runs past the end of the list only when a second task is in it.
THEOREM OneTaskSurvives == Spec => []CrashNeedsTwoTasks
<1>1. TaskInv => CrashNeedsTwoTasks
  BY DEF TaskInv
<1> QED
  BY <1>1, TaskHolds, PTL

=============================================================================

------------------------------ MODULE CallTask ------------------------------
(***************************************************************************)
(* The predictive dialler: CalloutManager, which serves the messages of    *)
(* the task server and keeps m_tasklist, and the CallTask threads, which   *)
(* dial the rows of outdial_task_tbl, paced by the ready agents of the     *)
(* task's company (src/CalloutManager.cpp).                                *)
(*                                                                         *)
(* Threads: the reactor (OnMsg), one thread per task, and the event thread *)
(* that frees an agent and then signals m_calloutsema.  GetWaitingDN walks *)
(* the agent map without a lock, one entry per step here.  Agents also     *)
(* become ready by a login or a status message, which signals nothing.     *)
(***************************************************************************)
EXTENDS Integers, Sequences, FiniteSets

CONSTANTS
    NAgent,         \* entries of m_DNmap, visited in key order
    Company,        \* companies
    AgentCompany,   \* agent -> company
    Task,           \* addresses of CallTask objects
    TaskId,         \* task_id strings of the messages
    Rate,           \* rates of SetCallrate
    NRow,           \* rows of outdial_task_tbl
    MaxMsg,         \* bound: messages to the task server
    MaxLeg          \* bound: legs of agents that end

Agent == 1..NAgent

ASSUME CallTaskAssumption ==
    /\ NAgent \in Nat /\ NRow \in Nat /\ MaxMsg \in Nat /\ MaxLeg \in Nat
    /\ AgentCompany \in [Agent -> Company]
    /\ Rate \subseteq Int
    /\ Company # {} /\ TaskId # {}

VARIABLES
    ready,          \* agents in DN_Waiting_ready
    m_calloutsema,  \* its value
    signalDue,      \* the event thread is between SetagnetStatus and the signal
    legs,           \* legs that have ended
    m_tasklist,     \* sequence of tasks
    msgs,           \* messages served
    process,        \* "running" or "crashed"
    task,           \* Task -> the object and the locals of its run()
    freed,          \* history: Task -> agents a hang-up freed after its last look
    stolen          \* history: Task -> another task took a signal meanwhile

vars == <<ready, m_calloutsema, signalDue, legs, m_tasklist, msgs, process,
          task, freed, stolen>>

\* at: where run() is; "free": no object at that address.
Place == {"free", "count", "loop", "wait", "finish"}

NoTask == [at |-> "free", company |-> CHOOSE c \in Company : TRUE,
           id |-> CHOOSE i \in TaskId : TRUE, m_rate |-> 1,
           num |-> 0, acc |-> 0, pos |-> 1, first |-> TRUE, left |-> 0]

Mine(t, a) == AgentCompany[a] = task[t].company

----------------------------------------------------------------------------
Init ==
    /\ ready \in SUBSET Agent
    /\ m_calloutsema = 0 /\ signalDue = FALSE /\ legs = 0
    /\ m_tasklist = <<>> /\ msgs = 0
    /\ process = "running"
    /\ task = [t \in Task |-> NoTask]
    /\ freed = [t \in Task |-> {}] /\ stolen = [t \in Task |-> FALSE]

----------------------------------------------------------------------------
(* The task server's messages *)

Finished(i) == task[m_tasklist[i]].at = "finish"

\* Which places of m_tasklist Deletetask looks at: erase(ite++) moves the next
\* task into the place just left, so after an erasure one task is skipped.
Visits[i \in Nat \ {0}] ==
    \/ i = 1
    \/ Visits[i - 1] /\ ~Finished(i - 1)
    \/ i > 2 /\ Visits[i - 2] /\ Finished(i - 2)

Deleted == {i \in 1..Len(m_tasklist) : Visits[i] /\ Finished(i)}

\* The first i places of m_tasklist without those Deletetask erases.
KeptUpTo[i \in Nat] ==
    IF i = 0 THEN <<>>
    ELSE IF i \in Deleted THEN KeptUpTo[i - 1]
    ELSE Append(KeptUpTo[i - 1], m_tasklist[i])

Kept == KeptUpTo[Len(m_tasklist)]

\* Mutant: the loop does not ask whether the list is empty.
RunsPastEnd_NoSizeTest == Len(m_tasklist) \in Deleted

\* Erasing the last task takes the iterator past end(), and the loop on, unless
\* the list is empty now.
RunsPastEnd == Len(m_tasklist) \in Deleted /\ Kept # <<>>

AfterDelete(f, none) ==
    [t \in Task |-> IF \E i \in Deleted : m_tasklist[i] = t THEN none ELSE f[t]]

\* Mutant: the tasks are deleted and stay in the list.
Deletetask_NoErase ==
    /\ m_tasklist' = m_tasklist
    /\ task' = AfterDelete(task, NoTask)

Deletetask ==
    /\ m_tasklist' = Kept
    /\ task' = AfterDelete(task, NoTask)

Message ==
    /\ process = "running"
    /\ msgs < MaxMsg
    /\ msgs' = msgs + 1
    /\ UNCHANGED <<ready, m_calloutsema, signalDue, legs>>

\* Any message whose Deletetask does not come to the end.
DeletetaskCrashes ==
    /\ Message
    /\ RunsPastEnd
    /\ process' = "crashed"
    /\ UNCHANGED <<m_tasklist, task, freed, stolen>>

\* A message without an effect of its own: malformed, or for FreeswitchXmlCtl.
OtherMessage ==
    /\ Message
    /\ ~RunsPastEnd
    /\ Deletetask
    /\ UNCHANGED <<process, freed, stolen>>

CreateTask(t, c, id) ==
    /\ Message
    /\ ~RunsPastEnd
    /\ \/ task[t].at = "free" /\ t \notin {m_tasklist[i] : i \in 1..Len(m_tasklist)}
       \/ \E i \in Deleted : m_tasklist[i] = t
    /\ m_tasklist' = Append(Kept, t)
    /\ task' = [AfterDelete(task, NoTask) EXCEPT ![t] =
                   [NoTask EXCEPT !.at = "count", !.company = c, !.id = id,
                                  !.left = NRow]]
    /\ freed' = [freed EXCEPT ![t] = {}]
    /\ stolen' = [stolen EXCEPT ![t] = FALSE]
    /\ UNCHANGED process

\* All tasks of the list that have the task_id.
SetCallrate(id, rate) ==
    /\ Message
    /\ ~RunsPastEnd
    /\ m_tasklist' = Kept
    /\ LET after == AfterDelete(task, NoTask) IN
       task' = [t \in Task |->
                  IF after[t].at # "free" /\ after[t].id = id
                  THEN [after[t] EXCEPT !.m_rate = rate] ELSE after[t]]
    /\ UNCHANGED <<process, freed, stolen>>

----------------------------------------------------------------------------
(* CallTask::run *)

Runs(t, at) == process = "running" /\ task[t].at = at

\* One entry of GetWaitingDN.
CountAgent(t) ==
    LET a == task[t].pos IN
    /\ Runs(t, "count")
    /\ a \in Agent
    /\ task' = [task EXCEPT ![t].pos = a + 1,
                            ![t].acc = IF a \in ready /\ Mine(t, a) THEN @ + 1 ELSE @]
    /\ UNCHANGED <<ready, m_calloutsema, signalDue, legs, m_tasklist, msgs, process,
                   freed, stolen>>

\* The first count is not multiplied by the rate.
CountDone(t) ==
    /\ Runs(t, "count")
    /\ task[t].pos > NAgent
    /\ task' = [task EXCEPT
                  ![t].num = IF task[t].first THEN task[t].acc
                             ELSE task[t].acc * task[t].m_rate,
                  ![t].first = FALSE, ![t].at = "loop"]
    /\ UNCHANGED <<ready, m_calloutsema, signalDue, legs, m_tasklist, msgs, process,
                   freed, stolen>>

\* bgapi originate of the next row.
Originate(t) ==
    /\ Runs(t, "loop")
    /\ task[t].left > 0 /\ task[t].num > 0
    /\ task' = [task EXCEPT ![t].num = @ - 1, ![t].left = @ - 1]
    /\ UNCHANGED <<ready, m_calloutsema, signalDue, legs, m_tasklist, msgs, process,
                   freed, stolen>>

Waitcalloutsema(t) ==
    /\ Runs(t, "loop")
    /\ task[t].left > 0 /\ task[t].num <= 0
    /\ task' = [task EXCEPT ![t].at = "wait"]
    /\ UNCHANGED <<ready, m_calloutsema, signalDue, legs, m_tasklist, msgs, process,
                   freed, stolen>>

\* m_calloutsema.wait() returns and the agents are counted again.
Wake(t) ==
    /\ Runs(t, "wait")
    /\ m_calloutsema > 0
    /\ m_calloutsema' = m_calloutsema - 1
    /\ task' = [task EXCEPT ![t].at = "count", ![t].pos = 1, ![t].acc = 0]
    /\ freed' = [freed EXCEPT ![t] = {}]
    /\ stolen' = [u \in Task |-> u # t /\ (stolen[u] \/ freed[u] # {})]
    /\ UNCHANGED <<ready, signalDue, legs, m_tasklist, msgs, process>>

\* taskStatus = TASK_FINISH, the last statement.
Finish(t) ==
    /\ Runs(t, "loop")
    /\ task[t].left = 0
    /\ task' = [task EXCEPT ![t].at = "finish"]
    /\ UNCHANGED <<ready, m_calloutsema, signalDue, legs, m_tasklist, msgs, process,
                   freed, stolen>>

----------------------------------------------------------------------------
(* The agents *)

\* A login or a status message; m_calloutsema is not signalled.
ReadySilently(a) ==
    /\ process = "running"
    /\ a \notin ready
    /\ ready' = ready \cup {a}
    /\ UNCHANGED <<m_calloutsema, signalDue, legs, m_tasklist, msgs, process, task,
                   freed, stolen>>

\* A call is offered, the agent rests or signs out.
Busy(a) ==
    /\ process = "running"
    /\ a \in ready
    /\ ready' = ready \ {a}
    /\ UNCHANGED <<m_calloutsema, signalDue, legs, m_tasklist, msgs, process, task,
                   freed, stolen>>

\* The tasks that have looked at the agent already, or will not look again.
LookedPast(t, a) ==
    /\ task[t].at \in {"count", "loop", "wait"} /\ Mine(t, a)
    /\ task[t].at = "count" => task[t].pos > a

\* CHANNEL_DESTROY of a leg to the agent, who is ready from here on.
ChannelDestroy(a) ==
    /\ process = "running"
    /\ ~signalDue
    /\ legs < MaxLeg
    /\ legs' = legs + 1
    /\ ready' = ready \cup {a}
    /\ signalDue' = TRUE
    /\ freed' = [t \in Task |-> IF LookedPast(t, a) THEN freed[t] \cup {a} ELSE freed[t]]
    /\ UNCHANGED <<m_calloutsema, m_tasklist, msgs, process, task, stolen>>

\* Mutant: the dialler is signalled only when the agent is the only ready one.
Setcalloutsemafree_IfNone ==
    /\ process = "running"
    /\ signalDue
    /\ signalDue' = FALSE
    /\ m_calloutsema' = IF Cardinality(ready) = 1 THEN m_calloutsema + 1 ELSE m_calloutsema
    /\ UNCHANGED <<ready, legs, m_tasklist, msgs, process, task, freed, stolen>>

Setcalloutsemafree ==
    /\ process = "running"
    /\ signalDue
    /\ signalDue' = FALSE
    /\ m_calloutsema' = m_calloutsema + 1
    /\ UNCHANGED <<ready, legs, m_tasklist, msgs, process, task, freed, stolen>>

----------------------------------------------------------------------------
Messages ==
    \/ DeletetaskCrashes \/ OtherMessage
    \/ \E t \in Task, c \in Company, id \in TaskId : CreateTask(t, c, id)
    \/ \E id \in TaskId, rate \in Rate : SetCallrate(id, rate)

RunStep(t) ==
    \/ CountAgent(t) \/ CountDone(t) \/ Originate(t)
    \/ Waitcalloutsema(t) \/ Wake(t) \/ Finish(t)

Agents ==
    \/ \E a \in Agent : ReadySilently(a) \/ Busy(a) \/ ChannelDestroy(a)
    \/ Setcalloutsemafree

Next == Messages \/ (\E t \in Task : RunStep(t)) \/ Agents

Spec == Init /\ [][Next]_vars

\* The threads are scheduled; messages, logins and hang-ups need not come.
FairSpec ==
    /\ Spec
    /\ WF_vars(Setcalloutsemafree)
    /\ \A t \in Task : WF_vars(RunStep(t))

----------------------------------------------------------------------------
(* Properties *)

\* Type correctness of the manager, the tasks and the semaphore.
TypeOK ==
    /\ ready \subseteq Agent
    /\ m_calloutsema \in Nat /\ signalDue \in BOOLEAN /\ legs \in 0..MaxLeg
    /\ m_tasklist \in Seq(Task) /\ msgs \in 0..MaxMsg
    /\ process \in {"running", "crashed"}
    /\ task \in [Task -> [at : Place, company : Company, id : TaskId, m_rate : Int,
                          num : Int, acc : Nat, pos : Nat \ {0}, first : BOOLEAN,
                          left : 0..NRow]]
    /\ freed \in [Task -> SUBSET Agent] /\ stolen \in [Task -> BOOLEAN]

\* A hang-up that frees an agent after a task has looked at the agent is not lost
\* on the task: the signal is there, or about to be, or another task has taken it.
HangupReachesTask ==
    \A t \in Task :
        (task[t].at \in {"count", "loop", "wait"} /\ freed[t] # {} /\ ~stolen[t]) =>
            m_calloutsema > 0 \/ signalDue

\* m_tasklist holds each existing task once and no deleted one, so neither
\* SetCallrate nor the next Deletetask touches freed memory.
ListedTasksExist ==
    /\ \A i, j \in 1..Len(m_tasklist) : m_tasklist[i] = m_tasklist[j] => i = j
    /\ {m_tasklist[i] : i \in 1..Len(m_tasklist)} = {t \in Task : task[t].at # "free"}

\* Deletetask runs past the end of the list only when a second task is in it: a
\* manager that is given one task at a time survives.
CrashNeedsTwoTasks ==
    process = "crashed" => Len(m_tasklist) >= 2

\* Under fair scheduling, a blocked task whose company had an agent freed since its
\* last look counts again, unless another task takes the signal or the process dies.
HangupWakesTask ==
    \A t \in Task :
        (task[t].at = "wait" /\ freed[t] # {}) ~>
            (task[t].at # "wait" \/ stolen[t] \/ process = "crashed")

=============================================================================

-------------------------- MODULE WsSessionProofs --------------------------
(***************************************************************************)
(* What a desk may conclude from the replies it gets, for any number of    *)
(* desks and users, however often connections are lost and the server      *)
(* crashes: that the i-th reply answers its i-th request, that what its    *)
(* last login or logout told it is so, and that the reply to getusers      *)
(* lists every agent once, by department.                                  *)
(***************************************************************************)
EXTENDS WsSession, FiniteSetTheorems, TLAPS

----------------------------------------------------------------------------
(* The inductive invariant *)

\* The queues of the connections.
ConnTypes ==
    /\ up \subseteq Desk
    /\ inbox \in [Desk -> Seq(Request)] /\ asked \in [Desk -> Seq(Request)]
    /\ replies \in [Desk -> Seq(Reply)] /\ received \in [Desk -> Nat]
    /\ \A d \in Desk : received[d] <= Len(replies[d])
    /\ belief \in [Desk -> {"unknown", "in", "out"}]

\* A request that has one reply, with the event of its kind.
Plain(req) == req.complete /\ req.kind \notin {"dial", "GetAgentStatus", "unreadable"}

\* A reply that tells the desk whether its user is signed in, and what it tells.
Decisive(reply) ==
    \/ reply.event = "onlogin" /\ reply.result \in SignedIn
    \/ reply.event = "onlogout" /\ reply.result \in SignedOut
Told(reply) == IF reply.event = "onlogin" THEN "in" ELSE "out"

IsSignedIn(u) == \E e \in m_DNmap : e.user = u
Truth(u) == IF IsSignedIn(u) THEN "in" ELSE "out"

\* The last decisive reply on its way tells the truth; when there is none the desk knows
\* it, or knows that it does not know.
WillKnow(d) ==
    LET coming == {i \in 1..Len(replies[d]) : received[d] < i /\ Decisive(replies[d][i])} IN
    /\ \A i \in coming : (\A j \in coming : j <= i) => Told(replies[d][i]) = Truth(UserOf[d])
    /\ coming = {} => belief[d] \in {"unknown", Truth(UserOf[d])}

\* What a restart brings back: the row of a user that no call is rewriting is there when
\* the user is signed in, or when it was inserted after a logout.
RowsInv ==
    \A u \in User :
        /\ u \in crossed => ~IsSignedIn(u)
        /\ u \notin rewriting => (u \in dnuser <=> IsSignedIn(u) \/ u \in crossed)

SessionInv ==
    /\ ConnTypes
    /\ RepliesInStep
    /\ \A d \in Desk \ disturbed : WillKnow(d)

----------------------------------------------------------------------------
(* Sequences *)

\* The elements of a concatenation.
LEMMA ConcatFacts ==
    ASSUME NEW S, NEW s \in Seq(S), NEW t \in Seq(S)
    PROVE  /\ s \o t \in Seq(S)
           /\ Len(s) \in Nat /\ Len(t) \in Nat /\ Len(s \o t) = Len(s) + Len(t)
           /\ \A i \in 1..Len(s) : (s \o t)[i] = s[i]
           /\ \A i \in 1..Len(t) : (s \o t)[Len(s) + i] = t[i]
  OBVIOUS

\* One element more.
LEMMA AppendFacts ==
    ASSUME NEW S, NEW s \in Seq(S), NEW x \in S
    PROVE  /\ Append(s, x) \in Seq(S)
           /\ Len(s) \in Nat /\ Len(Append(s, x)) = Len(s) + 1
           /\ \A i \in 1..Len(s) : Append(s, x)[i] = s[i]
           /\ Append(s, x)[Len(s) + 1] = x
  OBVIOUS

\* A desk learns from decisive replies only.
LEMMA LearnedFacts ==
    ASSUME NEW old, NEW reply
    PROVE  Learned(old, reply) = IF Decisive(reply) THEN Told(reply) ELSE old
  BY DEF Learned, Decisive, Told, SignedIn, SignedOut

\* RepliesInStep, for one desk.
InStep(d) ==
    (\A i \in 1..Len(asked[d]) : Plain(asked[d][i]))
    => /\ Len(replies[d]) = Len(asked[d])
       /\ \A i \in 1..Len(asked[d]) : replies[d][i].event = EventOf[asked[d][i].kind]

LEMMA InStepFacts ==
    ASSUME ConnTypes
    PROVE  RepliesInStep <=> \A d \in Desk : InStep(d)
<1>1. \A d \in Desk : DOMAIN asked[d] = 1..Len(asked[d])
  BY DEF ConnTypes
<1> QED
  BY <1>1 DEF RepliesInStep, InStep, Plain

----------------------------------------------------------------------------
(* A request is answered *)

\* on_message takes a request of desk d and sends the replies of a list.
Answers(d, list) ==
    /\ d \in up /\ inbox[d] # <<>>
    /\ inbox' = [inbox EXCEPT ![d] = Tail(@)]
    /\ asked' = [asked EXCEPT ![d] = Append(@, Head(inbox[d]))]
    /\ replies' = [replies EXCEPT ![d] = @ \o list]
    /\ UNCHANGED <<up, received, belief>>

\* The queues stay queues, and those of other desks stay what they are.
LEMMA AnswersFacts ==
    ASSUME ConnTypes, NEW d \in Desk, NEW list \in Seq(Reply), Answers(d, list)
    PROVE  /\ ConnTypes'
           /\ Head(inbox[d]) \in Request
           /\ asked'[d] = Append(asked[d], Head(inbox[d])) /\ replies'[d] = replies[d] \o list
           /\ \A e \in Desk \ {d} : asked'[e] = asked[e] /\ replies'[e] = replies[e]
<1>1. /\ inbox[d] \in Seq(Request) /\ inbox[d] # <<>> /\ asked[d] \in Seq(Request)
      /\ replies[d] \in Seq(Reply)
  BY DEF Answers, ConnTypes
<1>2. Head(inbox[d]) \in Request /\ Tail(inbox[d]) \in Seq(Request)
  BY <1>1
<1>3. /\ Append(asked[d], Head(inbox[d])) \in Seq(Request)
      /\ replies[d] \o list \in Seq(Reply)
      /\ Len(replies[d]) \in Nat /\ Len(list) \in Nat
      /\ Len(replies[d] \o list) = Len(replies[d]) + Len(list)
  BY <1>1, <1>2, AppendFacts, ConcatFacts
<1>4. /\ asked'[d] = Append(asked[d], Head(inbox[d])) /\ replies'[d] = replies[d] \o list
      /\ \A e \in Desk \ {d} : asked'[e] = asked[e] /\ replies'[e] = replies[e]
  BY DEF Answers, ConnTypes
<1>5. \A e \in Desk : received'[e] <= Len(replies'[e])
  BY <1>3, <1>4 DEF Answers, ConnTypes
<1>6. /\ up' \subseteq Desk /\ received' \in [Desk -> Nat]
      /\ belief' \in [Desk -> {"unknown", "in", "out"}]
      /\ inbox' \in [Desk -> Seq(Request)] /\ asked' \in [Desk -> Seq(Request)]
      /\ replies' \in [Desk -> Seq(Reply)]
  BY <1>2, <1>3 DEF Answers, ConnTypes
<1> QED
  BY <1>2, <1>4, <1>5, <1>6 DEF ConnTypes

\* A plain request that gets one reply with its event keeps the replies in step.
LEMMA AnswersInStep ==
    ASSUME ConnTypes, RepliesInStep, NEW d \in Desk, NEW list \in Seq(Reply), Answers(d, list),
           Plain(Head(inbox[d])) =>
              Len(list) = 1 /\ list[1].event = EventOf[Head(inbox[d]).kind]
    PROVE  RepliesInStep'
<1>1. /\ ConnTypes' /\ Head(inbox[d]) \in Request
      /\ asked'[d] = Append(asked[d], Head(inbox[d])) /\ replies'[d] = replies[d] \o list
      /\ \A e \in Desk \ {d} : asked'[e] = asked[e] /\ replies'[e] = replies[e]
  BY AnswersFacts
<1>2. \A e \in Desk : InStep(e)
  BY InStepFacts
<1>3. ASSUME NEW e \in Desk \ {d} PROVE InStep(e)'
  <2>1. InStep(e) /\ asked'[e] = asked[e] /\ replies'[e] = replies[e]
    BY <1>1, <1>2
  <2> QED
    BY <2>1 DEF InStep
<1>4. InStep(d)'
  <2> DEFINE n == Len(asked[d])
             m == Len(replies[d])
             req == Head(inbox[d])
  <2>1. asked[d] \in Seq(Request) /\ replies[d] \in Seq(Reply)
    BY DEF ConnTypes
  <2>2. /\ n \in Nat /\ Len(asked'[d]) = n + 1 /\ asked'[d][n + 1] = req
        /\ \A i \in 1..n : asked'[d][i] = asked[d][i]
    BY <1>1, <2>1, AppendFacts
  <2>3. /\ m \in Nat /\ Len(list) \in Nat /\ Len(replies'[d]) = m + Len(list)
        /\ \A i \in 1..m : replies'[d][i] = replies[d][i]
        /\ \A i \in 1..Len(list) : replies'[d][m + i] = list[i]
    BY <1>1, <2>1, ConcatFacts
  <2> SUFFICES ASSUME \A i \in 1..n + 1 : Plain(asked'[d][i])
               PROVE  /\ Len(replies'[d]) = n + 1
                      /\ \A i \in 1..n + 1 :
                            replies'[d][i].event = EventOf[asked'[d][i].kind]
    BY <2>2 DEF InStep
  <2> HIDE DEF n, m, req
  <2>4. \A i \in 1..n : Plain(asked[d][i])
    BY <2>2
  <2>5. m = n /\ \A i \in 1..n : replies[d][i].event = EventOf[asked[d][i].kind]
    BY <2>4, <1>2 DEF InStep, n, m
  <2>6. Plain(req)
    BY <2>2
  <2>7. Len(list) = 1 /\ list[1].event = EventOf[req.kind]
    BY <2>6 DEF req
  <2>8. replies'[d][n + 1].event = EventOf[asked'[d][n + 1].kind]
    BY <2>2, <2>3, <2>5, <2>7
  <2>9. \A i \in 1..n : replies'[d][i].event = EventOf[asked'[d][i].kind]
    BY <2>2, <2>3, <2>5
  <2> QED
    BY <2>2, <2>3, <2>5, <2>7, <2>8, <2>9
<1>5. \A e \in Desk : DOMAIN asked'[e] = 1..Len(asked'[e])
  BY <1>1 DEF ConnTypes
<1>6. \A e \in Desk : InStep(e)'
  BY <1>3, <1>4
<1> QED
  BY <1>5, <1>6 DEF RepliesInStep, InStep, Plain

\* WillKnow of a desk whose replies, belief and user's state stay the same.
LEMMA StillKnows ==
    ASSUME NEW e \in Desk, WillKnow(e), replies'[e] = replies[e], received'[e] = received[e],
           belief'[e] = belief[e], IsSignedIn(UserOf[e])' <=> IsSignedIn(UserOf[e])
    PROVE  WillKnow(e)'
  BY DEF WillKnow, Truth

\* Replies that are not decisive come with no change of who is signed in.
LEMMA AnswersAside ==
    ASSUME SessionInv, NEW d \in Desk, NEW list \in Seq(Reply), Answers(d, list),
           Plain(Head(inbox[d])) =>
              Len(list) = 1 /\ list[1].event = EventOf[Head(inbox[d]).kind],
           \A i \in 1..Len(list) : ~Decisive(list[i]),
           disturbed' = disturbed,
           \A u \in User : IsSignedIn(u)' <=> IsSignedIn(u)
    PROVE  SessionInv'
<1>1. /\ ConnTypes'
      /\ replies'[d] = replies[d] \o list
      /\ \A e \in Desk \ {d} : replies'[e] = replies[e]
  BY AnswersFacts DEF SessionInv
<1>2. RepliesInStep'
  BY AnswersInStep DEF SessionInv
<1>3. \A e \in Desk : IsSignedIn(UserOf[e])' <=> IsSignedIn(UserOf[e])
  BY UserOfAssumption
<1>4. \A e \in Desk : received'[e] = received[e] /\ belief'[e] = belief[e]
  BY DEF Answers
<1>5. \A e \in Desk \ {d} : WillKnow(e) => WillKnow(e)'
  BY <1>1, <1>3, <1>4, StillKnows
<1>6. WillKnow(d) => WillKnow(d)'
  <2> DEFINE m == Len(replies[d])
             coming == {i \in 1..m : received[d] < i /\ Decisive(replies[d][i])}
  <2>1. replies[d] \in Seq(Reply)
    BY DEF SessionInv, ConnTypes
  <2>2. /\ m \in Nat /\ Len(list) \in Nat /\ Len(replies'[d]) = m + Len(list)
        /\ \A i \in 1..m : replies'[d][i] = replies[d][i]
        /\ \A i \in 1..Len(list) : replies'[d][m + i] = list[i]
    BY <1>1, <2>1, ConcatFacts
  <2>3. ASSUME NEW i \in 1..m + Len(list), Decisive(replies'[d][i]) PROVE i \in 1..m
    <3>1. CASE i > m
      <4>1. i - m \in 1..Len(list) /\ m + (i - m) = i
        BY <2>2, <3>1
      <4>2. replies'[d][i] = list[i - m]
        BY <4>1, <2>2
      <4> QED
        BY <2>3, <4>1, <4>2
    <3> QED
      BY <3>1, <2>2
  <2>4. 1..m \subseteq 1..m + Len(list)
    BY <2>2
  <2>5. {i \in 1..Len(replies'[d]) : received'[d] < i /\ Decisive(replies'[d][i])} = coming
    BY <1>4, <2>2, <2>3, <2>4
  <2>6. \A i \in coming : replies'[d][i] = replies[d][i]
    BY <2>2
  <2>7. Truth(UserOf[d])' = Truth(UserOf[d])
    BY <1>3 DEF Truth
  <2>8. WillKnow(d) <=>
           /\ \A i \in coming : (\A j \in coming : j <= i)
                 => Told(replies[d][i]) = Truth(UserOf[d])
           /\ coming = {} => belief[d] \in {"unknown", Truth(UserOf[d])}
    BY DEF WillKnow
  <2> HIDE DEF coming, m
  <2>9. WillKnow(d)' <=>
           /\ \A i \in coming : (\A j \in coming : j <= i)
                 => Told(replies'[d][i]) = Truth(UserOf[d])'
           /\ coming = {} => belief'[d] \in {"unknown", Truth(UserOf[d])'}
    BY <2>5 DEF WillKnow
  <2> QED
    BY <1>4, <2>6, <2>7, <2>8, <2>9
<1> QED
  BY <1>1, <1>2, <1>5, <1>6 DEF SessionInv

\* A login or logout tells its desk the truth, or disturbs it, and disturbs the others of
\* the same user.
LEMMA AnswersDecisively ==
    ASSUME SessionInv, NEW d \in Desk, NEW reply \in Reply, Answers(d, <<reply>>),
           Plain(Head(inbox[d])) => reply.event = EventOf[Head(inbox[d]).kind],
           Decisive(reply), d \notin disturbed' => Told(reply) = Truth(UserOf[d])',
           \A e \in Desk \ {d} : e \notin disturbed' =>
              e \notin disturbed /\ UserOf[e] # UserOf[d],
           \A u \in User \ {UserOf[d]} : IsSignedIn(u)' <=> IsSignedIn(u)
    PROVE  SessionInv'
<1> DEFINE list == <<reply>>
<1>0. list \in Seq(Reply) /\ Len(list) = 1 /\ list[1] = reply
  OBVIOUS
<1> HIDE DEF list
<1>00. Answers(d, list)
  BY DEF list
<1>1. /\ ConnTypes'
      /\ replies'[d] = replies[d] \o list
      /\ \A e \in Desk \ {d} : replies'[e] = replies[e]
  BY <1>0, <1>00, AnswersFacts DEF SessionInv
<1>2. RepliesInStep'
  BY <1>0, <1>00, AnswersInStep DEF SessionInv
<1>3. ASSUME NEW e \in Desk \ disturbed', e # d PROVE WillKnow(e)'
  <2>1. e \in Desk \ disturbed /\ UserOf[e] \in User \ {UserOf[d]}
    BY <1>3, UserOfAssumption
  <2>2. replies'[e] = replies[e] /\ received'[e] = received[e] /\ belief'[e] = belief[e]
    BY <1>1, <1>3 DEF Answers
  <2> QED
    BY <2>1, <2>2, StillKnows DEF SessionInv
<1>4. ASSUME d \notin disturbed' PROVE WillKnow(d)'
  <2> DEFINE m == Len(replies[d])
             coming == {i \in 1..Len(replies'[d]) :
                           received'[d] < i /\ Decisive(replies'[d][i])}
  <2>1. replies[d] \in Seq(Reply) /\ received[d] \in Nat /\ received[d] <= m
    BY DEF SessionInv, ConnTypes
  <2>2. /\ m \in Nat /\ Len(replies'[d]) = m + 1 /\ replies'[d][m + 1] = reply
    <3>0. list \in Seq(Reply) /\ replies[d] \in Seq(Reply) /\ replies'[d] = replies[d] \o list
      BY <1>0, <1>1, <2>1
    <3>1. /\ m \in Nat /\ Len(replies'[d]) = m + Len(list)
          /\ \A i \in 1..Len(list) : replies'[d][m + i] = list[i]
      BY <3>0, ConcatFacts
    <3>2. 1 \in 1..Len(list)
      BY <1>0
    <3> QED
      BY <1>0, <3>1, <3>2
  <2>3. received'[d] = received[d]
    BY DEF Answers
  <2>4. m + 1 \in coming
    BY <2>1, <2>2, <2>3
  <2>5. \A i \in coming : i <= m + 1 /\ i \in Nat
    BY <2>2
  <2>6. WillKnow(d)' <=>
           /\ \A i \in coming : (\A j \in coming : j <= i)
                 => Told(replies'[d][i]) = Truth(UserOf[d])'
           /\ coming = {} => belief'[d] \in {"unknown", Truth(UserOf[d])'}
    BY DEF WillKnow
  <2> HIDE DEF coming, m
  <2>7. ASSUME NEW i \in coming, \A j \in coming : j <= i PROVE i = m + 1
    BY <2>2, <2>4, <2>5, <2>7
  <2> QED
    BY <1>4, <2>2, <2>4, <2>6, <2>7
<1> QED
  BY <1>1, <1>2, <1>3, <1>4 DEF SessionInv

----------------------------------------------------------------------------
(* The steps *)

\* The server starts without connections.
LEMMA SessionInit == Init => SessionInv
<1> SUFFICES ASSUME Init PROVE SessionInv
  OBVIOUS
<1>1. ConnTypes
  BY DEF Init, ConnTypes
<1>2. \A d \in Desk : asked[d] = <<>> /\ replies[d] = <<>> /\ belief[d] = "unknown"
  BY DEF Init
<1>3. RepliesInStep
  BY <1>2 DEF RepliesInStep
<1>4. \A d \in Desk : WillKnow(d)
  BY <1>2 DEF WillKnow
<1> QED
  BY <1>1, <1>3, <1>4 DEF SessionInv

\* A connection is opened, a request sent, or the server told to stop listening.
LEMMA SessionOpens ==
    ASSUME SessionInv, NEW d \in Desk,
           \/ Open(d) \/ StopListening(d) \/ \E req \in Request : Send(d, req)
           \/ UNCHANGED vars
    PROVE  SessionInv'
<1>1. UNCHANGED <<m_DNmap, asked, replies, received, belief, disturbed>>
  BY DEF Open, StopListening, Send, vars, serverVars, tableVars, connVars, deskVars
<1>2. ConnTypes'
  <2>1. up' \subseteq Desk
    BY DEF SessionInv, ConnTypes, Open, StopListening, Send, vars, connVars
  <2>2. inbox' \in [Desk -> Seq(Request)]
    <3>1. ASSUME NEW req \in Request, Send(d, req) PROVE inbox' \in [Desk -> Seq(Request)]
      <4>1. Append(inbox[d], req) \in Seq(Request)
        BY AppendFacts DEF SessionInv, ConnTypes
      <4> QED
        BY <3>1, <4>1 DEF Send, SessionInv, ConnTypes
    <3>2. ASSUME UNCHANGED inbox PROVE inbox' \in [Desk -> Seq(Request)]
      BY <3>2 DEF SessionInv, ConnTypes
    <3> QED
      BY <3>1, <3>2 DEF Open, StopListening, vars, connVars
  <2> QED
    BY <1>1, <2>1, <2>2 DEF SessionInv, ConnTypes
<1>3. RepliesInStep'
  BY <1>1 DEF SessionInv, RepliesInStep
<1>4. \A e \in Desk : IsSignedIn(UserOf[e])' <=> IsSignedIn(UserOf[e])
  BY <1>1 DEF IsSignedIn
<1>5. ASSUME NEW e \in Desk \ disturbed' PROVE WillKnow(e)'
  BY <1>1, <1>4, StillKnows DEF SessionInv
<1> QED
  BY <1>2, <1>3, <1>5 DEF SessionInv

\* A reply arrives: the last decisive one leaves the desk with the truth.
LEMMA SessionReceive ==
    ASSUME SessionInv, NEW d \in Desk, Receive(d)
    PROVE  SessionInv'
<1> DEFINE m == Len(replies[d])
           n == received[d]
           reply == replies[d][n + 1]
<1>1. /\ UNCHANGED <<m_DNmap, up, inbox, asked, replies, disturbed>>
      /\ n < m /\ received' = [received EXCEPT ![d] = n + 1]
      /\ belief' = [belief EXCEPT ![d] = Learned(@, reply)]
  BY DEF Receive, serverVars
<1>2. replies[d] \in Seq(Reply) /\ n \in Nat /\ m \in Nat /\ belief \in [Desk -> {"unknown", "in", "out"}]
      /\ received \in [Desk -> Nat]
  BY DEF SessionInv, ConnTypes
<1>3. belief'[d] = IF Decisive(reply) THEN Told(reply) ELSE belief[d]
  BY <1>1, <1>2, LearnedFacts
<1>4. received'[d] = n + 1 /\ \A e \in Desk \ {d} : received'[e] = received[e] /\ belief'[e] = belief[e]
  BY <1>1, <1>2
<1>5. ConnTypes'
  <2>1. belief' \in [Desk -> {"unknown", "in", "out"}]
    <3>1. Learned(belief[d], reply) \in {"unknown", "in", "out"}
      BY <1>2, LearnedFacts DEF Told
    <3> QED
      BY <3>1, <1>1, <1>2
  <2>2. received' \in [Desk -> Nat] /\ \A e \in Desk : received'[e] <= Len(replies'[e])
    BY <1>1, <1>2, <1>4 DEF SessionInv, ConnTypes
  <2> QED
    BY <1>1, <2>1, <2>2 DEF SessionInv, ConnTypes
<1>6. RepliesInStep'
  BY <1>1 DEF SessionInv, RepliesInStep
<1>7. \A u : (IsSignedIn(u)' <=> IsSignedIn(u)) /\ Truth(u)' = Truth(u)
  BY <1>1 DEF IsSignedIn, Truth
<1>8. ASSUME NEW e \in Desk \ disturbed', e # d PROVE WillKnow(e)'
  BY <1>1, <1>4, <1>7, <1>8, StillKnows DEF SessionInv
<1>9. ASSUME WillKnow(d) PROVE WillKnow(d)'
  <2> DEFINE before == {i \in 1..m : n < i /\ Decisive(replies[d][i])}
             after == {i \in 1..m : n + 1 < i /\ Decisive(replies[d][i])}
  <2>1. /\ \A i \in before : (\A j \in before : j <= i)
              => Told(replies[d][i]) = Truth(UserOf[d])
        /\ before = {} => belief[d] \in {"unknown", Truth(UserOf[d])}
    BY <1>9 DEF WillKnow
  <2>2. WillKnow(d)' <=>
           /\ \A i \in after : (\A j \in after : j <= i)
                 => Told(replies[d][i]) = Truth(UserOf[d])
           /\ after = {} => belief'[d] \in {"unknown", Truth(UserOf[d])}
    BY <1>1, <1>4, <1>7 DEF WillKnow
  <2>3. n + 1 \in 1..m
    BY <1>1, <1>2
  <2>4. before = IF Decisive(reply) THEN after \cup {n + 1} ELSE after
    BY <1>2, <2>3
  <2>5. \A i \in after : i \in Int /\ n + 1 <= i
    BY <1>2
  <2> HIDE DEF before, after
  <2>6. ASSUME NEW i \in after, \A j \in after : j <= i
        PROVE  Told(replies[d][i]) = Truth(UserOf[d])
    <3>1. i \in before /\ \A j \in before : j <= i
      BY <2>4, <2>5, <2>6
    <3> QED
      BY <2>1, <3>1
  <2>7. ASSUME after = {} PROVE belief'[d] \in {"unknown", Truth(UserOf[d])}
    <3>1. CASE Decisive(reply)
      <4>1. before = {n + 1}
        BY <2>4, <2>7, <3>1
      <4>2. Told(replies[d][n + 1]) = Truth(UserOf[d])
        BY <4>1, <2>1, <1>2
      <4> QED
        BY <4>2, <3>1, <1>3
    <3>2. CASE ~Decisive(reply)
      BY <2>1, <2>4, <2>7, <3>2, <1>3
    <3> QED
      BY <3>1, <3>2
  <2> QED
    BY <2>2, <2>6, <2>7
<1> QED
  BY <1>1, <1>5, <1>6, <1>8, <1>9 DEF SessionInv

\* The connection is lost: a desk with something under way no longer knows.
LEMMA SessionDrop ==
    ASSUME SessionInv, NEW d \in Desk, Drop(d)
    PROVE  SessionInv'
<1>1. /\ UNCHANGED <<m_DNmap, disturbed>> /\ up' = up \ {d}
      /\ inbox' = [inbox EXCEPT ![d] = <<>>] /\ asked' = [asked EXCEPT ![d] = <<>>]
      /\ replies' = [replies EXCEPT ![d] = <<>>] /\ received' = [received EXCEPT ![d] = 0]
      /\ belief' = [belief EXCEPT ![d] = IF Pending(d) THEN "unknown" ELSE @]
  BY DEF Drop, serverVars
<1>2. /\ asked'[d] = <<>> /\ replies'[d] = <<>> /\ received'[d] = 0
      /\ belief'[d] = IF Pending(d) THEN "unknown" ELSE belief[d]
      /\ \A e \in Desk \ {d} : /\ asked'[e] = asked[e] /\ replies'[e] = replies[e]
                               /\ received'[e] = received[e] /\ belief'[e] = belief[e]
  BY <1>1 DEF SessionInv, ConnTypes
<1>3. ConnTypes'
  <2>1. /\ up' \subseteq Desk /\ received' \in [Desk -> Nat]
        /\ inbox' \in [Desk -> Seq(Request)] /\ asked' \in [Desk -> Seq(Request)]
        /\ replies' \in [Desk -> Seq(Reply)]
    BY <1>1 DEF SessionInv, ConnTypes
  <2>2. \A e \in Desk : received'[e] <= Len(replies'[e])
    BY <1>2 DEF SessionInv, ConnTypes
  <2>3. belief' \in [Desk -> {"unknown", "in", "out"}]
    BY <1>1 DEF SessionInv, ConnTypes
  <2> QED
    BY <2>1, <2>2, <2>3 DEF ConnTypes
<1>4. RepliesInStep'
  <2>1. DOMAIN asked'[d] = {} /\ Len(replies'[d]) = Len(asked'[d])
    BY <1>2
  <2> QED
    BY <1>2, <2>1 DEF SessionInv, RepliesInStep
<1>5. \A u : (IsSignedIn(u)' <=> IsSignedIn(u)) /\ Truth(u)' = Truth(u)
  BY <1>1 DEF IsSignedIn, Truth
<1>6. ASSUME NEW e \in Desk \ disturbed', e # d PROVE WillKnow(e)'
  BY <1>1, <1>2, <1>5, <1>6, StillKnows DEF SessionInv
<1>7. ASSUME WillKnow(d) PROVE WillKnow(d)'
  <2>1. belief'[d] \in {"unknown", Truth(UserOf[d])}
    <3>1. CASE Pending(d)
      BY <1>2, <3>1
    <3>2. CASE ~Pending(d)
      <4>1. /\ received[d] \in Nat /\ Len(replies[d]) \in Nat
            /\ ~(received[d] < Len(replies[d]))
        BY <3>2 DEF Pending, SessionInv, ConnTypes
      <4>2. \A i \in 1..Len(replies[d]) : ~(received[d] < i)
        BY <4>1
      <4>3. belief[d] \in {"unknown", Truth(UserOf[d])}
        BY <4>2, <1>7 DEF WillKnow
      <4> QED
        BY <4>3, <3>2, <1>2
    <3> QED
      BY <3>1, <3>2
  <2>2. 1..Len(replies'[d]) = {}
    BY <1>2
  <2> QED
    BY <2>1, <2>2, <1>5 DEF WillKnow
<1> QED
  BY <1>1, <1>3, <1>4, <1>6, <1>7 DEF SessionInv

\* A call puts a ghost or a row into the tables: it signs nobody in or out.
LEMMA SessionCalls ==
    ASSUME SessionInv, Calls
    PROVE  SessionInv'
<1>1. UNCHANGED <<up, inbox, asked, replies, received, belief, disturbed>>
  BY DEF Calls, GhostEntry, RewriteBegins, RewriteEnds, connVars, deskVars
<1>2. ASSUME NEW u \in User PROVE IsSignedIn(u)' <=> IsSignedIn(u)
  <2>1. ASSUME NEW v \in User, NEW status \in Status, NEW dep \in Unset,
               GhostEntry(v, status, dep)
        PROVE  IsSignedIn(u)' <=> IsSignedIn(u)
    <3>1. u # Nobody
      BY UserAssumption DEF Nobody
    <3> QED
      BY <2>1, <3>1 DEF GhostEntry, IsSignedIn
  <2>2. ASSUME NEW k \in Id, RewriteBegins(k) \/ RewriteEnds(k)
        PROVE  IsSignedIn(u)' <=> IsSignedIn(u)
    BY <2>2 DEF RewriteBegins, RewriteEnds, IsSignedIn
  <2> QED
    BY <2>1, <2>2 DEF Calls
<1>3. ConnTypes' /\ RepliesInStep'
  BY <1>1 DEF SessionInv, ConnTypes, RepliesInStep
<1>4. ASSUME NEW e \in Desk \ disturbed' PROVE WillKnow(e)'
  BY <1>1, <1>2, UserOfAssumption, StillKnows DEF SessionInv
<1> QED
  BY <1>3, <1>4 DEF SessionInv

\* Every entry LoadDNSet makes has the name of its row.
LEMMA LoadedNames ==
    ASSUME NEW rows, NEW department
    PROVE  /\ \A e \in LoadDNSet(rows, department) : e.user \in rows
           /\ \A u \in rows : \E e \in LoadDNSet(rows, department) : e.user = u
<1> DEFINE Loads(r) ==
       [key |-> r, user |-> r, status |-> "ready", department |-> department[r]]
<1>1. LoadDNSet(rows, department) = {Loads(r) : r \in rows}
  BY DEF LoadDNSet
<1>2. \A r : Loads(r).user = r
  OBVIOUS
<1> HIDE DEF Loads
<1> QED
  BY <1>1, <1>2

\* The agents after a restart are those with a row.
LEMMA LoadedUsers ==
    ASSUME NEW rows, Restart(rows)
    PROVE  \A u : IsSignedIn(u)' <=> u \in rows
<1>1. PICK department \in [rows -> Unset] : m_DNmap' = LoadDNSet(rows, department)
  BY DEF Restart
<1> QED
  BY <1>1, LoadedNames DEF IsSignedIn

\* A restart: a desk with something under way no longer knows, and for the others the
\* table has their user's row when they are right that he is signed in.
LEMMA SessionRestart ==
    ASSUME SessionInv, RowsInv, NEW rows, Restart(rows)
    PROVE  SessionInv'
<1>1. /\ up' = {}
      /\ inbox' = [d \in Desk |-> <<>>] /\ asked' = [d \in Desk |-> <<>>]
      /\ replies' = [d \in Desk |-> <<>>] /\ received' = [d \in Desk |-> 0]
      /\ belief' = [d \in Desk |-> IF Pending(d) THEN "unknown" ELSE belief[d]]
  BY DEF Restart
<1>2. \A d \in Desk : asked'[d] = <<>> /\ replies'[d] = <<>> /\ received'[d] = 0
  BY <1>1
<1>3. ConnTypes'
  <2>1. belief' \in [Desk -> {"unknown", "in", "out"}]
    BY <1>1 DEF SessionInv, ConnTypes
  <2>2. /\ up' \subseteq Desk /\ received' \in [Desk -> Nat]
        /\ inbox' \in [Desk -> Seq(Request)] /\ asked' \in [Desk -> Seq(Request)]
        /\ replies' \in [Desk -> Seq(Reply)]
    BY <1>1
  <2>3. \A d \in Desk : received'[d] <= Len(replies'[d])
    BY <1>2
  <2> QED
    BY <2>1, <2>2, <2>3 DEF ConnTypes
<1>4. RepliesInStep'
  BY <1>2 DEF RepliesInStep
<1>5. ASSUME NEW d \in Desk \ disturbed' PROVE WillKnow(d)'
  <2>1. /\ d \in Desk \ disturbed /\ UserOf[d] \in User
        /\ UserOf[d] \notin rewriting /\ UserOf[d] \notin crossed
        /\ UserOf[d] \in rows <=> UserOf[d] \in dnuser
    BY <1>5, UserOfAssumption DEF Restart
  <2>2. IsSignedIn(UserOf[d])' <=> IsSignedIn(UserOf[d])
    BY <2>1, LoadedUsers DEF RowsInv
  <2>3. Truth(UserOf[d])' = Truth(UserOf[d])
    BY <2>2 DEF Truth
  <2>4. belief'[d] \in {"unknown", Truth(UserOf[d])}
    <3>1. CASE Pending(d)
      BY <1>1, <3>1
    <3>2. CASE ~Pending(d)
      <4>1. /\ received[d] \in Nat /\ Len(replies[d]) \in Nat
            /\ ~(received[d] < Len(replies[d]))
        BY <3>2 DEF Pending, SessionInv, ConnTypes
      <4>2. \A i \in 1..Len(replies[d]) : ~(received[d] < i)
        BY <4>1
      <4>3. WillKnow(d)
        BY <2>1 DEF SessionInv
      <4>4. belief[d] \in {"unknown", Truth(UserOf[d])}
        BY <4>2, <4>3 DEF WillKnow
      <4> QED
        BY <4>4, <3>2, <1>1
    <3> QED
      BY <3>1, <3>2
  <2>5. 1..Len(replies'[d]) = {}
    BY <1>2
  <2> QED
    BY <2>3, <2>4, <2>5 DEF WillKnow
<1> QED
  BY <1>3, <1>4, <1>5 DEF SessionInv

----------------------------------------------------------------------------
(* on_message *)

EventName == {"onlogin", "onlogout", "onchangestate", "onreset", "ongetusers", "ondial",
              "onheartbeat", "ResetConfig", ""}

\* A list of one reply.
LEMMA SaysFacts ==
    ASSUME NEW event \in EventName, NEW result \in Result
    PROVE  /\ Says(event, result) = <<[event |-> event, result |-> result]>>
           /\ [event |-> event, result |-> result] \in Reply
           /\ Says(event, result) \in Seq(Reply) /\ Len(Says(event, result)) = 1
           /\ Says(event, result)[1] = [event |-> event, result |-> result]
<1> DEFINE reply == [event |-> event, result |-> result]
<1>1. Says(event, result) = <<reply>>
  BY DEF Says
<1>2. reply \in Reply
  BY DEF Reply, EventName
<1> HIDE DEF reply
<1>3. <<reply>> \in Seq(Reply) /\ Len(<<reply>>) = 1 /\ <<reply>>[1] = reply
  BY <1>2
<1> QED
  BY <1>1, <1>2, <1>3 DEF reply

\* The events of the kinds.
LEMMA EventOfFacts ==
    /\ EventOf["login"] = "onlogin" /\ EventOf["logout"] = "onlogout"
    /\ EventOf["changestate"] = "onchangestate" /\ EventOf["reset"] = "onreset"
    /\ EventOf["getusers"] = "ongetusers" /\ EventOf["dial"] = "ondial"
    /\ EventOf["heartbeat"] = "onheartbeat" /\ EventOf["ResetConfig"] = "ResetConfig"
  BY DEF EventOf

\* The request at hand, and that it is answered.
LEMMA HandlesFacts ==
    ASSUME NEW d \in Desk, NEW kind, Handles(d, kind)
    PROVE  /\ Head(inbox[d]).kind = kind
           /\ \A list : Sends(d, list) => Answers(d, list)
<1>1. Head(inbox[d]).kind = kind
  BY DEF Handles
<1>2. ASSUME NEW list, Sends(d, list) PROVE Answers(d, list)
  BY <1>2 DEF Handles, Sends, Answers
<1> QED
  BY <1>1, <1>2

\* Requests that get one reply which does not tell who is signed in.
LEMMA SessionOneReply ==
    ASSUME SessionInv, NEW d \in Desk, NEW kind \in Kind, Handles(d, kind),
           NEW result \in Result,
           kind \in {"login", "changestate", "reset", "getusers", "heartbeat", "ResetConfig"},
           kind = "login" => result \notin SignedIn,
           Sends(d, Says(EventOf[kind], result)), disturbed' = disturbed,
           \A u \in User : IsSignedIn(u)' <=> IsSignedIn(u)
    PROVE  SessionInv'
<1> DEFINE event == EventOf[kind]
           list == Says(event, result)
           reply == [event |-> event, result |-> result]
<1>1. event \in EventName /\ event # "onlogout" /\ (event = "onlogin" => kind = "login")
  BY EventOfFacts DEF EventName
<1>2. /\ list \in Seq(Reply) /\ Len(list) = 1 /\ list[1] = reply
      /\ reply.event = event /\ reply.result = result
  BY <1>1, SaysFacts
<1>3. Answers(d, list) /\ Head(inbox[d]).kind = kind
  BY HandlesFacts
<1> HIDE DEF list, reply, event
<1>4. ~Decisive(list[1])
  BY <1>1, <1>2 DEF Decisive
<1>5. \A i \in 1..Len(list) : ~Decisive(list[i])
  BY <1>2, <1>4
<1>6. Len(list) = 1 /\ list[1].event = EventOf[Head(inbox[d]).kind]
  BY <1>2, <1>3 DEF event
<1> QED
  BY <1>2, <1>3, <1>5, <1>6, AnswersAside

\* Replies to payloads that cannot be read say -1, and are no news to a desk.
LEMMA SessionParamError ==
    ASSUME SessionInv, NEW d \in Desk, OnparamError(d)
    PROVE  SessionInv'
<1> DEFINE req == Head(inbox[d])
           event == ErrorEvent(req.kind)
           list == Says(event, "-1")
           reply == [event |-> event, result |-> "-1"]
<1>1. /\ Answers(d, list) /\ (req.kind = "unreadable" \/ ~req.complete)
      /\ disturbed' = disturbed /\ m_DNmap' = m_DNmap
  BY DEF OnparamError, Answers, Sends, serverVars, deskVars
<1>2. req \in Request
  <2>1. inbox[d] \in Seq(Request) /\ inbox[d] # <<>>
    BY <1>1 DEF Answers, SessionInv, ConnTypes
  <2> QED
    BY <2>1
<1> HIDE DEF req
<1>3. req.kind \in Kind /\ req.kind # "GetAgentStatus"
  BY <1>1, <1>2 DEF Request
<1>4. event \in EventName
  <2>1. CASE req.kind \in {"unreadable", "ResetConfig"}
    BY <2>1 DEF ErrorEvent, EventName
  <2>2. CASE req.kind = "heartbeat"
    BY <2>2 DEF ErrorEvent, EventName
  <2>3. CASE req.kind \in {"login", "logout", "changestate", "reset", "getusers", "dial"}
    <3>1. event = EventOf[req.kind]
      BY <2>3 DEF ErrorEvent
    <3> QED
      BY <2>3, <3>1, EventOfFacts DEF EventName
  <2> QED
    BY <1>3, <2>1, <2>2, <2>3 DEF Kind
<1> HIDE DEF event
<1>5. "-1" \in Result /\ "-1" \notin SignedIn /\ "-1" \notin SignedOut
  BY DEF Result, SignedIn, SignedOut
<1>6. /\ list \in Seq(Reply) /\ Len(list) = 1 /\ list[1] = reply /\ reply.result = "-1"
  BY <1>4, <1>5, SaysFacts
<1> HIDE DEF list, reply
<1>7. \A i \in 1..Len(list) : ~Decisive(list[i])
  BY <1>5, <1>6 DEF Decisive
<1>8. ~Plain(Head(inbox[d]))
  BY <1>1 DEF Plain, req
<1>9. \A u \in User : IsSignedIn(u)' <=> IsSignedIn(u)
  BY <1>1 DEF IsSignedIn
<1> QED
  BY <1>1, <1>6, <1>7, <1>8, <1>9, AnswersAside

\* dial gets two replies, and a request without a case none: neither is plain.
LEMMA SessionOddReplies ==
    ASSUME SessionInv, NEW d \in Desk, OutboundCall(d) \/ Silent(d)
    PROVE  SessionInv'
<1>1. PICK kind \in {"dial", "GetAgentStatus"} :
         Handles(d, kind) /\ disturbed' = disturbed /\ m_DNmap' = m_DNmap
  BY DEF OutboundCall, Silent, tableVars
<1>2. Head(inbox[d]).kind = kind
  BY <1>1, HandlesFacts
<1>3. ~Plain(Head(inbox[d]))
  BY <1>2 DEF Plain
<1>4. \A u \in User : IsSignedIn(u)' <=> IsSignedIn(u)
  BY <1>1 DEF IsSignedIn
<1>5. CASE OutboundCall(d)
  <2> DEFINE list == Says("ondial", "any") \o Says("onheartbeat", "any")
  <2>1. Answers(d, list)
    BY <1>5, HandlesFacts DEF OutboundCall
  <2>2. "ondial" \in EventName /\ "onheartbeat" \in EventName /\ "any" \in Result
    BY DEF EventName, Result
  <2>3. /\ Says("ondial", "any") \in Seq(Reply) /\ Says("onheartbeat", "any") \in Seq(Reply)
        /\ Len(Says("ondial", "any")) = 1 /\ Len(Says("onheartbeat", "any")) = 1
        /\ Says("ondial", "any")[1].event = "ondial"
        /\ Says("onheartbeat", "any")[1].event = "onheartbeat"
    <3>1. \A event \in EventName, result \in Result :
             /\ Says(event, result) \in Seq(Reply) /\ Len(Says(event, result)) = 1
             /\ Says(event, result)[1] = [event |-> event, result |-> result]
      BY SaysFacts
    <3>2. /\ [event |-> "ondial", result |-> "any"].event = "ondial"
          /\ [event |-> "onheartbeat", result |-> "any"].event = "onheartbeat"
      OBVIOUS
    <3>3. /\ Says("ondial", "any") \in Seq(Reply) /\ Len(Says("ondial", "any")) = 1
          /\ Says("ondial", "any")[1] = [event |-> "ondial", result |-> "any"]
      BY <2>2, <3>1, Zenon
    <3>4. /\ Says("onheartbeat", "any") \in Seq(Reply) /\ Len(Says("onheartbeat", "any")) = 1
          /\ Says("onheartbeat", "any")[1] = [event |-> "onheartbeat", result |-> "any"]
      BY <2>2, <3>1, Zenon
    <3> QED
      BY <3>2, <3>3, <3>4
  <2>4. /\ list \in Seq(Reply) /\ Len(list) = 2
        /\ list[1].event = "ondial" /\ list[2].event = "onheartbeat"
    BY <2>3
  <2> HIDE DEF list
  <2>5. \A i \in 1..Len(list) : i = 1 \/ i = 2
    BY <2>4
  <2>6. \A i \in 1..Len(list) : ~Decisive(list[i])
    BY <2>4, <2>5 DEF Decisive
  <2> QED
    BY <1>1, <1>3, <1>4, <2>1, <2>4, <2>6, AnswersAside
<1>6. CASE Silent(d)
  <2> DEFINE list == <<>>
  <2>1. list \in Seq(Reply) /\ Len(list) = 0
    OBVIOUS
  <2>2. replies' = [replies EXCEPT ![d] = @ \o <<>>]
    <3>1. replies[d] \in Seq(Reply) /\ replies \in [Desk -> Seq(Reply)]
      BY DEF SessionInv, ConnTypes
    <3>2. replies[d] \o <<>> = replies[d]
      BY <3>1
    <3>3. replies' = replies
      BY <1>6 DEF Silent
    <3> QED
      BY <3>1, <3>2, <3>3
  <2>3. Answers(d, list)
    BY <1>1, <2>2 DEF Handles, Answers
  <2> HIDE DEF list
  <2>4. \A i \in 1..Len(list) : ~Decisive(list[i])
    BY <2>1
  <2> QED
    BY <1>1, <1>3, <1>4, <2>1, <2>3, <2>4, AnswersAside
<1> QED
  BY <1>5, <1>6

\* A new entry signs its user in, and nobody else.
LEMMA NewUser ==
    ASSUME NEW u, NEW dep,
           m_DNmap' = m_DNmap \cup
              {[key |-> u, user |-> u, status |-> "ready", department |-> dep]}
    PROVE  IsSignedIn(u)' /\ \A v \in User \ {u} : IsSignedIn(v)' <=> IsSignedIn(v)
<1> DEFINE new == [key |-> u, user |-> u, status |-> "ready", department |-> dep]
<1>1. m_DNmap' = m_DNmap \cup {new} /\ new.user = u
  OBVIOUS
<1> HIDE DEF new
<1> QED
  BY <1>1 DEF IsSignedIn

\* Logging in again changes the status of an entry.
LEMMA ReadyUsers ==
    ASSUME NEW k, m_DNmap' = MadeReady(m_DNmap, k)
    PROVE  \A u : IsSignedIn(u)' <=> IsSignedIn(u)
<1> TAKE u
<1> DEFINE Changed(e) == IF e.key = k THEN [e EXCEPT !.status = "ready"] ELSE e
<1>1. m_DNmap' = {Changed(e) : e \in m_DNmap}
  BY DEF MadeReady
<1>2. \A e : Changed(e).user = e.user
  OBVIOUS
<1> HIDE DEF Changed
<1> QED
  BY <1>1, <1>2 DEF IsSignedIn

\* Signin and Signout: the reply is decisive and tells what is so afterwards, unless the
\* login has found a ghost.
LEMMA SessionSign ==
    ASSUME SessionInv, NEW d \in Desk,
           \/ \E dep \in Listed : SigninNew(d, dep)
           \/ SigninAgain(d) \/ Signout(d)
    PROVE  SessionInv'
<1> DEFINE u == UserOf[d]
<1>0. \A v : EntryOf(v) # {} <=> IsSignedIn(v)
  BY DEF EntryOf, IsSignedIn
<1>00. \A e \in Desk \ {d} : e \notin disturbed' => e \notin disturbed /\ UserOf[e] # u
  <2>1. disturbed' = Disturbed(d) \/ disturbed' = Disturbed(d) \cup {d}
    BY DEF SigninNew, SigninAgain, Signout
  <2> QED
    BY <2>1 DEF Disturbed
<1>1. \A v \in User \ {u} : IsSignedIn(v)' <=> IsSignedIn(v)
  <2>1. ASSUME NEW dep \in Listed, SigninNew(d, dep)
        PROVE  \A v \in User \ {u} : IsSignedIn(v)' <=> IsSignedIn(v)
    BY <2>1, NewUser DEF SigninNew
  <2>2. CASE SigninAgain(d)
    BY <2>2, ReadyUsers DEF SigninAgain
  <2>3. CASE Signout(d)
    BY <2>3 DEF Signout, EntryOf, IsSignedIn
  <2> QED
    BY <2>1, <2>2, <2>3
<1>2. PICK kind \in {"login", "logout"}, result \in Result :
         /\ Handles(d, kind) /\ Sends(d, Says(EventOf[kind], result))
         /\ kind = "login" => result \in SignedIn /\ (d \notin disturbed' => IsSignedIn(u)')
         /\ kind = "logout" => result \in SignedOut /\ ~IsSignedIn(u)'
  <2>0. EventOf["login"] = "onlogin" /\ EventOf["logout"] = "onlogout"
    BY DEF EventOf
  <2>00. /\ SignedIn \subseteq Result /\ SignedOut \subseteq Result
    BY DEF SignedIn, SignedOut, Result
  <2>1. CASE \E dep \in Listed : SigninNew(d, dep)
    <3>1. /\ Handles(d, "login") /\ Sends(d, Says("onlogin", "DN_OPERATOR_SUCCESSED"))
          /\ IsSignedIn(u)'
      <4>1. PICK dep \in Listed : SigninNew(d, dep)
        BY <2>1
      <4>2. /\ Handles(d, "login") /\ Sends(d, Says("onlogin", "DN_OPERATOR_SUCCESSED"))
            /\ [key |-> u, user |-> u, status |-> "ready", department |-> dep] \in m_DNmap'
        BY <4>1 DEF SigninNew
      <4> QED
        BY <4>2 DEF IsSignedIn
    <3>2. "DN_OPERATOR_SUCCESSED" \in SignedIn
      BY DEF SignedIn
    <3> QED
      BY <2>0, <2>00, <3>1, <3>2
  <2>2. CASE SigninAgain(d)
    <3>1. /\ Handles(d, "login") /\ Sends(d, Says("onlogin", "DN_HAS_SIGNINED"))
          /\ m_DNmap' = MadeReady(m_DNmap, u)
          /\ EntryOf(u) = {} => d \in disturbed'
      BY <2>2 DEF SigninAgain
    <3>2. d \notin disturbed' => IsSignedIn(u)'
      BY <3>1, <1>0, ReadyUsers
    <3>3. "DN_HAS_SIGNINED" \in SignedIn
      BY DEF SignedIn
    <3> QED
      BY <2>0, <2>00, <3>1, <3>2, <3>3
  <2>3. CASE Signout(d)
    <3> DEFINE result == IF EntryOf(u) = {} THEN "DN_INVALIDDN" ELSE "DN_OPERATOR_SUCCESSED"
    <3>1. Handles(d, "logout") /\ Sends(d, Says("onlogout", result)) /\ ~IsSignedIn(u)'
      BY <2>3 DEF Signout, EntryOf, IsSignedIn
    <3>2. result \in SignedOut
      BY DEF SignedOut
    <3> QED
      BY <2>0, <2>00, <3>1, <3>2
  <2> QED
    BY <2>1, <2>2, <2>3
<1> DEFINE event == EventOf[kind]
           reply == [event |-> event, result |-> result]
<1>3. /\ event \in EventName
      /\ event = IF kind = "login" THEN "onlogin" ELSE "onlogout"
  BY EventOfFacts DEF EventName
<1>4. /\ Says(event, result) = <<reply>> /\ reply \in Reply
      /\ reply.event = event /\ reply.result = result
  BY <1>3, SaysFacts
<1>5. Answers(d, <<reply>>) /\ Head(inbox[d]).kind = kind
  BY <1>2, <1>4, HandlesFacts
<1>6. reply.event = EventOf[Head(inbox[d]).kind]
  BY <1>4, <1>5
<1> HIDE DEF reply, event
<1>7. Decisive(reply) /\ (d \notin disturbed' => Told(reply) = Truth(u)')
  <2>1. Told(reply) = IF kind = "login" THEN "in" ELSE "out"
    BY <1>3, <1>4 DEF Told
  <2>2. Truth(u)' = IF IsSignedIn(u)' THEN "in" ELSE "out"
    BY DEF Truth
  <2>3. Decisive(reply)
    BY <1>2, <1>3, <1>4 DEF Decisive
  <2> QED
    BY <1>2, <2>1, <2>2, <2>3
<1> QED
  BY <1>00, <1>1, <1>4, <1>5, <1>6, <1>7, AnswersDecisively

\* changestate and reset change an entry, and keep its user.
LEMMA SessionEntries ==
    ASSUME SessionInv, NEW d \in Desk,
           \/ \E dep \in Listed : ResetDNinfo(d, dep)
           \/ \E status \in ClientStatus : SetDNstatus(d, status)
    PROVE  SessionInv'
<1>1. CASE \E dep \in Listed : ResetDNinfo(d, dep)
  <2>1. PICK dep \in Listed : ResetDNinfo(d, dep)
    BY <1>1
  <2> DEFINE mine == Under(UserOf[d])
             Changed(e) == [e EXCEPT !.status = "ready", !.department = dep]
             result == IF mine = {} THEN "-1" ELSE "any"
  <2>2. /\ m_DNmap' = (m_DNmap \ mine) \cup {Changed(e) : e \in mine}
        /\ Handles(d, "reset") /\ Sends(d, Says("onreset", result)) /\ disturbed' = disturbed
    BY <2>1 DEF ResetDNinfo
  <2>3. \A e : Changed(e).user = e.user
    OBVIOUS
  <2> HIDE DEF Changed
  <2>4. \A u \in User : IsSignedIn(u)' <=> IsSignedIn(u)
    BY <2>2, <2>3 DEF IsSignedIn, Under
  <2>5. result \in Result /\ "reset" \in Kind
    BY DEF Result, Kind
  <2> HIDE DEF result
  <2> QED
    BY <2>2, <2>4, <2>5, SessionOneReply, EventOfFacts
<1>2. CASE \E status \in ClientStatus : SetDNstatus(d, status)
  <2>1. PICK status \in ClientStatus : SetDNstatus(d, status)
    BY <1>2
  <2> DEFINE mine == EntryOf(UserOf[d])
             Changed(e) == [e EXCEPT !.status = status]
             result == IF mine = {} THEN "DN_INVALIDDN" ELSE "DN_OPERATOR_SUCCESSED"
  <2>2. /\ m_DNmap' = (m_DNmap \ mine) \cup {Changed(e) : e \in mine}
        /\ Handles(d, "changestate") /\ Sends(d, Says("onchangestate", result))
        /\ disturbed' = disturbed
    BY <2>1 DEF SetDNstatus
  <2>3. \A e : Changed(e).user = e.user
    OBVIOUS
  <2> HIDE DEF Changed
  <2>4. \A u \in User : IsSignedIn(u)' <=> IsSignedIn(u)
    BY <2>2, <2>3 DEF IsSignedIn, EntryOf
  <2>5. result \in Result /\ "changestate" \in Kind
    BY DEF Result, Kind
  <2> HIDE DEF result
  <2> QED
    BY <2>2, <2>4, <2>5, SessionOneReply, EventOfFacts
<1> QED
  BY <1>1, <1>2

\* The requests that leave the agent table alone and get one reply.
LEMMA SessionAsks ==
    ASSUME SessionInv, NEW d \in Desk,
           \/ \E kind \in Kind : UserNotFound(d, kind)
           \/ SigninInvalid(d) \/ getusers(d) \/ Heartbeat(d) \/ ResetConfig(d)
    PROVE  SessionInv'
<1>1. PICK kind \in Kind, result \in Result :
         /\ kind \in {"login", "changestate", "reset", "getusers", "heartbeat", "ResetConfig"}
         /\ kind = "login" => result \notin SignedIn
         /\ Handles(d, kind) /\ Sends(d, Says(EventOf[kind], result))
         /\ m_DNmap' = m_DNmap /\ disturbed' = disturbed
  <2>0. /\ {"login", "reset", "getusers", "heartbeat", "ResetConfig"} \subseteq Kind
        /\ {"-1", "any", "0", "DN_INVALIDDN", "DN_OPERATOR_SUCCESSED"} \subseteq Result
        /\ "-1" \notin SignedIn /\ "DN_INVALIDDN" \notin SignedIn
    BY DEF Kind, Result, SignedIn
  <2>1. CASE \E k \in Kind : UserNotFound(d, k)
    BY <2>0, <2>1 DEF UserNotFound, tableVars
  <2>2. CASE SigninInvalid(d)
    BY <2>0, <2>2, EventOfFacts DEF SigninInvalid, tableVars
  <2>3. CASE getusers(d)
    <3> DEFINE result == IF Under(UserOf[d]) = {} THEN "DN_INVALIDDN"
                         ELSE "DN_OPERATOR_SUCCESSED"
    <3>1. result \in Result
      BY <2>0
    <3>2. /\ Handles(d, "getusers") /\ Sends(d, Says("ongetusers", result))
          /\ m_DNmap' = m_DNmap /\ disturbed' = disturbed
      BY <2>3 DEF getusers, tableVars
    <3> HIDE DEF result
    <3> QED
      BY <2>0, <3>1, <3>2, EventOfFacts
  <2>4. CASE Heartbeat(d)
    BY <2>0, <2>4, EventOfFacts DEF Heartbeat, tableVars
  <2>5. CASE ResetConfig(d)
    BY <2>0, <2>5, EventOfFacts DEF ResetConfig, tableVars
  <2> QED
    BY <2>1, <2>2, <2>3, <2>4, <2>5
<1>2. \A u \in User : IsSignedIn(u)' <=> IsSignedIn(u)
  BY <1>1 DEF IsSignedIn
<1> QED
  BY <1>1, <1>2, SessionOneReply

\* Every step keeps the invariant.
LEMMA SessionNext ==
    ASSUME SessionInv, RowsInv, [Next]_vars
    PROVE  SessionInv'
<1>1. ASSUME NEW d \in Desk, on_message(d) PROVE SessionInv'
  BY <1>1, SessionParamError, SessionOddReplies, SessionSign, SessionEntries, SessionAsks
     DEF on_message
<1>2. ASSUME UNCHANGED vars PROVE SessionInv'
  <2>1. UNCHANGED <<m_DNmap, up, inbox, asked, replies, received, belief, disturbed>>
    BY <1>2 DEF vars, serverVars, connVars, deskVars
  <2> QED
    <3>1. ConnTypes' /\ RepliesInStep'
      BY <2>1 DEF SessionInv, ConnTypes, RepliesInStep
    <3>2. \A d \in Desk : WillKnow(d) => WillKnow(d)'
      BY <2>1 DEF WillKnow, Truth, IsSignedIn
    <3> QED
      BY <2>1, <3>1, <3>2 DEF SessionInv
<1>3. ASSUME NEW d \in Desk, \/ Open(d) \/ Receive(d) \/ Drop(d) \/ StopListening(d)
                            \/ \E req \in Request : Send(d, req)
      PROVE  SessionInv'
  BY <1>3, SessionOpens, SessionReceive, SessionDrop
<1>4. ASSUME NEW rows \in {dnuser} \cup HalfDone, Restart(rows) PROVE SessionInv'
  BY <1>4, SessionRestart
<1> QED
  BY <1>1, <1>2, <1>3, <1>4, SessionCalls DEF Next

----------------------------------------------------------------------------
(* The rows *)

\* What leaves the signed-in users and the table alone keeps the rows.
LEMMA RowsStay ==
    ASSUME RowsInv, UNCHANGED <<dnuser, rewriting, crossed>>,
           \A u \in User : IsSignedIn(u)' <=> IsSignedIn(u)
    PROVE  RowsInv'
  BY DEF RowsInv

\* Requests keep a row for every user who is signed in.
LEMMA RowsOnMessage ==
    ASSUME RowsInv, NEW d \in Desk, on_message(d)
    PROVE  RowsInv'
<1> DEFINE u == UserOf[d]
<1>1. rewriting' = rewriting /\ u \in User
  BY UserOfAssumption DEF on_message, OnparamError, UserNotFound, SigninInvalid, SigninAgain,
        Signout, SigninNew, ResetDNinfo, SetDNstatus, getusers, OutboundCall, Heartbeat,
        ResetConfig, Silent, Handles, serverVars, callVars
<1>2. ASSUME NEW dep \in Listed, SigninNew(d, dep) PROVE RowsInv'
  <2>1. /\ m_DNmap' = m_DNmap \cup
              {[key |-> u, user |-> u, status |-> "ready", department |-> dep]}
        /\ dnuser' = dnuser \cup {u} /\ crossed' = crossed \ {u}
    BY <1>2 DEF SigninNew
  <2>2. IsSignedIn(u)' /\ \A v \in User \ {u} : IsSignedIn(v)' <=> IsSignedIn(v)
    BY <2>1, NewUser
  <2> QED
    BY <1>1, <2>1, <2>2 DEF RowsInv
<1>3. CASE SigninAgain(d)
  <2>1. m_DNmap' = MadeReady(m_DNmap, u) /\ UNCHANGED <<dnuser, crossed>>
    BY <1>3 DEF SigninAgain
  <2> QED
    BY <1>1, <2>1, ReadyUsers, RowsStay
<1>4. CASE Signout(d)
  <2>1. /\ m_DNmap' = m_DNmap \ EntryOf(u) /\ crossed' = crossed
        /\ dnuser' = IF EntryOf(u) = {} THEN dnuser ELSE dnuser \ {u}
    BY <1>4 DEF Signout
  <2>2. /\ ~IsSignedIn(u)' /\ \A v \in User \ {u} : IsSignedIn(v)' <=> IsSignedIn(v)
        /\ EntryOf(u) = {} <=> ~IsSignedIn(u)
    BY <2>1 DEF IsSignedIn, EntryOf
  <2> QED
    BY <1>1, <2>1, <2>2 DEF RowsInv
<1>5. ASSUME NEW status \in ClientStatus, SetDNstatus(d, status) PROVE RowsInv'
  <2> DEFINE Changed(e) == [e EXCEPT !.status = status]
  <2>1. /\ m_DNmap' = (m_DNmap \ EntryOf(u)) \cup {Changed(e) : e \in EntryOf(u)}
        /\ crossed' = crossed
        /\ dnuser' = IF EntryOf(u) = {} THEN dnuser ELSE dnuser \cup {u}
    BY <1>5 DEF SetDNstatus
  <2>2. \A e : Changed(e).user = e.user
    OBVIOUS
  <2> HIDE DEF Changed
  <2>3. /\ \A v \in User : IsSignedIn(v)' <=> IsSignedIn(v)
        /\ EntryOf(u) = {} <=> ~IsSignedIn(u)
    BY <2>1, <2>2 DEF IsSignedIn, EntryOf
  <2> QED
    BY <1>1, <2>1, <2>3 DEF RowsInv
<1>6. ASSUME NEW dep \in Listed, ResetDNinfo(d, dep) PROVE RowsInv'
  <2> DEFINE Changed(e) == [e EXCEPT !.status = "ready", !.department = dep]
  <2>1. /\ m_DNmap' = (m_DNmap \ Under(u)) \cup {Changed(e) : e \in Under(u)}
        /\ UNCHANGED <<dnuser, crossed>>
    BY <1>6 DEF ResetDNinfo
  <2>2. \A e : Changed(e).user = e.user
    OBVIOUS
  <2> HIDE DEF Changed
  <2>3. \A v \in User : IsSignedIn(v)' <=> IsSignedIn(v)
    BY <2>1, <2>2 DEF IsSignedIn, Under
  <2> QED
    BY <1>1, <2>1, <2>3, RowsStay
<1>7. CASE \/ OnparamError(d) \/ \E kind \in Kind : UserNotFound(d, kind)
           \/ SigninInvalid(d) \/ getusers(d) \/ OutboundCall(d) \/ Heartbeat(d)
           \/ ResetConfig(d) \/ Silent(d)
  <2>1. UNCHANGED <<m_DNmap, dnuser, crossed>>
    BY <1>7 DEF OnparamError, UserNotFound, SigninInvalid, getusers, OutboundCall,
                Heartbeat, ResetConfig, Silent, serverVars, callVars, tableVars
  <2> QED
    BY <1>1, <2>1, RowsStay DEF IsSignedIn
<1> QED
  BY <1>2, <1>3, <1>4, <1>5, <1>6, <1>7 DEF on_message

\* So do the calls, but for a row they are rewriting and one they bring back.
LEMMA RowsCalls ==
    ASSUME RowsInv, Calls
    PROVE  RowsInv'
<1>1. ASSUME NEW v \in User, NEW status \in Status, NEW dep \in Unset,
             GhostEntry(v, status, dep)
      PROVE  RowsInv'
  <2>1. \A u \in User : u # Nobody
    BY UserAssumption DEF Nobody
  <2>2. \A u \in User : IsSignedIn(u)' <=> IsSignedIn(u)
    BY <1>1, <2>1 DEF GhostEntry, IsSignedIn
  <2> QED
    BY <1>1, <2>2, RowsStay DEF GhostEntry, callVars
<1>2. ASSUME NEW k \in Id, RewriteBegins(k) PROVE RowsInv'
  BY <1>2 DEF RewriteBegins, RowsInv, IsSignedIn
<1>3. ASSUME NEW k \in Id, RewriteEnds(k) PROVE RowsInv'
  BY <1>3 DEF RewriteEnds, RowsInv, IsSignedIn, EntryOf
<1> QED
  BY <1>1, <1>2, <1>3 DEF Calls

\* Every step keeps the rows.
LEMMA RowsNext ==
    ASSUME RowsInv, [Next]_vars
    PROVE  RowsInv'
<1>1. ASSUME NEW d \in Desk, \/ Open(d) \/ Receive(d) \/ Drop(d) \/ StopListening(d)
                            \/ \E req \in Request : Send(d, req)
      PROVE  RowsInv'
  <2>1. UNCHANGED <<m_DNmap, dnuser, rewriting, crossed>>
    BY <1>1 DEF Open, Receive, Drop, StopListening, Send, serverVars, callVars, tableVars
  <2> QED
    BY <2>1, RowsStay DEF IsSignedIn
<1>2. ASSUME NEW rows \in {dnuser} \cup HalfDone, Restart(rows) PROVE RowsInv'
  <2>1. dnuser' = rows /\ rewriting' = {} /\ crossed' = {}
    BY <1>2 DEF Restart
  <2>2. \A u : IsSignedIn(u)' <=> u \in rows
    BY <1>2, LoadedUsers
  <2> QED
    BY <2>1, <2>2 DEF RowsInv
<1>3. CASE UNCHANGED vars
  <2>1. UNCHANGED <<m_DNmap, dnuser, rewriting, crossed>>
    BY <1>3 DEF vars, serverVars, callVars
  <2> QED
    BY <2>1, RowsStay DEF IsSignedIn
<1> QED
  BY <1>1, <1>2, <1>3, RowsOnMessage, RowsCalls DEF Next

\* At the start the agents are the rows.
LEMMA RowsInit == Init => RowsInv
<1> SUFFICES ASSUME Init PROVE RowsInv
  OBVIOUS
<1>1. PICK rows \in SUBSET Id : \E department \in [rows -> Unset] :
         dnuser = rows /\ m_DNmap = LoadDNSet(rows, department)
  BY DEF Init
<1>2. PICK department \in [rows -> Unset] : m_DNmap = LoadDNSet(rows, department)
  BY <1>1
<1>3. \A u : IsSignedIn(u) <=> u \in dnuser
  BY <1>1, <1>2, LoadedNames DEF IsSignedIn
<1> QED
  BY <1>3 DEF Init, RowsInv

\* The invariants hold in every state.
LEMMA SessionAlways == Spec => [](SessionInv /\ RowsInv)
<1>1. Init => SessionInv /\ RowsInv
  BY SessionInit, RowsInit
<1>2. SessionInv /\ RowsInv /\ [Next]_vars => SessionInv' /\ RowsInv'
  BY SessionNext, RowsNext
<1> QED
  BY <1>1, <1>2, PTL DEF Spec

----------------------------------------------------------------------------
(* The list of the users *)

\* m_DNmap holds at most one entry for a key, and its DN is the key or missing.
MapTypes ==
    /\ m_DNmap \subseteq Entry
    /\ \A e, f \in m_DNmap : e.key = f.key => e = f
    /\ \A e \in m_DNmap : e.user \in {e.key, Nobody}

\* An iterator comes to every member of a set once, and to nothing else.
LEMMA OrderFacts ==
    ASSUME NEW S \in SUBSET Int, IsFiniteSet(S)
    PROVE  /\ Cardinality(S) \in Nat /\ DOMAIN InOrder(S) = 1..Cardinality(S)
           /\ \A i \in DOMAIN InOrder(S) : InOrder(S)[i] \in S
           /\ \A s \in S : \E i \in DOMAIN InOrder(S) : InOrder(S)[i] = s
           /\ \A i, j \in DOMAIN InOrder(S) : InOrder(S)[i] = InOrder(S)[j] => i = j
<1> DEFINE n == Cardinality(S)
           Below(s) == {m \in S : m < s}
           rank == [s \in S |-> Cardinality(Below(s))]
<1>1. n \in Nat /\ DOMAIN InOrder(S) = 1..n
  BY FS_CardinalityType DEF InOrder
<1>2. ASSUME NEW s \in S PROVE IsFiniteSet(Below(s)) /\ rank[s] \in 0..n - 1
  <2>1. Below(s) \in SUBSET S /\ s \notin Below(s)
    OBVIOUS
  <2>2. /\ IsFiniteSet(Below(s)) /\ Cardinality(Below(s)) <= n
        /\ n = Cardinality(Below(s)) => S = Below(s)
    <3> HIDE DEF Below
    <3> QED
      BY <2>1, FS_Subset
  <2>3. Cardinality(Below(s)) \in Nat
    <3> HIDE DEF Below
    <3> QED
      BY <2>2, FS_CardinalityType
  <2> QED
    BY <1>1, <2>1, <2>2, <2>3
<1>3. ASSUME NEW s \in S, NEW t \in S, s < t PROVE rank[s] < rank[t]
  <2>1. Below(s) \in SUBSET Below(t) /\ s \in Below(t) /\ s \notin Below(s)
    <3>1. s \in Int /\ t \in Int /\ \A m \in S : m \in Int
      OBVIOUS
    <3>2. \A m \in S : m < s => m < t
      BY <1>3, <3>1
    <3>3. ~(s < s)
      BY <3>1
    <3>4. s \in Below(t) /\ s \notin Below(s)
      BY <1>3, <3>3
    <3>5. \A m \in Below(s) : m \in Below(t)
      BY <3>2
    <3> QED
      BY <3>4, <3>5
  <2>2. IsFiniteSet(Below(t))
    BY <1>2
  <2>3. /\ Cardinality(Below(s)) <= Cardinality(Below(t))
        /\ Cardinality(Below(t)) = Cardinality(Below(s)) => Below(t) = Below(s)
    <3> HIDE DEF Below
    <3> QED
      BY <2>1, <2>2, FS_Subset
  <2>4. rank[s] \in 0..n - 1 /\ rank[t] \in 0..n - 1
    BY <1>2
  <2> QED
    BY <1>1, <2>1, <2>3, <2>4
<1>4. \A s \in S : s \in Int
  OBVIOUS
<1> HIDE DEF n
<1>5. rank \in [S -> 0..n - 1] /\ \A s \in S : rank[s] \in 0..n - 1
  <2>1. rank \in [S -> {rank[s] : s \in S}]
    OBVIOUS
  <2> HIDE DEF rank
  <2> QED
    BY <1>2, <2>1
<1>6. \A s \in S : rank[s] = Cardinality({m \in S : m < s})
  OBVIOUS
<1> HIDE DEF rank
<1>7. \A s, t \in S : rank[s] = rank[t] => s = t
  <2> SUFFICES ASSUME NEW s \in S, NEW t \in S, s # t PROVE rank[s] # rank[t]
    OBVIOUS
  <2>1. s < t \/ t < s
    BY <1>4
  <2>2. rank[s] \in Int /\ rank[t] \in Int
    BY <1>5
  <2> QED
    BY <1>3, <2>1, <2>2
<1>8. \A i \in 1..n : \E s \in S : rank[s] = i - 1
  <2>1. rank \in Injection(S, 0..n - 1)
    BY <1>5, <1>7 DEF Injection, IsInjective
  <2>2. IsFiniteSet(0..n - 1) /\ Cardinality(0..n - 1) = n
    <3>1. n \in Nat /\ 0 \in Int /\ n - 1 \in Int
      BY <1>1
    <3>2. /\ IsFiniteSet(0..n - 1)
          /\ Cardinality(0..n - 1) = IF 0 > n - 1 THEN 0 ELSE n - 1 - 0 + 1
      BY <3>1, FS_Interval
    <3>3. (IF 0 > n - 1 THEN 0 ELSE n - 1 - 0 + 1) = n
      BY <3>1
    <3> QED
      BY <3>2, <3>3
  <2>3. rank \in Surjection(S, 0..n - 1)
    BY <2>1, <2>2, FS_Injection DEF n
  <2>4. ASSUME NEW i \in 1..n PROVE i - 1 \in 0..n - 1
    BY <1>1
  <2> QED
    BY <2>3, <2>4 DEF Surjection
<1>9. ASSUME NEW i \in 1..n PROVE InOrder(S)[i] \in S /\ rank[InOrder(S)[i]] = i - 1
  <2>1. InOrder(S)[i] = CHOOSE s \in S : Cardinality({m \in S : m < s}) = i - 1
    BY DEF InOrder, n
  <2>2. \E s \in S : Cardinality({m \in S : m < s}) = i - 1
    BY <1>6, <1>8
  <2>3. InOrder(S)[i] \in S /\ Cardinality({m \in S : m < InOrder(S)[i]}) = i - 1
    BY <2>1, <2>2
  <2> QED
    BY <1>6, <2>3
<1>10. ASSUME NEW s \in S PROVE \E i \in 1..n : InOrder(S)[i] = s
  <2>1. PICK i \in 1..n : i = rank[s] + 1
    BY <1>1, <1>5
  <2>2. rank[s] = i - 1
    BY <1>1, <1>5, <2>1
  <2> QED
    BY <1>7, <1>9, <2>2
<1>11. ASSUME NEW i \in 1..n, NEW j \in 1..n, InOrder(S)[i] = InOrder(S)[j] PROVE i = j
  <2>1. i - 1 = j - 1
    BY <1>9, <1>11
  <2> QED
    BY <1>1, <2>1
<1> QED
  BY <1>1, <1>9, <1>10, <1>11 DEF n

\* GetUserInfolist lists the entries with the department and the status, each once.
LEMMA ListFacts ==
    ASSUME MapTypes, NEW dep, NEW status
    PROVE  LET list == GetUserInfolist(dep, status)
               found == {e \in m_DNmap : /\ dep \in {AllDepartments, e.department}
                                         /\ status \in {AllStates, e.status}}
           IN /\ \E n \in Nat : DOMAIN list = 1..n
              /\ \A i \in DOMAIN list : list[i] \in found
              /\ \A e \in found : \E i \in DOMAIN list : list[i] = e
              /\ \A i, j \in DOMAIN list : list[i] = list[j] => i = j
<1> DEFINE found == {e \in m_DNmap : /\ dep \in {AllDepartments, e.department}
                                     /\ status \in {AllStates, e.status}}
           S == {e.key : e \in found}
           keys == InOrder(S)
           list == GetUserInfolist(dep, status)
<1>1. S \in SUBSET Int /\ IsFiniteSet(S)
  <2>1. S \in SUBSET Id
    BY DEF MapTypes, Entry
  <2>2. IsFiniteSet(Id) /\ Id \in SUBSET Int
    BY UserAssumption, FS_AddElement DEF Id, Nobody
  <2> HIDE DEF S
  <2> QED
    BY <2>1, <2>2, FS_Subset
<1>2. list = [i \in DOMAIN keys |-> CHOOSE e \in found : e.key = keys[i]]
  BY DEF GetUserInfolist
<1>3. \A e \in found : e.key \in S
  OBVIOUS
<1>4. \A u \in S : \E e \in found : e.key = u
  OBVIOUS
<1>5. \A e, f \in found : e.key = f.key => e = f
  BY DEF MapTypes
<1> HIDE DEF found, S, list
<1>6. /\ \E n \in Nat : DOMAIN keys = 1..n
      /\ \A i \in DOMAIN keys : keys[i] \in S
      /\ \A u \in S : \E i \in DOMAIN keys : keys[i] = u
      /\ \A i, j \in DOMAIN keys : keys[i] = keys[j] => i = j
  BY <1>1, OrderFacts
<1> HIDE DEF keys
<1>7. DOMAIN list = DOMAIN keys
  BY <1>2
<1>8. ASSUME NEW i \in DOMAIN list PROVE list[i] \in found /\ list[i].key = keys[i]
  <2>1. \E e \in found : e.key = keys[i]
    BY <1>4, <1>6, <1>7
  <2>2. list[i] = CHOOSE e \in found : e.key = keys[i]
    BY <1>2, <1>7
  <2> QED
    BY <2>1, <2>2
<1>9. ASSUME NEW e \in found PROVE \E i \in DOMAIN list : list[i] = e
  <2>1. PICK i \in DOMAIN keys : keys[i] = e.key
    BY <1>3, <1>6
  <2>2. list[i] \in found /\ list[i].key = e.key
    BY <1>7, <1>8, <2>1
  <2> QED
    BY <1>5, <1>7, <2>2
<1>10. \A i, j \in DOMAIN list : list[i] = list[j] => i = j
  BY <1>6, <1>7, <1>8
<1> QED
  BY <1>6, <1>7, <1>8, <1>9, <1>10 DEF list, found

\* ListData puts every element of a list into the group of its department, once.
LEMMA GroupFacts ==
    ASSUME NEW list, NEW n \in Nat, DOMAIN list = 1..n,
           \A i \in 1..n : list[i].department \in Department,
           \A i, j \in 1..n : list[i] = list[j] => i = j
    PROVE  LET groups == ListData(list) IN
           /\ \A k \in DOMAIN groups : groups[k] # <<>>
           /\ \A k \in DOMAIN groups : \A i \in DOMAIN groups[k] :
                 \E m \in 1..n : groups[k][i] = list[m]
           /\ \A m \in 1..n : \E k \in DOMAIN groups : \E i \in DOMAIN groups[k] :
                 groups[k][i] = list[m]
           /\ \A k, l \in DOMAIN groups : \A i \in DOMAIN groups[k], j \in DOMAIN groups[l] :
                 /\ groups[k][i] = groups[l][j] => k = l /\ i = j
                 /\ groups[k][i].department = groups[l][j].department <=> k = l
<1> DEFINE groups == ListData(list)
           D == {list[i].department : i \in 1..n}
           deps == InOrder(D)
           Of(k) == {i \in 1..n : list[i].department = deps[k]}
           At(k) == InOrder(Of(k))
<1>1. D \in SUBSET Int /\ IsFiniteSet(D)
  <2>1. D \in SUBSET Department
    OBVIOUS
  <2> HIDE DEF D
  <2>2. IsFiniteSet(D)
    BY <2>1, DepartmentAssumption, FS_Subset
  <2>3. \A x \in D : x \in Int
    BY <2>1, DepartmentAssumption
  <2> QED
    BY <2>2, <2>3
<1>2. \A i \in 1..n : list[i].department \in D
  OBVIOUS
<1>3. \A x \in D : \E i \in 1..n : list[i].department = x
  OBVIOUS
<1>4. Departments(list) = deps
  BY DEF Departments
<1> HIDE DEF D
<1>5. /\ \A k \in DOMAIN deps : deps[k] \in D
      /\ \A x \in D : \E k \in DOMAIN deps : deps[k] = x
      /\ \A k, l \in DOMAIN deps : deps[k] = deps[l] => k = l
  BY <1>1, OrderFacts
<1> HIDE DEF deps
<1>6. groups = [k \in DOMAIN deps |-> [j \in DOMAIN At(k) |-> list[At(k)[j]]]]
  BY <1>4 DEF ListData
<1>7. \A k : Of(k) \in SUBSET Int /\ IsFiniteSet(Of(k))
  <2> TAKE k
  <2>1. Of(k) \in SUBSET (1..n) /\ IsFiniteSet(1..n)
    BY FS_Interval
  <2> HIDE DEF Of
  <2> QED
    BY <2>1, FS_Subset
<1>8. \A k : \A i \in Of(k) : i \in 1..n /\ list[i].department = deps[k]
  OBVIOUS
<1>9. \A k : \A i \in 1..n : list[i].department = deps[k] => i \in Of(k)
  OBVIOUS
<1> HIDE DEF Of
<1>10. \A k : /\ \A j \in DOMAIN At(k) : At(k)[j] \in Of(k)
              /\ \A i \in Of(k) : \E j \in DOMAIN At(k) : At(k)[j] = i
              /\ \A i, j \in DOMAIN At(k) : At(k)[i] = At(k)[j] => i = j
  BY <1>7, OrderFacts
<1> HIDE DEF At
<1>11. /\ DOMAIN groups = DOMAIN deps
       /\ \A k \in DOMAIN groups : /\ DOMAIN groups[k] = DOMAIN At(k)
                                   /\ \A j \in DOMAIN At(k) : groups[k][j] = list[At(k)[j]]
  BY <1>6
<1> HIDE DEF groups
<1>12. ASSUME NEW k \in DOMAIN groups, NEW i \in DOMAIN groups[k]
       PROVE  /\ At(k)[i] \in 1..n /\ groups[k][i] = list[At(k)[i]]
              /\ groups[k][i].department = deps[k]
  BY <1>8, <1>10, <1>11
<1>13. ASSUME NEW m \in 1..n
       PROVE  \E k \in DOMAIN groups : \E i \in DOMAIN groups[k] : groups[k][i] = list[m]
  <2>1. PICK k \in DOMAIN deps : deps[k] = list[m].department
    BY <1>2, <1>5
  <2>2. PICK i \in DOMAIN At(k) : At(k)[i] = m
    BY <1>9, <1>10, <2>1
  <2> QED
    BY <1>11, <2>2
<1>14. ASSUME NEW k \in DOMAIN groups PROVE groups[k] # <<>>
  <2>1. PICK i \in 1..n : list[i].department = deps[k]
    BY <1>3, <1>5, <1>11
  <2>2. \E j \in DOMAIN groups[k] : TRUE
    BY <1>9, <1>10, <1>11, <2>1
  <2>3. DOMAIN <<>> = {}
    OBVIOUS
  <2> QED
    BY <2>2, <2>3
<1>15. ASSUME NEW k \in DOMAIN groups, NEW l \in DOMAIN groups,
              NEW i \in DOMAIN groups[k], NEW j \in DOMAIN groups[l]
       PROVE  /\ groups[k][i] = groups[l][j] => k = l /\ i = j
              /\ groups[k][i].department = groups[l][j].department <=> k = l
  <2>1. groups[k][i].department = groups[l][j].department <=> k = l
    BY <1>5, <1>11, <1>12
  <2>2. ASSUME groups[k][i] = groups[l][j] PROVE k = l /\ i = j
    <3>1. k = l
      BY <2>1, <2>2
    <3>2. At(k)[i] = At(k)[j]
      BY <1>12, <2>2, <3>1
    <3> QED
      BY <1>10, <1>11, <3>1, <3>2
  <2> QED
    BY <2>1, <2>2
<1> QED
  BY <1>12, <1>13, <1>14, <1>15 DEF groups

\* The reply to getusers, in a map with one entry for a key.
LEMMA GroupsOfMap == MapTypes => UsersGrouped
<1> DEFINE Matching(dep, status) == {e \in m_DNmap :
                                        /\ dep # AllDepartments => e.department = dep
                                        /\ status # AllStates => e.status = status}
<1> SUFFICES ASSUME MapTypes, NEW dep, NEW status
             PROVE  Partition(ListData(GetUserInfolist(dep, status)), Matching(dep, status))
  BY DEF UsersGrouped
<1> DEFINE list == GetUserInfolist(dep, status)
           groups == ListData(list)
           Places == UNION {{k} \X DOMAIN groups[k] : k \in DOMAIN groups}
           At(p) == groups[p[1]][p[2]]
           found == {e \in m_DNmap : /\ dep \in {AllDepartments, e.department}
                                     /\ status \in {AllStates, e.status}}
<1>1. found = Matching(dep, status)
  OBVIOUS
<1>2. \A e \in found : e.department \in Department
  BY DEF MapTypes, Entry
<1> HIDE DEF list, Matching, found
<1>3. /\ \E n \in Nat : DOMAIN list = 1..n
      /\ \A i \in DOMAIN list : list[i] \in found
      /\ \A e \in found : \E i \in DOMAIN list : list[i] = e
      /\ \A i, j \in DOMAIN list : list[i] = list[j] => i = j
  BY ListFacts DEF list, found
<1>4. PICK n \in Nat : DOMAIN list = 1..n
  BY <1>3
<1>5. /\ \A k \in DOMAIN groups : groups[k] # <<>>
      /\ \A k \in DOMAIN groups : \A i \in DOMAIN groups[k] :
            \E m \in 1..n : groups[k][i] = list[m]
      /\ \A m \in 1..n : \E k \in DOMAIN groups : \E i \in DOMAIN groups[k] :
            groups[k][i] = list[m]
      /\ \A k, l \in DOMAIN groups : \A i \in DOMAIN groups[k], j \in DOMAIN groups[l] :
            /\ groups[k][i] = groups[l][j] => k = l /\ i = j
            /\ groups[k][i].department = groups[l][j].department <=> k = l
  <2>1. /\ \A i \in 1..n : list[i].department \in Department
        /\ \A i, j \in 1..n : list[i] = list[j] => i = j
    BY <1>2, <1>3, <1>4
  <2> QED
    BY <1>4, <2>1, GroupFacts
<1> HIDE DEF groups
<1>6. \A p \in Places : /\ p = <<p[1], p[2]>> /\ p[1] \in DOMAIN groups
                        /\ p[2] \in DOMAIN groups[p[1]]
  OBVIOUS
<1>7. \A k \in DOMAIN groups : \A i \in DOMAIN groups[k] : <<k, i>> \in Places
  OBVIOUS
<1>8. \A k, i : At(<<k, i>>) = groups[k][i]
  OBVIOUS
<1> HIDE DEF Places
<1>9. {At(p) : p \in Places} = found
  <2>1. ASSUME NEW p \in Places PROVE At(p) \in found
    BY <1>3, <1>4, <1>5, <1>6
  <2>2. ASSUME NEW e \in found PROVE \E p \in Places : At(p) = e
    <3>1. PICK m \in 1..n : list[m] = e
      BY <1>3, <1>4
    <3>2. PICK k \in DOMAIN groups : \E i \in DOMAIN groups[k] : groups[k][i] = list[m]
      BY <1>5
    <3>3. PICK i \in DOMAIN groups[k] : groups[k][i] = list[m]
      BY <3>2
    <3> QED
      BY <1>7, <1>8, <3>1, <3>3
  <2> QED
    BY <2>1, <2>2
<1>10. ASSUME NEW p \in Places, NEW q \in Places
       PROVE  /\ At(p) = At(q) => p = q
              /\ At(p).department = At(q).department <=> p[1] = q[1]
  <2>1. /\ groups[p[1]][p[2]] = groups[q[1]][q[2]] => p[1] = q[1] /\ p[2] = q[2]
        /\ groups[p[1]][p[2]].department = groups[q[1]][q[2]].department <=> p[1] = q[1]
    BY <1>5, <1>6
  <2> QED
    BY <1>6, <2>1
<1>11. Partition(groups, found)
  BY <1>5, <1>9, <1>10 DEF Partition, Places
<1> QED
  BY <1>1, <1>11 DEF groups, list

----------------------------------------------------------------------------
(* The types *)

\* The variables the queues do not depend on.
ServerTypes ==
    /\ listening \in BOOLEAN /\ MapTypes /\ disturbed \subseteq Desk
    /\ dnuser \subseteq Id /\ rewriting \subseteq Id /\ crossed \subseteq Id
    /\ sent \in 0..MaxRequests /\ drops \in 0..MaxDrops /\ restarts \in 0..MaxRestarts

\* What a new entry, with the name of its key or none, makes of m_DNmap.
LEMMA MapAdds ==
    ASSUME MapTypes, NEW u \in User, NEW name \in {u, Nobody}, NEW status \in Status,
           NEW dep \in Department, Under(u) = {},
           m_DNmap' = m_DNmap \cup
              {[key |-> u, user |-> name, status |-> status, department |-> dep]}
    PROVE  MapTypes'
<1> DEFINE new == [key |-> u, user |-> name, status |-> status, department |-> dep]
<1>1. new \in Entry /\ new.key = u /\ new.user \in {new.key, Nobody}
  BY DEF Entry, Id
<1>2. \A e \in m_DNmap : e.key # u
  BY DEF Under
<1> HIDE DEF new
<1>3. m_DNmap' = m_DNmap \cup {new}
  BY DEF new
<1> QED
  BY <1>1, <1>2, <1>3 DEF MapTypes

\* What Signout, Signin of an agent who is there, SetDNstatus and ResetDNinfo make of it.
LEMMA MapChanges ==
    ASSUME MapTypes, NEW u \in User
    PROVE  /\ m_DNmap' = MadeReady(m_DNmap, u) => MapTypes'
           /\ m_DNmap' = m_DNmap \ EntryOf(u) => MapTypes'
           /\ \A status \in ClientStatus :
                 m_DNmap' = (m_DNmap \ EntryOf(u)) \cup
                    {[e EXCEPT !.status = status] : e \in EntryOf(u)} => MapTypes'
           /\ \A dep \in Department :
                 m_DNmap' = (m_DNmap \ Under(u)) \cup
                    {[e EXCEPT !.status = "ready", !.department = dep] : e \in Under(u)}
                 => MapTypes'
<1>1. ASSUME m_DNmap' = MadeReady(m_DNmap, u) PROVE MapTypes'
  BY <1>1 DEF MapTypes, MadeReady, Entry, Status, ClientStatus
<1>2. ASSUME m_DNmap' = m_DNmap \ EntryOf(u) PROVE MapTypes'
  BY <1>2 DEF MapTypes
<1>3. ASSUME NEW status \in ClientStatus,
             m_DNmap' = (m_DNmap \ EntryOf(u)) \cup
                {[e EXCEPT !.status = status] : e \in EntryOf(u)}
      PROVE  MapTypes'
  <2> DEFINE Changed(e) == [e EXCEPT !.status = status]
  <2>1. \A e \in m_DNmap : /\ Changed(e) \in Entry
                           /\ Changed(e).key = e.key /\ Changed(e).user = e.user
    BY DEF MapTypes, Entry, Status, ClientStatus
  <2>2. m_DNmap' = (m_DNmap \ EntryOf(u)) \cup {Changed(e) : e \in EntryOf(u)}
    BY <1>3
  <2>3. EntryOf(u) \subseteq m_DNmap
    BY DEF EntryOf
  <2> HIDE DEF Changed
  <2>4. \A f \in m_DNmap' : \E e \in m_DNmap :
           /\ f.key = e.key /\ f.user = e.user /\ f \in Entry
           /\ f = IF e \in EntryOf(u) THEN Changed(e) ELSE e
    BY <2>1, <2>2, <2>3 DEF MapTypes
  <2> QED
    BY <2>4 DEF MapTypes
<1>4. ASSUME NEW dep \in Department,
             m_DNmap' = (m_DNmap \ Under(u)) \cup
                {[e EXCEPT !.status = "ready", !.department = dep] : e \in Under(u)}
      PROVE  MapTypes'
  <2> DEFINE Changed(e) == [e EXCEPT !.status = "ready", !.department = dep]
  <2>1. \A e \in m_DNmap : /\ Changed(e) \in Entry
                           /\ Changed(e).key = e.key /\ Changed(e).user = e.user
    BY DEF MapTypes, Entry, Status, ClientStatus
  <2>2. m_DNmap' = (m_DNmap \ Under(u)) \cup {Changed(e) : e \in Under(u)}
    BY <1>4
  <2>3. Under(u) \subseteq m_DNmap
    BY DEF Under
  <2> HIDE DEF Changed
  <2>4. \A f \in m_DNmap' : \E e \in m_DNmap :
           /\ f.key = e.key /\ f.user = e.user /\ f \in Entry
           /\ f = IF e \in Under(u) THEN Changed(e) ELSE e
    BY <2>1, <2>2, <2>3 DEF MapTypes
  <2> QED
    BY <2>4 DEF MapTypes
<1> QED
  BY <1>1, <1>2, <1>3, <1>4

\* What LoadDNSet makes of a table.
LEMMA MapLoads ==
    ASSUME NEW rows \in SUBSET Id, NEW department \in [rows -> Department],
           m_DNmap' = LoadDNSet(rows, department)
    PROVE  MapTypes'
  BY DEF LoadDNSet, MapTypes, Entry, Status, ClientStatus

\* A table that a request in hand has left half-done has rows of users.
LEMMA HalfDoneRows ==
    ASSUME up \subseteq Desk, dnuser \subseteq Id, NEW rows \in {dnuser} \cup HalfDone
    PROVE  rows \in SUBSET Id
<1>1. \A d \in up : UserOf[d] \in Id
  BY UserOfAssumption DEF Id
<1>2. rows = dnuser \/ \E d \in up : rows = dnuser \cup {UserOf[d]} \/ rows = dnuser \ {UserOf[d]}
  BY DEF HalfDone, InHand
<1> QED
  BY <1>1, <1>2

\* Every step keeps these types.
LEMMA ServerNext ==
    ASSUME SessionInv, ServerTypes, [Next]_vars
    PROVE  ServerTypes'
<1> USE BoundsAssumption
<1>1. ASSUME UNCHANGED m_DNmap PROVE MapTypes'
  BY <1>1 DEF ServerTypes, MapTypes
<1>2. CASE UNCHANGED vars
  BY <1>1, <1>2 DEF vars, serverVars, callVars, deskVars, counters, ServerTypes
<1>3. ASSUME NEW d \in Desk, \/ Open(d) \/ Receive(d) \/ StopListening(d) \/ Drop(d)
                            \/ \E req \in Request : Send(d, req)
      PROVE  ServerTypes'
  <2>1. CASE Open(d) \/ Receive(d)
    BY <1>1, <2>1 DEF Open, Receive, serverVars, callVars, deskVars, counters, ServerTypes
  <2>2. CASE StopListening(d)
    BY <1>1, <2>2 DEF StopListening, tableVars, deskVars, counters, ServerTypes
  <2>3. CASE Drop(d)
    BY <1>1, <2>3 DEF Drop, serverVars, callVars, ServerTypes
  <2>4. ASSUME NEW req \in Request, Send(d, req) PROVE ServerTypes'
    BY <1>1, <2>4 DEF Send, serverVars, callVars, deskVars, ServerTypes
  <2> QED
    BY <1>3, <2>1, <2>2, <2>3, <2>4
<1>4. ASSUME NEW d \in Desk, on_message(d) PROVE ServerTypes'
  <2>0. UserOf[d] \in User /\ UserOf[d] \in Id /\ MapTypes
    BY UserOfAssumption DEF ServerTypes, Id
  <2>1. UNCHANGED <<listening, rewriting, sent, drops, restarts>>
    BY <1>4 DEF on_message, OnparamError, UserNotFound, SigninInvalid, SigninAgain, Signout,
                SigninNew, ResetDNinfo, SetDNstatus, getusers, OutboundCall, Heartbeat,
                ResetConfig, Silent, Handles, serverVars, callVars, counters
  <2>2. disturbed' \subseteq Desk
    BY <1>4 DEF on_message, OnparamError, UserNotFound, SigninInvalid, SigninAgain, Signout,
                SigninNew, ResetDNinfo, SetDNstatus, getusers, OutboundCall, Heartbeat,
                ResetConfig, Silent, Disturbed, deskVars, ServerTypes
  <2>3. dnuser' \subseteq Id /\ crossed' \subseteq Id
    BY <1>4, <2>0 DEF on_message, OnparamError, UserNotFound, SigninInvalid, SigninAgain,
                Signout, SigninNew, ResetDNinfo, SetDNstatus, getusers, OutboundCall,
                Heartbeat, ResetConfig, Silent, serverVars, callVars, tableVars, ServerTypes
  <2>4. MapTypes'
    <3>2. ASSUME NEW dep \in Listed, SigninNew(d, dep) PROVE MapTypes'
      <4>1. "ready" \in Status
        BY DEF Status, ClientStatus
      <4>2. dep \in Department
        BY DepartmentAssumption
      <4> QED
        BY <2>0, <3>2, <4>1, <4>2, MapAdds DEF SigninNew
    <3>3. CASE SigninAgain(d)
      BY <2>0, <3>3, MapChanges DEF SigninAgain
    <3>4. CASE Signout(d)
      BY <2>0, <3>4, MapChanges DEF Signout
    <3>5. ASSUME NEW status \in ClientStatus, SetDNstatus(d, status) PROVE MapTypes'
      BY <2>0, <3>5, MapChanges DEF SetDNstatus
    <3>6. ASSUME NEW dep \in Listed, ResetDNinfo(d, dep) PROVE MapTypes'
      <4>1. dep \in Department
        BY DepartmentAssumption
      <4> QED
        BY <2>0, <3>6, <4>1, MapChanges DEF ResetDNinfo
    <3>7. CASE \/ OnparamError(d) \/ \E kind \in Kind : UserNotFound(d, kind)
               \/ SigninInvalid(d) \/ getusers(d) \/ OutboundCall(d) \/ Heartbeat(d)
               \/ ResetConfig(d) \/ Silent(d)
      BY <1>1, <3>7 DEF OnparamError, UserNotFound, SigninInvalid, getusers, OutboundCall,
                        Heartbeat, ResetConfig, Silent, serverVars, tableVars
    <3> QED
      BY <1>4, <3>2, <3>3, <3>4, <3>5, <3>6, <3>7 DEF on_message
  <2> QED
    BY <2>1, <2>2, <2>3, <2>4 DEF ServerTypes
<1>5. CASE Calls
  <2>1. ASSUME NEW u \in User, NEW status \in Status, NEW dep \in Unset,
               GhostEntry(u, status, dep)
        PROVE  ServerTypes'
    <3>1. MapTypes'
      <4>1. /\ Under(u) = {}
            /\ m_DNmap' = m_DNmap \cup
                  {[key |-> u, user |-> Nobody, status |-> status, department |-> dep]}
        BY <2>1 DEF GhostEntry
      <4>2. Nobody \in {u, Nobody} /\ MapTypes /\ dep \in Department
        BY DepartmentAssumption DEF ServerTypes
      <4> QED
        BY <4>1, <4>2, MapAdds
    <3> QED
      BY <2>1, <3>1 DEF GhostEntry, callVars, deskVars, counters, ServerTypes
  <2>2. ASSUME NEW r \in Id, RewriteBegins(r) \/ RewriteEnds(r) PROVE ServerTypes'
    BY <1>1, <2>2 DEF RewriteBegins, RewriteEnds, deskVars, counters, ServerTypes
  <2> QED
    BY <1>5, <2>1, <2>2 DEF Calls
<1>6. ASSUME NEW rows \in {dnuser} \cup HalfDone, Restart(rows) PROVE ServerTypes'
  <2>1. rows \in SUBSET Id
    BY HalfDoneRows DEF SessionInv, ConnTypes, ServerTypes
  <2>2. PICK department \in [rows -> Unset] : m_DNmap' = LoadDNSet(rows, department)
    BY <1>6 DEF Restart
  <2>3. MapTypes'
    <3>1. department \in [rows -> Department]
      BY DepartmentAssumption
    <3> QED
      BY <2>1, <2>2, <3>1, MapLoads
  <2> QED
    BY <1>6, <2>1, <2>3 DEF Restart, ServerTypes
<1> QED
  BY <1>2, <1>3, <1>4, <1>5, <1>6 DEF Next

\* The table is loaded with one entry for a row.
LEMMA ServerInit == Init => ServerTypes
<1> SUFFICES ASSUME Init PROVE ServerTypes
  OBVIOUS
<1>1. PICK rows \in SUBSET Id : \E department \in [rows -> Unset] :
         dnuser = rows /\ m_DNmap = LoadDNSet(rows, department)
  BY DEF Init
<1>2. PICK department \in [rows -> Unset] : m_DNmap = LoadDNSet(rows, department)
  BY <1>1
<1>3. department \in [rows -> Department]
  BY DepartmentAssumption
<1>4. MapTypes
  BY <1>1, <1>2, <1>3 DEF LoadDNSet, MapTypes, Entry, Status, ClientStatus
<1> QED
  BY <1>1, <1>4, BoundsAssumption DEF Init, ServerTypes

\* The types hold in every state.
LEMMA ServerAlways == Spec => []ServerTypes
<1>1. SessionInv /\ ServerTypes /\ [Next]_vars => ServerTypes'
  BY ServerNext
<1> QED
  BY <1>1, ServerInit, SessionAlways, PTL DEF Spec

----------------------------------------------------------------------------
(* What a desk may rely on *)

\* Replies carry no number of the request they answer (on_callapclient): a desk that sent
\* plain requests only finds the reply to the i-th at place i, on every connection.
THEOREM RepliesStayInStep == Spec => []RepliesInStep
<1>1. SessionInv => RepliesInStep
  BY DEF SessionInv
<1> QED
  BY <1>1, SessionAlways, PTL

\* A desk that has nothing under way is right about whether GetDNbyagentid finds its user,
\* through lost connections and crashes of the server, unless another desk signed the user
\* in or out, a login found a ghost, or the row was being rewritten at the crash or had been
\* across a logout.  (RowsInv ties the table a restart loads to the map that is lost.)
THEOREM BeliefsAreTrue == Spec => []BeliefTrue
<1>1. ASSUME SessionInv PROVE BeliefTrue
  <2> SUFFICES ASSUME NEW d \in Desk \ disturbed, ~Pending(d)
               PROVE  /\ belief[d] = "in" => EntryOf(UserOf[d]) # {}
                      /\ belief[d] = "out" => EntryOf(UserOf[d]) = {}
    BY DEF BeliefTrue
  <2>1. /\ received[d] \in Nat /\ Len(replies[d]) \in Nat /\ ~(received[d] < Len(replies[d]))
    BY <1>1 DEF Pending, SessionInv, ConnTypes
  <2>2. \A i \in 1..Len(replies[d]) : ~(received[d] < i)
    BY <2>1
  <2>3. WillKnow(d)
    BY <1>1 DEF SessionInv
  <2>4. belief[d] \in {"unknown", Truth(UserOf[d])}
    BY <2>2, <2>3 DEF WillKnow
  <2> QED
    BY <2>4 DEF Truth, IsSignedIn, EntryOf
<1> QED
  BY <1>1, SessionAlways, PTL

\* The reply to getusers names every agent with the department and the status asked for
\* once, in the group of the agent's department, whatever the map holds.
THEOREM UsersStayGrouped == Spec => []UsersGrouped
<1>1. ServerTypes => UsersGrouped
  BY GroupsOfMap DEF ServerTypes
<1> QED
  BY <1>1, ServerAlways, PTL

\* Requests and replies are well-formed, no more replies arrive than were sent, and
\* on_callapclient keeps one entry for a key.
THEOREM TypesHold == Spec => []TypeOK
<1>1. ASSUME SessionInv, ServerTypes PROVE TypeOK
  <2>1. ASSUME NEW k \in Id PROVE Cardinality(Under(k)) <= 1
    <3>1. CASE Under(k) = {}
      BY <3>1, FS_EmptySet
    <3>2. CASE Under(k) # {}
      <4>1. PICK e \in Under(k) : TRUE
        BY <3>2
      <4>2. Under(k) = {e}
        BY <1>1, <4>1 DEF Under, ServerTypes, MapTypes
      <4> QED
        BY <4>2, FS_Singleton
    <3> QED
      BY <3>1, <3>2
  <2>2. ASSUME NEW d \in Desk PROVE received[d] \in 0..Len(replies[d])
    BY <1>1 DEF SessionInv, ConnTypes
  <2> QED
    BY <1>1, <2>1, <2>2 DEF TypeOK, SessionInv, ConnTypes, ServerTypes, MapTypes
<1> QED
  BY <1>1, SessionAlways, ServerAlways, PTL

=============================================================================

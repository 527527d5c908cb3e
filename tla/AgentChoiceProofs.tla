------------------------- MODULE AgentChoiceProofs -------------------------
(***************************************************************************)
(* What the rules of GetavailableAgent return, and what the counters they  *)
(* compare mean, for any number of agents, any time and any number of      *)
(* calls.                                                                  *)
(*                                                                         *)
(* A scan is a recursive function.  That it is defined, and what it has    *)
(* found after i entries, is proved by induction over a set of numbers.    *)
(***************************************************************************)
EXTENDS AgentChoice, WellFoundedInduction, TLAPS

----------------------------------------------------------------------------
(* Recursion over the entries *)

\* A set of numbers with 0 and with the successor of every member is all of them.
LEMMA NatSets ==
    ASSUME NEW T \in SUBSET Nat, 0 \in T, \A n \in T : n + 1 \in T
    PROVE  T = Nat
<1> SUFFICES ASSUME T # Nat PROVE FALSE
  OBVIOUS
<1> DEFINE C == Nat \ T
           R == {ss \in Nat \X Nat : ss[1] < ss[2]}
<1>1. IsWellFoundedOn(R, Nat)
  BY NatLessThanWellFounded DEF OpToRel
<1>2. C \in SUBSET Nat /\ C # {}
  OBVIOUS
<1>3. PICK m \in C : \A k \in C : ~ (<<k, m>> \in R)
  <2> HIDE DEF R, C
  <2> QED
    BY <1>1, <1>2, WFMin
<1>4. m \in Nat /\ m # 0 /\ m - 1 \in Nat /\ m - 1 < m
  BY <1>3
<1>5. m - 1 \notin C
  BY <1>3, <1>4
<1>6. m - 1 \in T /\ m - 1 + 1 = m
  BY <1>4, <1>5
<1> QED
  BY <1>3, <1>6

\* The local variables of a scan.
Local == [maxidelminiute : Int, dn : Nat]

\* There is a function that starts from x and goes on by b, entry by entry.
LEMMA PassExists ==
    ASSUME NEW x \in Local, NEW b \in [Local \X Nat -> Local]
    PROVE  \E f \in [Nat -> Local] : /\ f[0] = x
                                 /\ \A i \in Nat \ {0} : f[i] = b[<<f[i - 1], i>>]
<1> DEFINE Approx(n, g) == /\ g \in [0..n -> Local] /\ g[0] = x
                           /\ \A i \in 1..n : g[i] = b[<<g[i - 1], i>>]
           T == {n \in Nat : \E g : Approx(n, g)}
           G(n) == CHOOSE g : Approx(n, g)
           f == [n \in Nat |-> G(n)[n]]
<1>1. T = Nat
  <2>1. 0 \in T
    <3>1. Approx(0, [i \in 0..0 |-> x])
      OBVIOUS
    <3> QED
      BY <3>1
  <2>2. ASSUME NEW n \in T PROVE n + 1 \in T
    <3>1. PICK g : Approx(n, g)
      OBVIOUS
    <3> DEFINE y == b[<<g[n], n + 1>>]
               h == [i \in 0..n + 1 |-> IF i <= n THEN g[i] ELSE y]
    <3>2. n \in Nat /\ g[n] \in Local /\ n + 1 \in Nat
      BY <3>1
    <3>3. y \in Local
      BY <3>2
    <3> HIDE DEF y
    <3>4. h \in [0..n + 1 -> Local]
      <4>1. ASSUME NEW i \in 0..n + 1, i <= n PROVE g[i] \in Local
        BY <3>1, <3>2, <4>1
      <4> QED
        BY <3>3, <4>1
    <3>5. h[0] = x
      BY <3>1, <3>2
    <3>6. ASSUME NEW i \in 1..n + 1 PROVE h[i] = b[<<h[i - 1], i>>]
      <4>1. CASE i <= n
        <5>1. i \in 1..n /\ i - 1 <= n /\ i \in 0..n + 1 /\ i - 1 \in 0..n + 1
          BY <3>2, <4>1
        <5>2. g[i] = b[<<g[i - 1], i>>]
          BY <3>1, <5>1
        <5>3. h[i] = g[i] /\ h[i - 1] = g[i - 1]
          BY <4>1, <5>1
        <5> QED
          BY <5>2, <5>3
      <4>2. CASE ~(i <= n)
        <5>1. i = n + 1 /\ i - 1 = n /\ i \in 0..n + 1 /\ n \in 0..n + 1 /\ n <= n
          BY <3>2, <4>2
        <5>2. h[i] = y /\ h[i - 1] = g[n]
          BY <4>2, <5>1
        <5> QED
          BY <5>1, <5>2 DEF y
      <4> QED
        BY <4>1, <4>2
    <3>7. Approx(n + 1, h)
      BY <3>4, <3>5, <3>6
    <3> HIDE DEF h
    <3> QED
      BY <3>2, <3>7
  <2> HIDE DEF T
  <2>3. T \in SUBSET Nat
    BY DEF T
  <2> QED
    BY <2>1, <2>2, <2>3, NatSets
<1>2. ASSUME NEW n \in Nat, NEW g, NEW h, g[0] = x, h[0] = x,
             \A i \in 1..n : g[i] = b[<<g[i - 1], i>>],
             \A i \in 1..n : h[i] = b[<<h[i - 1], i>>]
      PROVE  g[n] = h[n]
  <2> DEFINE U == {i \in Nat : i <= n => g[i] = h[i]}
  <2>1. 0 \in U
    BY <1>2
  <2>2. ASSUME NEW i \in U PROVE i + 1 \in U
    <3> SUFFICES ASSUME i + 1 <= n PROVE g[i + 1] = h[i + 1]
      BY <2>2
    <3>1. i \in Nat /\ i + 1 \in 1..n /\ i + 1 - 1 = i /\ i <= n
      BY <1>2
    <3>2. g[i] = h[i]
      BY <3>1
    <3>3. g[i + 1] = b[<<g[i], i + 1>>] /\ h[i + 1] = b[<<h[i], i + 1>>]
      BY <1>2, <3>1
    <3> QED
      BY <3>2, <3>3
  <2>3. U = Nat
    <3>1. U \in SUBSET Nat
      OBVIOUS
    <3> HIDE DEF U
    <3> QED
      BY <2>1, <2>2, <3>1, NatSets
  <2> QED
    BY <1>2, <2>3
<1>3. \A n \in Nat : Approx(n, G(n))
  <2> SUFFICES ASSUME NEW n \in Nat PROVE Approx(n, G(n))
    OBVIOUS
  <2>1. \E g : Approx(n, g)
    BY <1>1
  <2> HIDE DEF Approx
  <2> QED
    BY <2>1
<1>4. f[0] = x /\ f \in [Nat -> Local]
  <2>1. \A n \in Nat : G(n)[n] \in Local
    <3> SUFFICES ASSUME NEW n \in Nat PROVE G(n)[n] \in Local
      OBVIOUS
    <3> HIDE DEF G
    <3>1. Approx(n, G(n))
      BY <1>3
    <3>2. G(n) \in [0..n -> Local]
      BY <3>1
    <3>3. n \in 0..n
      OBVIOUS
    <3> QED
      BY <3>2, <3>3
  <2>2. G(0)[0] = x
    BY <1>3
  <2> HIDE DEF G
  <2> QED
    BY <2>1, <2>2
<1>5. ASSUME NEW i \in Nat, i # 0 PROVE f[i] = b[<<f[i - 1], i>>]
  <2>1. i - 1 \in Nat /\ i \in 1..i /\ \A j \in 1..i - 1 : j \in 1..i
    BY <1>5
  <2>2. Approx(i, G(i)) /\ Approx(i - 1, G(i - 1))
    BY <1>3, <2>1
  <2>3. G(i)[0] = x /\ G(i - 1)[0] = x
        /\ (\A j \in 1..i - 1 : G(i)[j] = b[<<G(i)[j - 1], j>>])
        /\ (\A j \in 1..i - 1 : G(i - 1)[j] = b[<<G(i - 1)[j - 1], j>>])
    BY <2>1, <2>2
  <2>4. G(i)[i] = b[<<G(i)[i - 1], i>>]
    BY <2>1, <2>2
  <2> HIDE DEF G
  <2>5. G(i)[i - 1] = G(i - 1)[i - 1]
    BY <1>2, <2>1, <2>3
  <2> QED
    BY <2>1, <2>4, <2>5
<1> HIDE DEF f
<1> QED
  BY <1>4, <1>5

----------------------------------------------------------------------------
(* The scans *)

\* A scan that changes its result only to the entry it looks at, a ready one,
\* returns a ready agent or none; it returns one when some ready agent is always
\* taken by a scan that has found nobody.
LEMMA ScanReturns ==
    ASSUME NEW f, NEW H \in SUBSET ReadyDNs, NDN \in Nat,
           f[0] \in Local, f[0].dn = NoDN,
           \A i \in 1..NDN : f[i - 1] \in Local =>
                /\ f[i] \in Local
                /\ f[i] = f[i - 1] \/ (f[i].dn = i /\ i \in ReadyDNs),
           \A i \in H : f[i - 1] = f[0] => f[i].dn = i
    PROVE  /\ f[NDN].dn \in ReadyDNs \cup {NoDN}
           /\ H # {} => f[NDN].dn \in ReadyDNs
<1> DEFINE P(i) == /\ f[i] \in Local
                   /\ f[i] = f[0] \/ f[i].dn \in ReadyDNs
                   /\ \A h \in H : h <= i => f[i].dn \in ReadyDNs
           T == {i \in Nat : i <= NDN => P(i)}
<1>0. ReadyDNs \subseteq 1..NDN /\ NoDN \notin ReadyDNs
  BY DEF ReadyDNs, DN, NoDN
<1>1. 0 \in T
  <2>1. \A h \in H : ~(h <= 0)
    BY <1>0
  <2> QED
    BY <2>1
<1>2. ASSUME NEW i \in T PROVE i + 1 \in T
  <2> SUFFICES ASSUME i + 1 <= NDN PROVE P(i + 1)
    OBVIOUS
  <2>1. i \in Nat /\ i <= NDN /\ i + 1 \in 1..NDN /\ i + 1 - 1 = i
    OBVIOUS
  <2>2. P(i)
    BY <2>1
  <2>3. /\ f[i + 1] \in Local
        /\ f[i + 1] = f[i] \/ (f[i + 1].dn = i + 1 /\ i + 1 \in ReadyDNs)
    BY <2>1, <2>2
  <2>4. f[i + 1] = f[0] \/ f[i + 1].dn \in ReadyDNs
    BY <2>2, <2>3
  <2>5. ASSUME NEW h \in H, h <= i + 1 PROVE f[i + 1].dn \in ReadyDNs
    <3>1. CASE f[i] = f[0]
      <4>1. ~(h <= i)
        BY <1>0, <2>2, <3>1
      <4>2. h = i + 1
        BY <1>0, <2>1, <2>5, <4>1
      <4> QED
        BY <2>1, <3>1, <4>2
    <3>2. CASE f[i] # f[0]
      BY <2>2, <2>3, <3>2
    <3> QED
      BY <3>1, <3>2
  <2> QED
    BY <2>3, <2>4, <2>5
<1>3. T = Nat
  <2>1. T \in SUBSET Nat
    OBVIOUS
  <2> HIDE DEF T
  <2> QED
    BY <1>1, <1>2, <2>1, NatSets
<1>4. P(NDN)
  BY <1>3
<1>5. \A h \in H : h <= NDN
  BY <1>0
<1> QED
  BY <1>4, <1>5

\* The limit is a number.
LEMMA LimitInt == Limit \in Int
  BY SMT DEF Limit

\* What the proofs about the scans need of the state.
Typed ==
    /\ NDN \in Nat
    /\ now \in Int
    /\ status \in [DN -> {"none", "ready", "busy"}]
    /\ m_idelminiutes \in [DN -> Int]
    /\ m_callminiutes \in [DN -> Int]
    /\ m_calltimes \in [DN -> Int]

\* The pass of the idle rule, entry by entry.
LEMMA IdlePass ==
    ASSUME Typed
    PROVE  \E f : /\ f[0] = [maxidelminiute |-> 0, dn |-> NoDN]
                  /\ \A i \in Nat \ {0} :
                        f[i] = IF i \in ReadyDNs /\ f[i - 1].maxidelminiute < Getidelminiute(i)
                               THEN [maxidelminiute |-> Getidelminiute(i), dn |-> i]
                               ELSE f[i - 1]
                  /\ GetAgent_idel_agent = f[NDN].dn
<1> DEFINE x == [maxidelminiute |-> 0, dn |-> NoDN]
           B(r, i) == IF i \in ReadyDNs /\ r.maxidelminiute < Getidelminiute(i)
                      THEN [maxidelminiute |-> Getidelminiute(i), dn |-> i] ELSE r
           b == [p \in Local \X Nat |-> B(p[1], p[2])]
<1>1. x \in Local
  BY DEF Local, NoDN
<1>2. ASSUME NEW r \in Local, NEW i \in Nat PROVE B(r, i) \in Local
  <2>1. i \in ReadyDNs => Getidelminiute(i) \in Int
    BY DEF Typed, ReadyDNs, Getidelminiute
  <2> QED
    BY <2>1 DEF Local
<1>3. b \in [Local \X Nat -> Local]
  <2> HIDE DEF B
  <2> QED
    BY <1>2
<1>4. PICK f \in [Nat -> Local] : /\ f[0] = x
                                  /\ \A i \in Nat \ {0} : f[i] = b[<<f[i - 1], i>>]
  <2> HIDE DEF b, x
  <2> QED
    BY <1>1, <1>3, PassExists
<1>5. ASSUME NEW i \in Nat, i # 0 PROVE f[i] = B(f[i - 1], i)
  <2>1. i - 1 \in Nat /\ f[i - 1] \in Local
    BY <1>5
  <2>2. b[<<f[i - 1], i>>] = B(f[i - 1], i)
    <3> HIDE DEF B
    <3> QED
      BY <2>1
  <2> QED
    BY <1>4, <1>5, <2>2
<1>6. f = [i \in Nat |-> IF i = 0 THEN x ELSE B(f[i - 1], i)]
  <2> HIDE DEF B, x
  <2> QED
    BY <1>4, <1>5
<1>7. PICK g : /\ g = [i \in Nat |-> IF i = 0 THEN x ELSE B(g[i - 1], i)]
               /\ GetAgent_idel_agent = g[NDN].dn
  BY <1>6, Zenon DEF GetAgent_idel_agent, Scan
<1>8. g[0] = x /\ \A i \in Nat \ {0} : g[i] = B(g[i - 1], i)
  <2> HIDE DEF B, x
  <2> QED
    BY <1>7
<1> QED
  BY <1>7, <1>8

\* The pass of the round-robin rule.
LEMMA RobinPass ==
    ASSUME Typed
    PROVE  \E f : /\ f[0] = [maxidelminiute |-> 0, dn |-> NoDN]
                  /\ \A i \in Nat \ {0} :
                        f[i] = IF f[i - 1].dn = NoDN /\ i \in ReadyDNs
                               THEN [f[i - 1] EXCEPT !.dn = i]
                               ELSE f[i - 1]
                  /\ GetAgent_robin = f[NDN].dn
<1> DEFINE x == [maxidelminiute |-> 0, dn |-> NoDN]
           B(r, i) == IF r.dn = NoDN /\ i \in ReadyDNs
                      THEN [r EXCEPT !.dn = i] ELSE r
           b == [p \in Local \X Nat |-> B(p[1], p[2])]
<1>1. x \in Local
  BY DEF Local, NoDN
<1>2. ASSUME NEW r \in Local, NEW i \in Nat PROVE B(r, i) \in Local
  BY DEF Local
<1>3. b \in [Local \X Nat -> Local]
  <2> HIDE DEF B
  <2> QED
    BY <1>2
<1>4. PICK f \in [Nat -> Local] : /\ f[0] = x
                                  /\ \A i \in Nat \ {0} : f[i] = b[<<f[i - 1], i>>]
  <2> HIDE DEF b, x
  <2> QED
    BY <1>1, <1>3, PassExists
<1>5. ASSUME NEW i \in Nat, i # 0 PROVE f[i] = B(f[i - 1], i)
  <2>1. i - 1 \in Nat /\ f[i - 1] \in Local
    BY <1>5
  <2>2. b[<<f[i - 1], i>>] = B(f[i - 1], i)
    <3> HIDE DEF B
    <3> QED
      BY <2>1
  <2> QED
    BY <1>4, <1>5, <2>2
<1>6. f = [i \in Nat |-> IF i = 0 THEN x ELSE B(f[i - 1], i)]
  <2> HIDE DEF B, x
  <2> QED
    BY <1>4, <1>5
<1>7. PICK g : /\ g = [i \in Nat |-> IF i = 0 THEN x ELSE B(g[i - 1], i)]
               /\ GetAgent_robin = g[NDN].dn
  BY <1>6, Zenon DEF GetAgent_robin, Scan
<1>8. g[0] = x /\ \A i \in Nat \ {0} : g[i] = B(g[i - 1], i)
  <2> HIDE DEF B, x
  <2> QED
    BY <1>7
<1> QED
  BY <1>7, <1>8

\* The pass of the rule that compares talk times.
LEMMA TalkPass ==
    ASSUME Typed
    PROVE  \E f : /\ f[0] = [maxidelminiute |-> Limit, dn |-> NoDN]
                  /\ \A i \in Nat \ {0} :
                        f[i] = IF i \in ReadyDNs /\ f[i - 1].maxidelminiute > m_callminiutes[i]
                               THEN [maxidelminiute |-> m_idelminiutes[i], dn |-> i]
                               ELSE f[i - 1]
                  /\ GetAgent_least_talk_time = f[NDN].dn
<1> DEFINE x == [maxidelminiute |-> Limit, dn |-> NoDN]
           B(r, i) == IF i \in ReadyDNs /\ r.maxidelminiute > m_callminiutes[i]
                      THEN [maxidelminiute |-> m_idelminiutes[i], dn |-> i] ELSE r
           b == [p \in Local \X Nat |-> B(p[1], p[2])]
<1>1. x \in Local
  BY LimitInt DEF Local, NoDN
<1>2. ASSUME NEW r \in Local, NEW i \in Nat PROVE B(r, i) \in Local
  <2>1. i \in ReadyDNs => m_idelminiutes[i] \in Int
    BY DEF Typed, ReadyDNs
  <2> QED
    BY <2>1 DEF Local
<1>3. b \in [Local \X Nat -> Local]
  <2> HIDE DEF B
  <2> QED
    BY <1>2
<1>4. PICK f \in [Nat -> Local] : /\ f[0] = x
                                  /\ \A i \in Nat \ {0} : f[i] = b[<<f[i - 1], i>>]
  <2> HIDE DEF b, x
  <2> QED
    BY <1>1, <1>3, PassExists
<1>5. ASSUME NEW i \in Nat, i # 0 PROVE f[i] = B(f[i - 1], i)
  <2>1. i - 1 \in Nat /\ f[i - 1] \in Local
    BY <1>5
  <2>2. b[<<f[i - 1], i>>] = B(f[i - 1], i)
    <3> HIDE DEF B
    <3> QED
      BY <2>1
  <2> QED
    BY <1>4, <1>5, <2>2
<1>6. f = [i \in Nat |-> IF i = 0 THEN x ELSE B(f[i - 1], i)]
  <2> HIDE DEF B, x
  <2> QED
    BY <1>4, <1>5
<1>7. PICK g : /\ g = [i \in Nat |-> IF i = 0 THEN x ELSE B(g[i - 1], i)]
               /\ GetAgent_least_talk_time = g[NDN].dn
  BY <1>6, Zenon DEF GetAgent_least_talk_time, Scan
<1>8. g[0] = x /\ \A i \in Nat \ {0} : g[i] = B(g[i - 1], i)
  <2> HIDE DEF B, x
  <2> QED
    BY <1>7
<1> QED
  BY <1>7, <1>8

\* The pass of the rule that compares numbers of calls.
LEMMA CallsPass ==
    ASSUME Typed
    PROVE  \E f : /\ f[0] = [maxidelminiute |-> Limit, dn |-> NoDN]
                  /\ \A i \in Nat \ {0} :
                        f[i] = IF i \in ReadyDNs /\ f[i - 1].maxidelminiute > m_calltimes[i]
                               THEN [maxidelminiute |-> m_idelminiutes[i], dn |-> i]
                               ELSE f[i - 1]
                  /\ GetAgent_fewest_calls = f[NDN].dn
<1> DEFINE x == [maxidelminiute |-> Limit, dn |-> NoDN]
           B(r, i) == IF i \in ReadyDNs /\ r.maxidelminiute > m_calltimes[i]
                      THEN [maxidelminiute |-> m_idelminiutes[i], dn |-> i] ELSE r
           b == [p \in Local \X Nat |-> B(p[1], p[2])]
<1>1. x \in Local
  BY LimitInt DEF Local, NoDN
<1>2. ASSUME NEW r \in Local, NEW i \in Nat PROVE B(r, i) \in Local
  <2>1. i \in ReadyDNs => m_idelminiutes[i] \in Int
    BY DEF Typed, ReadyDNs
  <2> QED
    BY <2>1 DEF Local
<1>3. b \in [Local \X Nat -> Local]
  <2> HIDE DEF B
  <2> QED
    BY <1>2
<1>4. PICK f \in [Nat -> Local] : /\ f[0] = x
                                  /\ \A i \in Nat \ {0} : f[i] = b[<<f[i - 1], i>>]
  <2> HIDE DEF b, x
  <2> QED
    BY <1>1, <1>3, PassExists
<1>5. ASSUME NEW i \in Nat, i # 0 PROVE f[i] = B(f[i - 1], i)
  <2>1. i - 1 \in Nat /\ f[i - 1] \in Local
    BY <1>5
  <2>2. b[<<f[i - 1], i>>] = B(f[i - 1], i)
    <3> HIDE DEF B
    <3> QED
      BY <2>1
  <2> QED
    BY <1>4, <1>5, <2>2
<1>6. f = [i \in Nat |-> IF i = 0 THEN x ELSE B(f[i - 1], i)]
  <2> HIDE DEF B, x
  <2> QED
    BY <1>4, <1>5
<1>7. PICK g : /\ g = [i \in Nat |-> IF i = 0 THEN x ELSE B(g[i - 1], i)]
               /\ GetAgent_fewest_calls = g[NDN].dn
  BY <1>6, Zenon DEF GetAgent_fewest_calls, Scan
<1>8. g[0] = x /\ \A i \in Nat \ {0} : g[i] = B(g[i - 1], i)
  <2> HIDE DEF B, x
  <2> QED
    BY <1>7
<1> QED
  BY <1>7, <1>8

\* The idle rule returns a ready agent or none, one that has been idle longest, and
\* one whenever a ready agent has been idle a second.
LEMMA IdleReturns ==
    ASSUME Typed
    PROVE  /\ GetAgent_idel_agent \in ReadyDNs \cup {NoDN}
           /\ \A e \in ReadyDNs : Getidelminiute(e) > 0 => GetAgent_idel_agent \in ReadyDNs
           /\ IdleRulePicksLongest
<1>1. PICK f : /\ f[0] = [maxidelminiute |-> 0, dn |-> NoDN]
               /\ \A i \in Nat \ {0} :
                     f[i] = IF i \in ReadyDNs /\ f[i - 1].maxidelminiute < Getidelminiute(i)
                            THEN [maxidelminiute |-> Getidelminiute(i), dn |-> i]
                            ELSE f[i - 1]
               /\ GetAgent_idel_agent = f[NDN].dn
  BY IdlePass
<1> DEFINE H == {e \in ReadyDNs : Getidelminiute(e) > 0}
           I(d) == Getidelminiute(d)
<1>2. \A e \in ReadyDNs : e \in DN /\ e \in 1..NDN /\ I(e) \in Int
  BY DEF Typed, ReadyDNs, DN, Getidelminiute
<1>3. NDN \in Nat /\ f[0] \in Local /\ f[0].dn = NoDN /\ f[0].maxidelminiute = 0
  BY <1>1 DEF Typed, Local, NoDN
<1>4. ASSUME NEW i \in 1..NDN, f[i - 1] \in Local
      PROVE  /\ f[i] \in Local
             /\ f[i] = f[i - 1] \/ (f[i].dn = i /\ i \in ReadyDNs)
  <2>1. i \in Nat \ {0}
    BY <1>3
  <2>2. f[i] = IF i \in ReadyDNs /\ f[i - 1].maxidelminiute < I(i)
               THEN [maxidelminiute |-> I(i), dn |-> i]
               ELSE f[i - 1]
    BY <1>1, <2>1
  <2> HIDE DEF I
  <2> QED
    BY <1>2, <1>4, <2>1, <2>2 DEF Local
<1>5. ASSUME NEW i \in H, f[i - 1] = f[0] PROVE f[i].dn = i
  <2>1. i \in Nat \ {0} /\ i \in ReadyDNs /\ I(i) \in Int /\ I(i) > 0
    BY <1>2, <1>3
  <2>2. f[i] = IF i \in ReadyDNs /\ f[i - 1].maxidelminiute < I(i)
               THEN [maxidelminiute |-> I(i), dn |-> i]
               ELSE f[i - 1]
    BY <1>1, <2>1
  <2> HIDE DEF I, H
  <2> QED
    BY <1>3, <1>5, <2>1, <2>2
<1>6. H \in SUBSET ReadyDNs
  OBVIOUS
<1>7. /\ f[NDN].dn \in ReadyDNs \cup {NoDN}
      /\ H # {} => f[NDN].dn \in ReadyDNs
  <2> HIDE DEF H
  <2> QED
    BY <1>3, <1>4, <1>5, <1>6, ScanReturns
<1> DEFINE Best(i) == /\ f[i] \in Local
                      /\ \A e \in ReadyDNs : e <= i => I(e) <= f[i].maxidelminiute
                      /\ f[i].dn # NoDN => /\ f[i].dn \in ReadyDNs
                                           /\ f[i].maxidelminiute = I(f[i].dn)
           T == {i \in Nat : i <= NDN => Best(i)}
<1>8. 0 \in T
  <2>1. \A e \in ReadyDNs : ~(e <= 0)
    BY <1>2
  <2> QED
    BY <1>3, <2>1
<1>9. ASSUME NEW i \in T PROVE i + 1 \in T
  <2> HIDE DEF I
  <2> SUFFICES ASSUME i + 1 <= NDN PROVE Best(i + 1)
    OBVIOUS
  <2>1. i \in Nat /\ i <= NDN /\ i + 1 \in 1..NDN /\ i + 1 - 1 = i /\ i + 1 \in Nat \ {0}
    BY <1>3
  <2>2. Best(i)
    BY <2>1
  <2>3. f[i + 1] \in Local
    BY <1>4, <2>1, <2>2
  <2>4. f[i + 1] = IF i + 1 \in ReadyDNs /\ f[i].maxidelminiute < I(i + 1)
                   THEN [maxidelminiute |-> I(i + 1), dn |-> i + 1]
                   ELSE f[i]
    BY <1>1, <2>1 DEF I
  <2>5. f[i].maxidelminiute \in Int
    BY <2>2 DEF Local
  <2>6. CASE i + 1 \in ReadyDNs /\ f[i].maxidelminiute < I(i + 1)
    <3>1. f[i + 1].maxidelminiute = I(i + 1) /\ f[i + 1].dn = i + 1
      BY <2>4, <2>6
    <3>2. ASSUME NEW e \in ReadyDNs, e <= i + 1 PROVE I(e) <= f[i + 1].maxidelminiute
      <4>1. e \in Int /\ I(e) \in Int /\ I(i + 1) \in Int
        BY <1>2, <2>6
      <4>2. e <= i \/ e = i + 1
        BY <2>1, <3>2, <4>1
      <4>3. CASE e <= i
        BY <2>2, <2>5, <2>6, <3>1, <4>1, <4>3
      <4> QED
        BY <3>1, <4>1, <4>2, <4>3
    <3> QED
      BY <2>3, <2>6, <3>1, <3>2
  <2>7. CASE ~(i + 1 \in ReadyDNs /\ f[i].maxidelminiute < I(i + 1))
    <3>1. f[i + 1] = f[i]
      BY <2>4, <2>7
    <3>2. ASSUME NEW e \in ReadyDNs, e <= i + 1 PROVE I(e) <= f[i + 1].maxidelminiute
      <4>1. e \in Int /\ I(e) \in Int
        BY <1>2
      <4>2. e <= i \/ e = i + 1
        BY <2>1, <3>2, <4>1
      <4> QED
        BY <2>2, <2>5, <2>7, <3>1, <4>1, <4>2
    <3> QED
      BY <2>2, <2>3, <3>1, <3>2
  <2> QED
    BY <2>6, <2>7
<1>10. T = Nat
  <2>1. T \in SUBSET Nat
    OBVIOUS
  <2> HIDE DEF T
  <2> QED
    BY <1>8, <1>9, <2>1, NatSets
<1>11. Best(NDN)
  BY <1>3, <1>10
<1>12. IdleRulePicksLongest
  <2> SUFFICES ASSUME GetAgent_idel_agent # NoDN
               PROVE  /\ GetAgent_idel_agent \in ReadyDNs
                      /\ \A e \in ReadyDNs : I(e) <= I(GetAgent_idel_agent)
    BY DEF IdleRulePicksLongest
  <2> HIDE DEF I
  <2>1. GetAgent_idel_agent = f[NDN].dn
    BY <1>1
  <2> QED
    BY <1>2, <1>11, <2>1
<1>13. ASSUME NEW e \in ReadyDNs, I(e) > 0 PROVE GetAgent_idel_agent \in ReadyDNs
  <2>1. e \in H
    BY <1>13
  <2> HIDE DEF H
  <2> QED
    BY <1>1, <1>7, <2>1
<1> QED
  BY <1>1, <1>7, <1>12, <1>13

\* Round robin returns a ready agent whenever there is one.
LEMMA RobinReturns ==
    ASSUME Typed
    PROVE  /\ GetAgent_robin \in ReadyDNs \cup {NoDN}
           /\ ReadyDNs # {} => GetAgent_robin \in ReadyDNs
<1>1. PICK f : /\ f[0] = [maxidelminiute |-> 0, dn |-> NoDN]
               /\ \A i \in Nat \ {0} :
                     f[i] = IF f[i - 1].dn = NoDN /\ i \in ReadyDNs
                            THEN [f[i - 1] EXCEPT !.dn = i]
                            ELSE f[i - 1]
               /\ GetAgent_robin = f[NDN].dn
  BY RobinPass
<1>2. NDN \in Nat /\ f[0] \in Local /\ f[0].dn = NoDN
  BY <1>1 DEF Typed, Local, NoDN
<1>3. ReadyDNs \subseteq Nat \ {0}
  BY <1>2 DEF ReadyDNs, DN
<1>4. ASSUME NEW i \in 1..NDN, f[i - 1] \in Local
      PROVE  /\ f[i] \in Local
             /\ f[i] = f[i - 1] \/ (f[i].dn = i /\ i \in ReadyDNs)
  <2>1. i \in Nat \ {0}
    BY <1>2
  <2> QED
    BY <1>1, <1>4, <2>1 DEF Local
<1>5. ASSUME NEW i \in ReadyDNs, f[i - 1] = f[0] PROVE f[i].dn = i
  BY <1>1, <1>2, <1>3, <1>5 DEF Local
<1>6. /\ f[NDN].dn \in ReadyDNs \cup {NoDN}
      /\ ReadyDNs # {} => f[NDN].dn \in ReadyDNs
  BY <1>2, <1>4, <1>5, ScanReturns
<1> QED
  BY <1>1, <1>6

\* The rule of the talk time returns a ready agent or none, and one when a ready
\* agent has talked for less than the limit.
LEMMA TalkReturns ==
    ASSUME Typed
    PROVE  /\ GetAgent_least_talk_time \in ReadyDNs \cup {NoDN}
           /\ \A e \in ReadyDNs :
                 m_callminiutes[e] < Limit => GetAgent_least_talk_time \in ReadyDNs
<1>1. PICK f : /\ f[0] = [maxidelminiute |-> Limit, dn |-> NoDN]
               /\ \A i \in Nat \ {0} :
                     f[i] = IF i \in ReadyDNs /\ f[i - 1].maxidelminiute > m_callminiutes[i]
                            THEN [maxidelminiute |-> m_idelminiutes[i], dn |-> i]
                            ELSE f[i - 1]
               /\ GetAgent_least_talk_time = f[NDN].dn
  BY TalkPass
<1> DEFINE H == {e \in ReadyDNs : m_callminiutes[e] < Limit}
<1>2. NDN \in Nat /\ f[0] \in Local /\ f[0].dn = NoDN /\ f[0].maxidelminiute = Limit
  BY <1>1, LimitInt DEF Typed, Local, NoDN
<1>3. ReadyDNs \subseteq DN /\ ReadyDNs \subseteq Nat \ {0}
  BY <1>2 DEF ReadyDNs, DN
<1>4. ASSUME NEW i \in 1..NDN, f[i - 1] \in Local
      PROVE  /\ f[i] \in Local
             /\ f[i] = f[i - 1] \/ (f[i].dn = i /\ i \in ReadyDNs)
  <2>1. i \in Nat \ {0} /\ m_idelminiutes[i] \in Int
    BY <1>2 DEF Typed, DN
  <2>2. f[i] = IF i \in ReadyDNs /\ f[i - 1].maxidelminiute > m_callminiutes[i]
               THEN [maxidelminiute |-> m_idelminiutes[i], dn |-> i]
               ELSE f[i - 1]
    BY <1>1, <2>1
  <2> QED
    BY <1>4, <2>1, <2>2 DEF Local
<1>5. ASSUME NEW i \in H, f[i - 1] = f[0] PROVE f[i].dn = i
  <2>1. i \in Nat \ {0} /\ i \in ReadyDNs /\ m_callminiutes[i] \in Int /\ m_callminiutes[i] < Limit
    BY <1>3 DEF Typed
  <2>2. f[i] = IF i \in ReadyDNs /\ f[i - 1].maxidelminiute > m_callminiutes[i]
               THEN [maxidelminiute |-> m_idelminiutes[i], dn |-> i]
               ELSE f[i - 1]
    BY <1>1, <2>1
  <2> HIDE DEF H
  <2> QED
    BY <1>2, <1>5, <2>1, <2>2, LimitInt
<1>6. H \in SUBSET ReadyDNs
  OBVIOUS
<1>7. /\ f[NDN].dn \in ReadyDNs \cup {NoDN}
      /\ H # {} => f[NDN].dn \in ReadyDNs
  <2> HIDE DEF H
  <2> QED
    BY <1>2, <1>4, <1>5, <1>6, ScanReturns
<1>8. ASSUME NEW e \in ReadyDNs, m_callminiutes[e] < Limit
      PROVE  GetAgent_least_talk_time \in ReadyDNs
  <2>1. e \in H
    BY <1>8
  <2> HIDE DEF H
  <2> QED
    BY <1>1, <1>7, <2>1
<1> QED
  BY <1>1, <1>7, <1>8

\* The rule of the number of calls returns a ready agent or none, and one when a
\* ready agent has had fewer calls than the limit.
LEMMA CallsReturns ==
    ASSUME Typed
    PROVE  /\ GetAgent_fewest_calls \in ReadyDNs \cup {NoDN}
           /\ \A e \in ReadyDNs :
                 m_calltimes[e] < Limit => GetAgent_fewest_calls \in ReadyDNs
<1>1. PICK f : /\ f[0] = [maxidelminiute |-> Limit, dn |-> NoDN]
               /\ \A i \in Nat \ {0} :
                     f[i] = IF i \in ReadyDNs /\ f[i - 1].maxidelminiute > m_calltimes[i]
                            THEN [maxidelminiute |-> m_idelminiutes[i], dn |-> i]
                            ELSE f[i - 1]
               /\ GetAgent_fewest_calls = f[NDN].dn
  BY CallsPass
<1> DEFINE H == {e \in ReadyDNs : m_calltimes[e] < Limit}
<1>2. NDN \in Nat /\ f[0] \in Local /\ f[0].dn = NoDN /\ f[0].maxidelminiute = Limit
  BY <1>1, LimitInt DEF Typed, Local, NoDN
<1>3. ReadyDNs \subseteq DN /\ ReadyDNs \subseteq Nat \ {0}
  BY <1>2 DEF ReadyDNs, DN
<1>4. ASSUME NEW i \in 1..NDN, f[i - 1] \in Local
      PROVE  /\ f[i] \in Local
             /\ f[i] = f[i - 1] \/ (f[i].dn = i /\ i \in ReadyDNs)
  <2>1. i \in Nat \ {0} /\ m_idelminiutes[i] \in Int
    BY <1>2 DEF Typed, DN
  <2>2. f[i] = IF i \in ReadyDNs /\ f[i - 1].maxidelminiute > m_calltimes[i]
               THEN [maxidelminiute |-> m_idelminiutes[i], dn |-> i]
               ELSE f[i - 1]
    BY <1>1, <2>1
  <2> QED
    BY <1>4, <2>1, <2>2 DEF Local
<1>5. ASSUME NEW i \in H, f[i - 1] = f[0] PROVE f[i].dn = i
  <2>1. i \in Nat \ {0} /\ i \in ReadyDNs /\ m_calltimes[i] \in Int /\ m_calltimes[i] < Limit
    BY <1>3 DEF Typed
  <2>2. f[i] = IF i \in ReadyDNs /\ f[i - 1].maxidelminiute > m_calltimes[i]
               THEN [maxidelminiute |-> m_idelminiutes[i], dn |-> i]
               ELSE f[i - 1]
    BY <1>1, <2>1
  <2> HIDE DEF H
  <2> QED
    BY <1>2, <1>5, <2>1, <2>2, LimitInt
<1>6. H \in SUBSET ReadyDNs
  OBVIOUS
<1>7. /\ f[NDN].dn \in ReadyDNs \cup {NoDN}
      /\ H # {} => f[NDN].dn \in ReadyDNs
  <2> HIDE DEF H
  <2> QED
    BY <1>2, <1>4, <1>5, <1>6, ScanReturns
<1>8. ASSUME NEW e \in ReadyDNs, m_calltimes[e] < Limit
      PROVE  GetAgent_fewest_calls \in ReadyDNs
  <2>1. e \in H
    BY <1>8
  <2> HIDE DEF H
  <2> QED
    BY <1>1, <1>7, <2>1
<1> QED
  BY <1>1, <1>7, <1>8

----------------------------------------------------------------------------
(* The inductive invariant *)

\* The seconds CHANNEL_DESTROY has still to write to the entry of d.
LiveDue(d) == IF ev.live /\ ev.dn = d THEN ev.secs ELSE 0

\* A leg that is up began while the server ran; the next leg's place is free.
LegInv == \A i \in Leg : legDn[i] # NoDN => legStart[i] <= now /\ i <= calls

\* An event that has its entry has it in the map; a DN without an entry has no time.
LiveInv(d) == /\ ev.live /\ ev.dn = d => status[d] # "none"
              /\ status[d] = "none" => freeTime[d] = 0

\* The time since the login is the time without a leg, the talk time counted, the
\* one due and the one of the leg that is up, of which there is only one.
IdleInv(d) ==
    status[d] # "none" /\ d \notin loaded \cup inexact =>
        /\ LegsUp(d) = {} => Getidelminiute(d) = freeTime[d] + LiveDue(d)
        /\ \A i \in LegsUp(d) :
              /\ LegsUp(d) = {i}
              /\ Getidelminiute(d) = freeTime[d] + LiveDue(d) + (now - legStart[i])

EntryInv(d) == LiveInv(d) /\ IdleInv(d)

ChoiceInv == /\ TypeOK /\ LegInv /\ (ev.live => ev.dn \in DN)
             /\ \A d \in DN : EntryInv(d)

\* The entry of d, its legs, its event and the clock are as they were.
Kept(d) ==
    /\ now' = now /\ freeTime'[d] = freeTime[d]
    /\ m_idelminiutes'[d] = m_idelminiutes[d] /\ m_callminiutes'[d] = m_callminiutes[d]
    /\ LegsUp(d)' = LegsUp(d)
    /\ \A i \in LegsUp(d) : legStart'[i] = legStart[i]

\* A step that leaves an entry and its legs alone keeps what is known of it.
LEMMA EntryFrame ==
    ASSUME NEW d \in DN, EntryInv(d), Kept(d),
           d \in loaded \cup inexact => d \in loaded' \cup inexact',
           status'[d] = "none" <=> status[d] = "none",
           ev' = ev \/ (ev.dn # d /\ ev'.dn # d)
    PROVE  EntryInv(d)'
<1>1. LiveDue(d)' = LiveDue(d)
  BY DEF LiveDue
<1>2. LiveInv(d)'
  BY DEF EntryInv, LiveInv, Kept
<1>3. Getidelminiute(d)' = Getidelminiute(d)
  BY DEF Kept, Getidelminiute
<1>4. IdleInv(d)'
  BY <1>1, <1>3 DEF EntryInv, IdleInv, Kept
<1> QED
  BY <1>2, <1>4 DEF EntryInv

\* The numbers the invariant adds up.
LEMMA Numbers ==
    ASSUME TypeOK, NEW d \in DN
    PROVE  /\ d # NoDN /\ d \in Nat
           /\ now \in Nat /\ calls \in Nat /\ LiveDue(d) \in Nat /\ freeTime[d] \in Nat
           /\ m_callminiutes[d] \in Int /\ m_idelminiutes[d] \in Int
           /\ Getidelminiute(d) = now - m_idelminiutes[d] - m_callminiutes[d]
           /\ \A i \in Leg : legStart[i] \in Nat /\ i \in Nat
           /\ LegsUp(d) \subseteq Leg
<1>1. now \in Nat /\ calls \in Nat /\ NDN \in Nat /\ MaxCalls \in Nat
  BY ChoiceAssumption DEF TypeOK
<1>2. LiveDue(d) \in Nat
  BY DEF TypeOK, LiveDue
<1> QED
  BY <1>1, <1>2 DEF TypeOK, DN, NoDN, Leg, LegsUp, Getidelminiute

\* The first state has the invariant.
LEMMA InitInv == Init => ChoiceInv
<1> SUFFICES ASSUME Init PROVE ChoiceInv
  OBVIOUS
<1>1. TypeOK
  BY ChoiceAssumption DEF Init, TypeOK, Zero, NoEvent, NoDN
<1>2. ~ev.live /\ LegInv
  BY DEF Init, NoEvent, LegInv
<1>3. ASSUME NEW d \in DN PROVE EntryInv(d)
  <2>1. status[d] = "none" /\ freeTime[d] = 0
    BY DEF Init, Zero
  <2> QED
    BY <1>2, <2>1 DEF EntryInv, LiveInv, IdleInv
<1> QED
  BY <1>1, <1>2, <1>3 DEF ChoiceInv

\* A second passes: it counts for the leg, or for the time without one.
LEMMA TickInv == ASSUME ChoiceInv, Tick PROVE ChoiceInv'
<1>0. TypeOK /\ LegInv /\ (ev.live => ev.dn \in DN) /\ \A d \in DN : EntryInv(d)
  BY DEF ChoiceInv
<1>1. /\ now < Epoch + MaxTime /\ now' = now + 1
      /\ freeTime' = [d \in DN |->
            IF status[d] # "none" /\ LegsUp(d) = {} THEN freeTime[d] + 1 ELSE freeTime[d]]
      /\ status' = status /\ m_idelminiutes' = m_idelminiutes
      /\ m_callminiutes' = m_callminiutes /\ m_calltimes' = m_calltimes
      /\ loaded' = loaded /\ nameless' = nameless /\ legDn' = legDn
      /\ legStart' = legStart /\ calls' = calls /\ ev' = ev /\ inexact' = inexact
  BY DEF Tick, entries, counters, legs
<1>2. TypeOK'
  <2>1. now' \in Epoch..(Epoch + MaxTime)
    BY <1>0, <1>1, ChoiceAssumption DEF TypeOK
  <2>2. freeTime' \in [DN -> Nat]
    BY <1>0, <1>1 DEF TypeOK
  <2> QED
    BY <1>0, <1>1, <2>1, <2>2 DEF TypeOK
<1>3. LegInv'
  <2> SUFFICES ASSUME NEW i \in Leg, legDn'[i] # NoDN PROVE legStart'[i] <= now' /\ i <= calls'
    BY DEF LegInv
  <2>1. legStart[i] <= now /\ i <= calls /\ legStart[i] \in Nat /\ now \in Nat
    BY <1>0, <1>1, ChoiceAssumption DEF LegInv, TypeOK
  <2> QED
    BY <1>1, <2>1
<1>4. ASSUME NEW d \in DN PROVE EntryInv(d)'
  <2>0. EntryInv(d)
    BY <1>0
  <2>1. /\ LegsUp(d)' = LegsUp(d) /\ LiveDue(d)' = LiveDue(d)
        /\ now \in Nat /\ LiveDue(d) \in Nat /\ freeTime[d] \in Nat
        /\ m_callminiutes[d] \in Int /\ m_idelminiutes[d] \in Int
        /\ \A i \in LegsUp(d) : legStart[i] \in Nat
    BY <1>0, <1>1, Numbers DEF LegsUp, LiveDue
  <2>2. Getidelminiute(d) \in Int /\ Getidelminiute(d)' = Getidelminiute(d) + 1
    BY <1>1, <2>1 DEF Getidelminiute
  <2>3. LiveInv(d)'
    BY <1>1, <2>0 DEF EntryInv, LiveInv
  <2>4. ASSUME status[d] # "none", d \notin loaded \cup inexact, LegsUp(d) = {}
        PROVE  Getidelminiute(d)' = freeTime'[d] + LiveDue(d)'
    BY <1>1, <2>0, <2>1, <2>2, <2>4 DEF EntryInv, IdleInv
  <2>5. ASSUME status[d] # "none", d \notin loaded \cup inexact, NEW i \in LegsUp(d)
        PROVE  /\ LegsUp(d) = {i}
               /\ Getidelminiute(d)' = freeTime'[d] + LiveDue(d)' + (now' - legStart'[i])
    <3>1. /\ LegsUp(d) = {i} /\ freeTime'[d] = freeTime[d] /\ legStart[i] \in Nat
          /\ Getidelminiute(d) = freeTime[d] + LiveDue(d) + (now - legStart[i])
      BY <1>1, <2>0, <2>1, <2>5 DEF EntryInv, IdleInv
    <3> QED
      BY <1>1, <2>1, <2>2, <3>1
  <2>6. IdleInv(d)'
    BY <1>1, <2>1, <2>4, <2>5 DEF IdleInv
  <2> QED
    BY <2>3, <2>6 DEF EntryInv
<1> QED
  BY <1>0, <1>1, <1>2, <1>3, <1>4 DEF ChoiceInv

\* A step of the entry of d, with no leg, is one that keeps what is known of d.
LEMMA EntryStep ==
    ASSUME ChoiceInv, TypeOK', NEW d \in DN, EntryInv(d)', ev'.dn = ev.dn,
           ev'.live => ev.live, ev.dn # d => ev' = ev,
           now' = now, legDn' = legDn, legStart' = legStart, calls' = calls,
           \A e \in DN \ {d} :
               /\ status'[e] = status[e] /\ freeTime'[e] = freeTime[e]
               /\ m_idelminiutes'[e] = m_idelminiutes[e]
               /\ m_callminiutes'[e] = m_callminiutes[e]
               /\ e \in loaded \cup inexact => e \in loaded' \cup inexact'
    PROVE  ChoiceInv'
<1>1. ASSUME NEW e \in DN, e # d PROVE EntryInv(e)'
  <2>1. Kept(e)
    BY <1>1 DEF Kept, LegsUp
  <2>2. ev' = ev \/ (ev.dn # e /\ ev'.dn # e)
    BY <1>1
  <2>3. EntryInv(e) /\ status'[e] = status[e]
    BY <1>1 DEF ChoiceInv
  <2>4. e \in loaded \cup inexact => e \in loaded' \cup inexact'
    BY <1>1
  <2> QED
    BY <2>1, <2>2, <2>3, <2>4, EntryFrame
<1>2. LegInv' /\ (ev'.live => ev'.dn \in DN)
  BY DEF ChoiceInv, LegInv
<1> QED
  BY <1>1, <1>2 DEF ChoiceInv

\* A login starts the counters of its entry.
LEMMA SigninInv == ASSUME ChoiceInv, NEW d \in DN, Signin(d) PROVE ChoiceInv'
<1>0. TypeOK /\ LegInv /\ (ev.live => ev.dn \in DN) /\ EntryInv(d)
  BY DEF ChoiceInv
<1>1. /\ status[d] = "none" /\ status' = [status EXCEPT ![d] = "ready"]
      /\ m_calltimes' = [m_calltimes EXCEPT ![d] = 0]
      /\ m_callminiutes' = [m_callminiutes EXCEPT ![d] = 0]
      /\ m_idelminiutes' = [m_idelminiutes EXCEPT ![d] = now]
      /\ inexact' = IF LegsUp(d) = {} THEN inexact \ {d} ELSE inexact \cup {d}
      /\ now' = now /\ loaded' = loaded /\ nameless' = nameless /\ legDn' = legDn
      /\ legStart' = legStart /\ calls' = calls /\ ev' = ev /\ freeTime' = freeTime
  BY DEF Signin, legs
<1>2. now \in Nat /\ status'[d] = "ready" /\ m_callminiutes'[d] = 0 /\ m_idelminiutes'[d] = now
  BY <1>0, <1>1, Numbers DEF TypeOK
<1>3. TypeOK'
  BY <1>0, <1>1, <1>2 DEF TypeOK
<1>4. EntryInv(d)'
  <2>1. LiveDue(d)' = 0 /\ freeTime'[d] = 0 /\ LegsUp(d)' = LegsUp(d)
    BY <1>0, <1>1 DEF EntryInv, LiveInv, LiveDue, LegsUp
  <2>2. Getidelminiute(d)' = 0
    BY <1>1, <1>2 DEF Getidelminiute
  <2>3. d \notin inexact' => LegsUp(d)' = {}
    BY <1>1, <2>1
  <2> QED
    BY <1>2, <2>1, <2>2, <2>3 DEF EntryInv, LiveInv, IdleInv
<1>5. ASSUME NEW e \in DN \ {d}
      PROVE  /\ status'[e] = status[e] /\ freeTime'[e] = freeTime[e]
             /\ m_idelminiutes'[e] = m_idelminiutes[e]
             /\ m_callminiutes'[e] = m_callminiutes[e]
             /\ e \in loaded \cup inexact => e \in loaded' \cup inexact'
  BY <1>0, <1>1 DEF TypeOK
<1> QED
  BY <1>1, <1>3, <1>4, <1>5, EntryStep

\* The raw counters of an entry are exempt.
LEMMA RawInv ==
    ASSUME ChoiceInv, NEW d \in DN, NEW s \in {"ready", "busy"}, RawEntry(d, s),
           now' = now, legDn' = legDn, legStart' = legStart, calls' = calls,
           ev' = ev, freeTime' = freeTime, inexact' = inexact,
           nameless' \in {nameless, nameless \cup {d}}
    PROVE  ChoiceInv'
<1>0. TypeOK /\ EntryInv(d) /\ status[d] = "none"
  BY DEF ChoiceInv, RawEntry
<1>1. PICK t \in Garbage, n \in Garbage, l \in Garbage :
          /\ m_calltimes' = [m_calltimes EXCEPT ![d] = n]
          /\ m_callminiutes' = [m_callminiutes EXCEPT ![d] = t]
          /\ m_idelminiutes' = [m_idelminiutes EXCEPT ![d] = l]
  BY DEF RawEntry
<1>2. t \in Int /\ n \in Int /\ l \in Int
  BY ChoiceAssumption
<1>3. status' = [status EXCEPT ![d] = s] /\ loaded' = loaded \cup {d}
  BY DEF RawEntry
<1>4. TypeOK'
  BY <1>0, <1>1, <1>2, <1>3 DEF TypeOK
<1>5. EntryInv(d)'
  <2>1. d \in loaded' /\ status'[d] # "none"
    BY <1>0, <1>3 DEF TypeOK
  <2> QED
    BY <1>0, <2>1 DEF EntryInv, LiveInv, IdleInv
<1>6. ASSUME NEW e \in DN \ {d}
      PROVE  /\ status'[e] = status[e] /\ freeTime'[e] = freeTime[e]
             /\ m_idelminiutes'[e] = m_idelminiutes[e]
             /\ m_callminiutes'[e] = m_callminiutes[e]
             /\ e \in loaded \cup inexact => e \in loaded' \cup inexact'
  BY <1>0, <1>1, <1>3 DEF TypeOK
<1> QED
  BY <1>4, <1>5, <1>6, EntryStep

\* An entry of the table, and one of operator[].
LEMMA LoadInv ==
    ASSUME ChoiceInv, NEW d \in DN, LoadDNSet(d) \/ DispatchGone(d) PROVE ChoiceInv'
<1>1. CASE LoadDNSet(d)
  BY <1>1, RawInv DEF LoadDNSet, legs
<1>2. CASE DispatchGone(d)
  BY <1>2, RawInv DEF DispatchGone, legs
<1> QED
  BY <1>1, <1>2

\* A logout takes the entry from the map, and from an event that points to it.
LEMMA SignoutInv == ASSUME ChoiceInv, NEW d \in DN, Signout(d) PROVE ChoiceInv'
<1>0. TypeOK /\ EntryInv(d)
  BY DEF ChoiceInv
<1>1. /\ status' = [status EXCEPT ![d] = "none"] /\ d \notin nameless
      /\ m_calltimes' = [m_calltimes EXCEPT ![d] = 0]
      /\ m_callminiutes' = [m_callminiutes EXCEPT ![d] = 0]
      /\ m_idelminiutes' = [m_idelminiutes EXCEPT ![d] = 0]
      /\ loaded' = loaded \ {d} /\ freeTime' = [freeTime EXCEPT ![d] = 0]
      /\ inexact' = inexact \ {d} /\ now' = now /\ nameless' = nameless
      /\ legDn' = legDn /\ legStart' = legStart /\ calls' = calls
  BY DEF Signout, legs
<1>2. /\ ev' \in [dn : DN \cup {NoDN}, secs : Nat, live : BOOLEAN]
      /\ ev'.dn = ev.dn /\ (ev'.live => ev.live) /\ (ev.dn = d => ~ev'.live)
      /\ (ev.dn # d => ev' = ev)
  BY <1>0 DEF TypeOK, Signout
<1>3. TypeOK'
  BY <1>0, <1>1, <1>2 DEF TypeOK
<1>4. EntryInv(d)'
  <2>1. status'[d] = "none" /\ freeTime'[d] = 0
    BY <1>0, <1>1 DEF TypeOK
  <2> QED
    BY <1>2, <2>1 DEF EntryInv, LiveInv, IdleInv
<1>5. ASSUME NEW e \in DN \ {d}
      PROVE  /\ status'[e] = status[e] /\ freeTime'[e] = freeTime[e]
             /\ m_idelminiutes'[e] = m_idelminiutes[e]
             /\ m_callminiutes'[e] = m_callminiutes[e]
             /\ e \in loaded \cup inexact => e \in loaded' \cup inexact'
  BY <1>0, <1>1 DEF TypeOK
<1> QED
  BY <1>1, <1>2, <1>3, <1>4, <1>5, EntryStep

\* A step that only changes the status of an entry changes no counter.
LEMMA StatusInv ==
    ASSUME ChoiceInv, NEW d \in DN, NEW s \in {"ready", "busy"}, status[d] # "none",
           status' = [status EXCEPT ![d] = s],
           UNCHANGED <<now, entries, legs, ev, freeTime, inexact>>
    PROVE  ChoiceInv'
<1>0. TypeOK /\ EntryInv(d)
  BY DEF ChoiceInv
<1>1. /\ now' = now /\ m_idelminiutes' = m_idelminiutes
      /\ m_callminiutes' = m_callminiutes /\ m_calltimes' = m_calltimes
      /\ loaded' = loaded /\ nameless' = nameless /\ legDn' = legDn
      /\ legStart' = legStart /\ calls' = calls /\ ev' = ev
      /\ freeTime' = freeTime /\ inexact' = inexact
  BY DEF entries, counters, legs
<1>2. TypeOK'
  BY <1>0, <1>1 DEF TypeOK
<1>3. status'[d] # "none"
  BY <1>0 DEF TypeOK
<1>4. Kept(d)
  BY <1>1 DEF Kept, LegsUp
<1>5. EntryInv(d)'
  BY <1>0, <1>1, <1>3, <1>4, EntryFrame
<1>6. ASSUME NEW e \in DN \ {d}
      PROVE  /\ status'[e] = status[e] /\ freeTime'[e] = freeTime[e]
             /\ m_idelminiutes'[e] = m_idelminiutes[e]
             /\ m_callminiutes'[e] = m_callminiutes[e]
             /\ e \in loaded \cup inexact => e \in loaded' \cup inexact'
  BY <1>0, <1>1 DEF TypeOK
<1> QED
  BY <1>1, <1>2, <1>5, <1>6, EntryStep

\* Every rule returns a ready agent or none.
LEMMA RuleReturns ==
    ASSUME TypeOK, NEW rule \in Rules
    PROVE  GetavailableAgent(rule) \in ReadyDNs \cup {NoDN}
<1>1. Typed
  BY ChoiceAssumption DEF TypeOK, Typed
<1>2. CASE rule = "robin"
  BY <1>1, <1>2, RobinReturns DEF GetavailableAgent
<1>3. CASE rule = "idel"
  BY <1>1, <1>3, IdleReturns DEF GetavailableAgent
<1>4. CASE rule = "leastTalk"
  BY <1>1, <1>4, TalkReturns DEF GetavailableAgent
<1>5. CASE rule = "fewestCalls"
  BY <1>1, <1>5, CallsReturns DEF GetavailableAgent
<1>6. CASE rule = "other"
  BY <1>6 DEF GetavailableAgent
<1> QED
  BY <1>2, <1>3, <1>4, <1>5, <1>6 DEF Rules

\* A leg that begins is the only one of its DN, or its entry is exempt from now on.
LEMMA BeginInv ==
    ASSUME ChoiceInv, NEW d \in DN, BeginLeg(d),
           status' \in [DN -> {"none", "ready", "busy"}],
           \A e \in DN : status'[e] = "none" <=> status[e] = "none",
           UNCHANGED <<now, entries, ev, freeTime>>
    PROVE  ChoiceInv'
<1>0. TypeOK /\ LegInv /\ (ev.live => ev.dn \in DN) /\ \A e \in DN : EntryInv(e)
  BY DEF ChoiceInv
<1>1. /\ calls < MaxCalls /\ calls' = calls + 1
      /\ legDn' = [legDn EXCEPT ![calls + 1] = d]
      /\ legStart' = [legStart EXCEPT ![calls + 1] = now]
      /\ inexact' = IF LegsUp(d) = {} THEN inexact ELSE inexact \cup {d}
      /\ now' = now /\ m_idelminiutes' = m_idelminiutes
      /\ m_callminiutes' = m_callminiutes /\ m_calltimes' = m_calltimes
      /\ loaded' = loaded /\ nameless' = nameless /\ ev' = ev /\ freeTime' = freeTime
  BY DEF BeginLeg, entries, counters
<1>n. PICK n : n = calls + 1
  OBVIOUS
<1>2. n \in Leg /\ n \in Nat /\ calls \in Nat /\ now \in Nat /\ MaxCalls \in Nat
  BY <1>0, <1>1, <1>n, ChoiceAssumption DEF TypeOK, Leg
<1>3. legDn[n] = NoDN
  BY <1>0, <1>2, <1>n DEF LegInv
<1>4. legDn' = [legDn EXCEPT ![n] = d] /\ legStart' = [legStart EXCEPT ![n] = now]
  BY <1>1, <1>n
<1>5. TypeOK'
  <2>1. calls' \in 0..MaxCalls
    BY <1>1, <1>2
  <2>2. legDn' \in [Leg -> DN \cup {NoDN}] /\ legStart' \in [Leg -> Nat]
    BY <1>0, <1>2, <1>4 DEF TypeOK
  <2> QED
    BY <1>0, <1>1, <2>1, <2>2 DEF TypeOK
<1>6. LegInv'
  <2> SUFFICES ASSUME NEW i \in Leg, legDn'[i] # NoDN PROVE legStart'[i] <= now' /\ i <= calls'
    BY DEF LegInv
  <2>1. CASE i = n
    BY <1>0, <1>1, <1>2, <1>4, <1>n, <2>1 DEF TypeOK
  <2>2. CASE i # n
    <3>1. legDn[i] = legDn'[i] /\ legStart'[i] = legStart[i]
      BY <1>0, <1>4, <2>2 DEF TypeOK
    <3>2. legStart[i] <= now /\ i <= calls /\ i \in Nat
      BY <1>0, <1>2, <3>1 DEF LegInv, Leg
    <3> QED
      BY <1>1, <1>2, <3>1, <3>2
  <2> QED
    BY <2>1, <2>2
<1>7. ASSUME NEW e \in DN, e # d PROVE EntryInv(e)'
  <2>1. LegsUp(e)' = LegsUp(e)
    <3>1. \A i \in Leg : legDn'[i] = e <=> legDn[i] = e
      BY <1>0, <1>2, <1>3, <1>4, <1>7, Numbers DEF TypeOK
    <3> QED
      BY <3>1 DEF LegsUp
  <2>2. \A i \in LegsUp(e) : legStart'[i] = legStart[i]
    BY <1>0, <1>2, <1>3, <1>4, Numbers DEF TypeOK, LegsUp
  <2>3. Kept(e)
    BY <1>1, <2>1, <2>2 DEF Kept
  <2>4. e \in loaded \cup inexact => e \in loaded' \cup inexact'
    BY <1>1
  <2> QED
    BY <1>0, <1>1, <2>3, <2>4, EntryFrame
<1>8. EntryInv(d)'
  <2>1. LiveInv(d)' /\ LiveDue(d)' = LiveDue(d)
    BY <1>0, <1>1 DEF EntryInv, LiveInv, LiveDue
  <2>2. CASE LegsUp(d) # {}
    BY <1>1, <2>1, <2>2 DEF EntryInv, IdleInv
  <2>3. CASE LegsUp(d) = {}
    <3>1. LegsUp(d)' = {n} /\ legStart'[n] = now
      <4>1. \A i \in Leg : legDn'[i] = d <=> i = n
        BY <1>0, <1>2, <1>4, <2>3 DEF TypeOK, LegsUp
      <4>2. legStart'[n] = now
        BY <1>0, <1>2, <1>4 DEF TypeOK
      <4>3. LegsUp(d)' = {n}
        BY <1>2, <4>1 DEF LegsUp
      <4> QED
        BY <4>2, <4>3
    <3>2. Getidelminiute(d)' = Getidelminiute(d) /\ inexact' = inexact
      BY <1>1, <2>3 DEF Getidelminiute
    <3>3. LiveDue(d) \in Nat /\ freeTime[d] \in Nat
      BY <1>0, Numbers
    <3>4. IdleInv(d)'
      BY <1>0, <1>1, <1>2, <2>1, <2>3, <3>1, <3>2, <3>3 DEF EntryInv, IdleInv
    <3> QED
      BY <2>1, <3>4 DEF EntryInv
  <2> QED
    BY <2>2, <2>3
<1> QED
  BY <1>0, <1>1, <1>5, <1>6, <1>7, <1>8 DEF ChoiceInv

\* A call given to an agent, with or without a leg.
LEMMA DispatchInv ==
    ASSUME ChoiceInv, NEW rule \in Rules, Dispatch(rule) PROVE ChoiceInv'
<1>0. TypeOK
  BY DEF ChoiceInv
<1>d. PICK d : d = GetavailableAgent(rule)
  OBVIOUS
<1>1. /\ d # NoDN /\ status' = [status EXCEPT ![d] = "busy"]
      /\ BeginLeg(d) \/ UNCHANGED <<legs, inexact>>
      /\ UNCHANGED <<now, entries, ev, freeTime>>
  BY <1>d DEF Dispatch
<1>2. d \in DN /\ status[d] = "ready"
  BY <1>0, <1>d, <1>1, RuleReturns DEF ReadyDNs
<1>3. status' \in [DN -> {"none", "ready", "busy"}]
  BY <1>0, <1>1, <1>2 DEF TypeOK
<1>4. \A e \in DN : status'[e] = "none" <=> status[e] = "none"
  BY <1>0, <1>1, <1>2 DEF TypeOK
<1>5. CASE BeginLeg(d)
  BY <1>1, <1>2, <1>3, <1>4, <1>5, BeginInv
<1>6. CASE UNCHANGED <<legs, inexact>>
  BY <1>1, <1>2, <1>6, StatusInv
<1> QED
  BY <1>1, <1>5, <1>6

\* A leg past the ACD.
LEMMA DirectInv == ASSUME ChoiceInv, NEW d \in DN, DirectCall(d) PROVE ChoiceInv'
<1>1. status' = status /\ status' \in [DN -> {"none", "ready", "busy"}]
  BY DEF DirectCall, ChoiceInv, TypeOK
<1>2. BeginLeg(d) /\ UNCHANGED <<now, entries, ev, freeTime>>
  BY DEF DirectCall, entries, counters
<1> QED
  BY <1>1, <1>2, BeginInv

\* The end of a leg leaves its seconds to be written, or its entry exempt.
LEMMA EndInv ==
    ASSUME ChoiceInv, NEW j \in Leg, ChannelDestroy(j) \/ MissEvent(j) PROVE ChoiceInv'
<1>0. TypeOK /\ LegInv /\ (ev.live => ev.dn \in DN) /\ \A e \in DN : EntryInv(e)
  BY DEF ChoiceInv
<1>d. PICK d : d = legDn[j]
  OBVIOUS
<1>1. /\ d # NoDN /\ legDn' = [legDn EXCEPT ![j] = NoDN]
      /\ legStart' = [legStart EXCEPT ![j] = 0]
      /\ now' = now /\ m_idelminiutes' = m_idelminiutes /\ m_callminiutes' = m_callminiutes
      /\ m_calltimes' = m_calltimes /\ loaded' = loaded /\ nameless' = nameless
      /\ calls' = calls /\ freeTime' = freeTime
  BY <1>d DEF ChannelDestroy, MissEvent, EndLeg, entries, counters
<1>2. d \in DN /\ now \in Nat /\ legStart[j] \in Nat /\ legStart[j] <= now
  BY <1>0, <1>1, <1>d, Numbers DEF TypeOK, LegInv
<1>3. \/ ev' = ev /\ status' = status
      \/ /\ ev = NoEvent /\ status[d] # "none" /\ inexact' = inexact
         /\ status' = [status EXCEPT ![d] = "ready"]
         /\ ev' = [dn |-> d, secs |-> now - legStart[j], live |-> TRUE]
  BY <1>d DEF ChannelDestroy, MissEvent
<1>4. /\ inexact \subseteq inexact' /\ inexact' \subseteq inexact \cup {d}
      /\ ev' = ev => status[d] = "none" \/ d \in inexact'
  <2>1. CASE MissEvent(j)
    BY <1>d, <2>1 DEF MissEvent
  <2>2. CASE ChannelDestroy(j)
    <3>1. inexact' = inexact
      BY <2>2 DEF ChannelDestroy
    <3>2. ASSUME status[d] # "none", ev' = ev PROVE FALSE
      <4>1. ev' = [dn |-> d, secs |-> now - legStart[j], live |-> TRUE] /\ ev = NoEvent
        BY <1>d, <2>2, <3>2 DEF ChannelDestroy
      <4>2. ev'.dn = d /\ ev.dn = NoDN
        BY <4>1 DEF NoEvent
      <4> QED
        BY <1>1, <3>2, <4>2
    <3> QED
      BY <3>1, <3>2
  <2> QED
    BY <2>1, <2>2
<1>5. TypeOK'
  <2>1. now - legStart[j] \in Nat
    BY <1>2
  <2>2. ev' \in [dn : DN \cup {NoDN}, secs : Nat, live : BOOLEAN]
    <3>1. CASE ev' = ev
      BY <1>0, <3>1 DEF TypeOK
    <3>2. CASE ev' = [dn |-> d, secs |-> now - legStart[j], live |-> TRUE]
      BY <1>2, <2>1, <3>2
    <3> QED
      BY <1>3, <3>1, <3>2
  <2>3. status' \in [DN -> {"none", "ready", "busy"}]
    BY <1>0, <1>3 DEF TypeOK
  <2>4. legDn' \in [Leg -> DN \cup {NoDN}] /\ legStart' \in [Leg -> Nat]
    BY <1>0, <1>1 DEF TypeOK
  <2> QED
    BY <1>0, <1>1, <1>2, <1>4, <2>2, <2>3, <2>4 DEF TypeOK
<1>6. LegInv'
  <2> SUFFICES ASSUME NEW i \in Leg, legDn'[i] # NoDN PROVE legStart'[i] <= now' /\ i <= calls'
    BY DEF LegInv
  <2>1. i # j /\ legDn[i] # NoDN /\ legStart'[i] = legStart[i]
    BY <1>0, <1>1 DEF TypeOK
  <2> QED
    BY <1>0, <1>1, <2>1 DEF LegInv
<1>7. ASSUME NEW e \in DN, e # d PROVE EntryInv(e)'
  <2>1. LegsUp(e)' = LegsUp(e)
    <3>1. \A i \in Leg : legDn'[i] = e <=> legDn[i] = e
      BY <1>0, <1>d, <1>1, <1>7, Numbers DEF TypeOK
    <3> QED
      BY <3>1 DEF LegsUp
  <2>2. \A i \in LegsUp(e) : legStart'[i] = legStart[i]
    BY <1>0, <1>d, <1>1, <1>7 DEF TypeOK, LegsUp
  <2>3. Kept(e)
    BY <1>1, <2>1, <2>2 DEF Kept
  <2>4. ev' = ev \/ (ev.dn # e /\ ev'.dn # e)
    BY <1>0, <1>3, <1>7, Numbers DEF NoEvent
  <2>5. status'[e] = status[e]
    BY <1>0, <1>3, <1>7 DEF TypeOK
  <2>6. e \in loaded \cup inexact => e \in loaded' \cup inexact'
    BY <1>1, <1>4
  <2>7. EntryInv(e)
    BY <1>0
  <2> QED
    BY <2>3, <2>4, <2>5, <2>6, <2>7, EntryFrame
<1>8. EntryInv(d)'
  <2>0. EntryInv(d)
    BY <1>0, <1>2
  <2>1. CASE ev' = ev /\ status' = status
    BY <1>1, <1>4, <2>0, <2>1 DEF EntryInv, LiveInv, IdleInv
  <2>2. CASE /\ ev = NoEvent /\ status[d] # "none" /\ inexact' = inexact
             /\ status' = [status EXCEPT ![d] = "ready"]
             /\ ev' = [dn |-> d, secs |-> now - legStart[j], live |-> TRUE]
    <3>1. status'[d] = "ready" /\ LiveInv(d)'
      BY <1>0, <1>2, <2>2 DEF TypeOK, LiveInv
    <3>2. LiveDue(d) = 0 /\ LiveDue(d)' = now - legStart[j]
      BY <2>2 DEF LiveDue, NoEvent
    <3>3. j \in LegsUp(d)
      BY <1>d DEF LegsUp
    <3>4. LegsUp(d) = {j} => LegsUp(d)' = {}
      <4>1. \A i \in Leg : legDn'[i] = d => i # j /\ legDn[i] = d
        BY <1>0, <1>1 DEF TypeOK
      <4> QED
        BY <4>1 DEF LegsUp
    <3>5. Getidelminiute(d)' = Getidelminiute(d) /\ freeTime[d] \in Nat
      BY <1>0, <1>1, <1>2, Numbers DEF Getidelminiute
    <3>6. IdleInv(d)'
      <4>1. CASE d \in loaded \cup inexact
        BY <1>1, <2>2, <4>1 DEF IdleInv
      <4>2. CASE d \notin loaded \cup inexact
        <5>1. /\ LegsUp(d) = {j}
              /\ Getidelminiute(d) = freeTime[d] + LiveDue(d) + (now - legStart[j])
          BY <2>0, <2>2, <3>3, <4>2 DEF EntryInv, IdleInv
        <5> QED
          BY <1>1, <1>2, <3>2, <3>4, <3>5, <5>1 DEF IdleInv
      <4> QED
        BY <4>1, <4>2
    <3> QED
      BY <3>1, <3>6 DEF EntryInv
  <2> QED
    BY <1>3, <2>1, <2>2
<1>9. ev'.live => ev'.dn \in DN
  BY <1>0, <1>2, <1>3
<1> QED
  BY <1>5, <1>6, <1>7, <1>8, <1>9 DEF ChoiceInv

\* The seconds due are written to their entry, to a newer one, or nowhere.
LEMMA CountLegInv == ASSUME ChoiceInv, CountLeg PROVE ChoiceInv'
<1>0. TypeOK /\ LegInv /\ (ev.live => ev.dn \in DN) /\ \A e \in DN : EntryInv(e)
  BY DEF ChoiceInv
<1>1. /\ ev.dn # NoDN /\ ev' = NoEvent /\ now' = now /\ status' = status
      /\ m_idelminiutes' = m_idelminiutes /\ loaded' = loaded /\ nameless' = nameless
      /\ legDn' = legDn /\ legStart' = legStart /\ calls' = calls /\ freeTime' = freeTime
  BY DEF CountLeg, legs
<1>2. ev'.dn = NoDN /\ ~ev'.live /\ ev' \in [dn : DN \cup {NoDN}, secs : Nat, live : BOOLEAN]
  BY <1>1 DEF NoEvent
<1>3. LegInv'
  BY <1>0, <1>1 DEF LegInv
<1>4. CASE \E d \in DN :
             /\ status[d] # "none" /\ (ev.live => d = ev.dn)
             /\ m_callminiutes' = [m_callminiutes EXCEPT ![d] = @ + ev.secs]
             /\ m_calltimes' = [m_calltimes EXCEPT ![d] = @ + 1]
             /\ inexact' = IF ev.live THEN inexact ELSE inexact \cup {d}
  <2>1. PICK d \in DN :
             /\ status[d] # "none" /\ (ev.live => d = ev.dn)
             /\ m_callminiutes' = [m_callminiutes EXCEPT ![d] = m_callminiutes[d] + ev.secs]
             /\ m_calltimes' = [m_calltimes EXCEPT ![d] = m_calltimes[d] + 1]
             /\ inexact' = IF ev.live THEN inexact ELSE inexact \cup {d}
    BY <1>4
  <2>2. ev.secs \in Nat
    BY <1>0 DEF TypeOK
  <2>3. TypeOK'
    BY <1>0, <1>1, <1>2, <2>1, <2>2 DEF TypeOK
  <2>4. ASSUME NEW e \in DN, e # d PROVE EntryInv(e)'
    <3>1. Kept(e)
      BY <1>0, <1>1, <2>1, <2>4 DEF TypeOK, Kept, LegsUp
    <3>2. e \in loaded \cup inexact => e \in loaded' \cup inexact'
      BY <1>1, <2>1
    <3>3. LiveDue(e) = 0 /\ LiveDue(e)' = 0
      BY <1>2, <2>1, <2>4 DEF LiveDue
    <3>4. LiveInv(e)'
      BY <1>0, <1>1, <1>2 DEF EntryInv, LiveInv
    <3>5. IdleInv(e)'
      BY <1>0, <1>1, <3>1, <3>2, <3>3 DEF EntryInv, IdleInv, Kept, Getidelminiute
    <3> QED
      BY <3>4, <3>5 DEF EntryInv
  <2>5. EntryInv(d)'
    <3>1. LiveInv(d)'
      BY <1>0, <1>1, <1>2 DEF EntryInv, LiveInv
    <3>2. /\ m_callminiutes[d] \in Int /\ m_idelminiutes[d] \in Int /\ now \in Nat
          /\ freeTime[d] \in Nat /\ \A i \in LegsUp(d) : legStart[i] \in Nat
      BY <1>0, Numbers
    <3>3. /\ m_callminiutes'[d] = m_callminiutes[d] + ev.secs
          /\ Getidelminiute(d) \in Int /\ Getidelminiute(d)' = Getidelminiute(d) - ev.secs
      BY <1>0, <1>1, <2>1, <2>2, <3>2 DEF TypeOK, Getidelminiute
    <3>4. LiveDue(d)' = 0 /\ (ev.live => LiveDue(d) = ev.secs) /\ LegsUp(d)' = LegsUp(d)
      BY <1>1, <1>2, <2>1 DEF LiveDue, LegsUp
    <3>5. CASE ~ev.live
      BY <2>1, <3>1, <3>5 DEF EntryInv, IdleInv
    <3>6. CASE ev.live
      <4>1. inexact' = inexact /\ IdleInv(d)
        BY <1>0, <2>1, <3>6 DEF EntryInv
      <4>2. ASSUME d \notin loaded \cup inexact, LegsUp(d) = {}
            PROVE  Getidelminiute(d)' = freeTime'[d] + LiveDue(d)'
        BY <1>1, <2>1, <2>2, <3>2, <3>3, <3>4, <3>6, <4>1, <4>2 DEF IdleInv
      <4>3. ASSUME d \notin loaded \cup inexact, NEW i \in LegsUp(d)
            PROVE  /\ LegsUp(d) = {i}
                   /\ Getidelminiute(d)' = freeTime'[d] + LiveDue(d)' + (now' - legStart'[i])
        BY <1>1, <2>1, <2>2, <3>2, <3>3, <3>4, <3>6, <4>1, <4>3 DEF IdleInv
      <4>4. IdleInv(d)'
        BY <1>1, <3>4, <4>1, <4>2, <4>3 DEF IdleInv
      <4> QED
        BY <3>1, <4>4 DEF EntryInv
    <3> QED
      BY <3>5, <3>6
  <2> QED
    BY <1>2, <1>3, <2>3, <2>4, <2>5 DEF ChoiceInv
<1>5. CASE /\ ~ev.live /\ UNCHANGED <<m_callminiutes, m_calltimes, inexact>>
  <2>1. TypeOK'
    BY <1>0, <1>1, <1>2, <1>5 DEF TypeOK
  <2>2. ASSUME NEW e \in DN PROVE EntryInv(e)'
    <3>1. LiveDue(e) = 0 /\ LiveDue(e)' = 0
      BY <1>2, <1>5 DEF LiveDue
    <3>2. LiveInv(e)'
      BY <1>0, <1>1, <1>2 DEF EntryInv, LiveInv
    <3>3. Getidelminiute(e)' = Getidelminiute(e) /\ LegsUp(e)' = LegsUp(e)
      BY <1>1, <1>5 DEF Getidelminiute, LegsUp
    <3>4. IdleInv(e)'
      BY <1>0, <1>1, <1>5, <3>1, <3>3 DEF EntryInv, IdleInv
    <3> QED
      BY <3>2, <3>4 DEF EntryInv
  <2> QED
    BY <1>2, <1>3, <2>1, <2>2 DEF ChoiceInv
<1> QED
  BY <1>4, <1>5 DEF CountLeg

\* Every step keeps the invariant.
LEMMA StepInv == ASSUME ChoiceInv, [Next]_vars PROVE ChoiceInv'
<1>1. CASE Tick
  BY <1>1, TickInv
<1>2. ASSUME NEW d \in DN, Signin(d) PROVE ChoiceInv'
  BY <1>2, SigninInv
<1>3. ASSUME NEW d \in DN, SigninAgain(d) PROVE ChoiceInv'
  BY <1>3, StatusInv DEF SigninAgain
<1>4. ASSUME NEW d \in DN, Signout(d) PROVE ChoiceInv'
  BY <1>4, SignoutInv
<1>5. ASSUME NEW d \in DN, LoadDNSet(d) \/ DispatchGone(d) PROVE ChoiceInv'
  BY <1>5, LoadInv
<1>6. ASSUME NEW d \in DN, DirectCall(d) PROVE ChoiceInv'
  BY <1>6, DirectInv
<1>7. ASSUME NEW d \in DN, NEW s \in {"ready", "busy"}, SetDNstatus(d, s) PROVE ChoiceInv'
  BY <1>7, StatusInv DEF SetDNstatus
<1>8. ASSUME NEW rule \in Rules, Dispatch(rule) PROVE ChoiceInv'
  BY <1>8, DispatchInv
<1>9. ASSUME NEW i \in Leg, ChannelAnswer(i) PROVE ChoiceInv'
  <2>1. PICK d : d = legDn[i]
    OBVIOUS
  <2>2. /\ d # NoDN /\ status[d] = "ready" /\ status' = [status EXCEPT ![d] = "busy"]
        /\ UNCHANGED <<now, entries, legs, ev, freeTime, inexact>>
    BY <1>9, <2>1 DEF ChannelAnswer
  <2>3. d \in DN
    BY <2>1, <2>2 DEF ChoiceInv, TypeOK
  <2> QED
    BY <2>2, <2>3, StatusInv
<1>10. ASSUME NEW i \in Leg, ChannelDestroy(i) \/ MissEvent(i) PROVE ChoiceInv'
  BY <1>10, EndInv
<1>11. CASE CountLeg
  BY <1>11, CountLegInv
<1>12. CASE UNCHANGED vars
  <2>1. /\ now' = now /\ status' = status /\ m_idelminiutes' = m_idelminiutes
        /\ m_callminiutes' = m_callminiutes /\ m_calltimes' = m_calltimes /\ loaded' = loaded
        /\ nameless' = nameless /\ legDn' = legDn /\ legStart' = legStart /\ calls' = calls
        /\ freeTime' = freeTime /\ ev' = ev /\ inexact' = inexact
    BY <1>12 DEF vars, entries, counters, legs
  <2>2. TypeOK' /\ LegInv' /\ (ev'.live => ev'.dn \in DN)
    BY <2>1 DEF ChoiceInv, TypeOK, LegInv
  <2>3. ASSUME NEW e \in DN PROVE EntryInv(e)'
    <3>1. Kept(e) /\ EntryInv(e)
      BY <2>1 DEF Kept, LegsUp, ChoiceInv
    <3> QED
      BY <2>1, <3>1, EntryFrame
  <2> QED
    BY <2>2, <2>3 DEF ChoiceInv
<1> QED
  BY <1>1, <1>2, <1>3, <1>4, <1>5, <1>6, <1>7, <1>8, <1>9, <1>10, <1>11, <1>12 DEF Next

\* The invariant holds in every state.
LEMMA ChoiceInvHolds == Spec => []ChoiceInv
<1>1. Init => ChoiceInv
  BY InitInv
<1>2. ChoiceInv /\ [Next]_vars => ChoiceInv'
  BY StepInv
<1> QED
  BY <1>1, <1>2, PTL DEF Spec

----------------------------------------------------------------------------
(* Theorems *)

\* Getidelminiute is the time since the login without a leg: the seconds that
\* CHANNEL_DESTROY adds to m_callminiutes (src/DNManager.cpp), one leg at a time, and
\* the time of the login in m_idelminiutes account for the clock, whatever rests,
\* relogins and sign-outs came between, as long as no two legs of the DN overlapped
\* and the end of each was counted in the entry it belongs to.
THEOREM IdleTimeIsExact == Spec => []IdleIsTimeOffCalls
<1>1. ChoiceInv => IdleIsTimeOffCalls
  <2> SUFFICES ASSUME ChoiceInv, NEW d \in ReadyDNs \ (loaded \cup inexact),
                      LegsUp(d) = {}, ev.dn # d
               PROVE  Getidelminiute(d) = freeTime[d]
    BY DEF IdleIsTimeOffCalls
  <2>1. d \in DN /\ status[d] # "none" /\ TypeOK /\ IdleInv(d)
    BY DEF ReadyDNs, ChoiceInv, EntryInv
  <2>2. LiveDue(d) = 0 /\ freeTime[d] \in Nat
    BY <2>1 DEF LiveDue, TypeOK
  <2> QED
    BY <2>1, <2>2 DEF IdleInv
<1> QED
  BY <1>1, ChoiceInvHolds, PTL

\* Every rule of the switch finds a ready agent, for any number of agents and legs:
\* round robin always, a counting rule when one ready agent's counter is below the
\* 999999 it starts from, and the idle rule when a ready agent whose legs were counted
\* one by one has had a second without a leg, since what Getidelminiute leaves out is
\* at most the talk time.
THEOREM ReadyAgentsAreFound == Spec => []ReadyAgentReturned
<1>1. ChoiceInv => ReadyAgentReturned
  <2> SUFFICES ASSUME ChoiceInv PROVE ReadyAgentReturned
    OBVIOUS
  <2>1. TypeOK /\ Typed
    BY ChoiceAssumption DEF ChoiceInv, TypeOK, Typed
  <2>2. ReadyDNs # {} => GetavailableAgent("robin") \in ReadyDNs
    BY <2>1, RobinReturns DEF GetavailableAgent
  <2>3. (\E d \in ReadyDNs : m_callminiutes[d] < Limit) =>
            GetavailableAgent("leastTalk") \in ReadyDNs
    BY <2>1, TalkReturns DEF GetavailableAgent
  <2>4. (\E d \in ReadyDNs : m_calltimes[d] < Limit) =>
            GetavailableAgent("fewestCalls") \in ReadyDNs
    BY <2>1, CallsReturns DEF GetavailableAgent
  <2>5. ASSUME NEW d \in ReadyDNs \ (loaded \cup inexact), freeTime[d] > 0
        PROVE  GetavailableAgent("idel") \in ReadyDNs
    <3>1. d \in DN /\ status[d] # "none" /\ IdleInv(d) /\ d \in ReadyDNs /\ LegInv
      BY DEF ReadyDNs, ChoiceInv, EntryInv
    <3>2. LiveDue(d) \in Nat /\ freeTime[d] \in Nat /\ now \in Nat
      BY <2>1, <3>1, Numbers
    <3>3. CASE LegsUp(d) = {}
      <4>1. Getidelminiute(d) > 0
        BY <2>5, <3>1, <3>2, <3>3 DEF IdleInv
      <4> QED
        BY <2>1, <3>1, <4>1, IdleReturns DEF GetavailableAgent
    <3>4. ASSUME NEW i \in LegsUp(d) PROVE GetavailableAgent("idel") \in ReadyDNs
      <4>1. i \in Leg /\ legDn[i] = d /\ d # NoDN /\ legStart[i] \in Nat
        BY <2>1, <3>1, <3>4, Numbers DEF LegsUp
      <4>2. legStart[i] <= now
        BY <3>1, <4>1 DEF LegInv
      <4>3. Getidelminiute(d) = freeTime[d] + LiveDue(d) + (now - legStart[i])
        BY <2>5, <3>1, <3>4 DEF IdleInv
      <4>4. Getidelminiute(d) > 0
        BY <2>5, <3>2, <4>1, <4>2, <4>3
      <4> QED
        BY <2>1, <3>1, <4>4, IdleReturns DEF GetavailableAgent
    <3> QED
      BY <3>3, <3>4
  <2> QED
    BY <2>2, <2>3, <2>4, <2>5 DEF ReadyAgentReturned
<1> QED
  BY <1>1, ChoiceInvHolds, PTL

\* The scan of GetAgent_idel_agent, which keeps the larger idle time and the DN it
\* belongs to, ends with a ready agent that no ready agent has been idle longer
\* than, for any number of agents and any values of the counters.
THEOREM LongestIdleIsPicked == Spec => []IdleRulePicksLongest
<1>1. ChoiceInv => IdleRulePicksLongest
  <2>1. ChoiceInv => Typed
    BY ChoiceAssumption DEF ChoiceInv, TypeOK, Typed
  <2> QED
    BY <2>1, IdleReturns
<1> QED
  BY <1>1, ChoiceInvHolds, PTL

=============================================================================

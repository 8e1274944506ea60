------------------------ MODULE EventDispatchProofs ------------------------
(***************************************************************************)
(* Theorems about subscriptions and dispatch, for any types, listeners and *)
(* priorities and any number of callbacks.                                 *)
(***************************************************************************)
EXTENDS EventDispatch, SequenceTheorems, TLAPS

(* Inserting into a sequence and removing from it *)

LEMMA InsertAtProperties ==
  ASSUME NEW S, NEW q \in Seq(S), NEW k \in 1..Len(q) + 1, NEW e \in S
  PROVE  /\ InsertAt(q, k, e) \in Seq(S)
         /\ Len(InsertAt(q, k, e)) = Len(q) + 1
         /\ InsertAt(q, k, e)[k] = e
         /\ \A i \in 1..k - 1 : i \in 1..Len(q) /\ InsertAt(q, k, e)[i] = q[i]
         /\ \A i \in k + 1..Len(q) + 1 : /\ i - 1 \in 1..Len(q)
                                         /\ InsertAt(q, k, e)[i] = q[i - 1]
<1> DEFINE a == SubSeq(q, 1, k - 1)
           b == SubSeq(q, k, Len(q))
           r == (a \o <<e>>) \o b
<1>1. Len(q) \in Nat /\ k \in Nat /\ k >= 1 /\ k <= Len(q) + 1
  BY LenProperties
<1>2. /\ a \in Seq(S) /\ Len(a) = k - 1
      /\ \A i \in 1..k - 1 : a[i] = q[i]
  <2>1. /\ a \in Seq(S)
        /\ Len(a) = IF 1 <= k - 1 THEN (k - 1) - 1 + 1 ELSE 0
        /\ \A i \in 1..(k - 1) - 1 + 1 : a[i] = q[1 + i - 1]
    BY <1>1, SubSeqProperties
  <2> QED
    BY <1>1, <2>1
<1>3. /\ b \in Seq(S) /\ Len(b) = Len(q) + 1 - k
      /\ \A i \in 1..Len(q) + 1 - k : b[i] = q[k + i - 1]
  <2>1. /\ b \in Seq(S)
        /\ Len(b) = IF k <= Len(q) THEN Len(q) - k + 1 ELSE 0
        /\ \A i \in 1..Len(q) - k + 1 : b[i] = q[k + i - 1]
    BY <1>1, SubSeqProperties
  <2> QED
    BY <1>1, <2>1
<1> HIDE DEF a, b
<1>4. /\ <<e>> \in Seq(S) /\ Len(<<e>>) = 1 /\ <<e>>[1] = e
  OBVIOUS
<1> DEFINE ae == a \o <<e>>
<1>5. /\ ae \in Seq(S) /\ Len(ae) = k
      /\ \A i \in 1..k : ae[i] = IF i <= k - 1 THEN a[i] ELSE e
  BY <1>1, <1>2, <1>4, ConcatProperties
<1> HIDE DEF ae
<1>6. /\ ae \o b \in Seq(S) /\ Len(ae \o b) = Len(q) + 1
      /\ \A i \in 1..Len(q) + 1 : (ae \o b)[i] = IF i <= k THEN ae[i] ELSE b[i - k]
  <2>1. /\ ae \o b \in Seq(S) /\ Len(ae \o b) = Len(ae) + Len(b)
        /\ \A i \in 1..Len(ae) + Len(b) :
             (ae \o b)[i] = IF i <= Len(ae) THEN ae[i] ELSE b[i - Len(ae)]
    BY <1>3, <1>5, ConcatProperties
  <2>2. Len(ae) = k /\ Len(ae) + Len(b) = Len(q) + 1
    BY <1>1, <1>3, <1>5
  <2> QED
    BY <2>1, <2>2
<1>7. InsertAt(q, k, e) = ae \o b
  BY DEF InsertAt, ae, a, b
<1> DEFINE s == ae \o b
<1> HIDE DEF s
<1>8. /\ s \in Seq(S) /\ Len(s) = Len(q) + 1
      /\ \A i \in 1..Len(q) + 1 : s[i] = IF i <= k THEN ae[i] ELSE b[i - k]
  BY <1>6 DEF s
<1>9. s[k] = e /\ \A i \in 1..k - 1 : i \in 1..Len(q) /\ s[i] = q[i]
  BY <1>1, <1>2, <1>5, <1>8
<1>10. ASSUME NEW i \in k + 1..Len(q) + 1
       PROVE  i - 1 \in 1..Len(q) /\ s[i] = q[i - 1]
  <2>1. i \in Nat /\ i - k \in 1..Len(q) + 1 - k /\ ~(i <= k) /\ i \in 1..Len(q) + 1
    BY <1>1
  <2>2. s[i] = b[i - k] /\ b[i - k] = q[k + (i - k) - 1]
    BY <1>3, <1>8, <2>1
  <2>3. k + (i - k) - 1 = i - 1
    BY <1>1, <2>1
  <2> QED
    BY <1>1, <2>1, <2>2, <2>3
<1> QED
  BY <1>7, <1>8, <1>9, <1>10 DEF s

LEMMA RemoveAtProperties ==
  ASSUME NEW S, NEW q \in Seq(S), NEW k \in 1..Len(q)
  PROVE  /\ RemoveAt(q, k) \in Seq(S)
         /\ Len(RemoveAt(q, k)) = Len(q) - 1
         /\ \A i \in 1..k - 1 : i \in 1..Len(q) /\ RemoveAt(q, k)[i] = q[i]
         /\ \A i \in k..Len(q) - 1 : /\ i + 1 \in 1..Len(q)
                                     /\ RemoveAt(q, k)[i] = q[i + 1]
<1> DEFINE a == SubSeq(q, 1, k - 1)
           b == SubSeq(q, k + 1, Len(q))
           s == a \o b
<1>1. Len(q) \in Nat /\ k \in Nat /\ k >= 1 /\ k <= Len(q)
  BY LenProperties
<1>2. /\ a \in Seq(S) /\ Len(a) = k - 1
      /\ \A i \in 1..k - 1 : a[i] = q[i]
  <2>1. /\ a \in Seq(S)
        /\ Len(a) = IF 1 <= k - 1 THEN (k - 1) - 1 + 1 ELSE 0
        /\ \A i \in 1..(k - 1) - 1 + 1 : a[i] = q[1 + i - 1]
    BY <1>1, SubSeqProperties
  <2> QED
    BY <1>1, <2>1
<1>3. /\ b \in Seq(S) /\ Len(b) = Len(q) - k
      /\ \A i \in 1..Len(q) - k : b[i] = q[k + i]
  <2>1. /\ b \in Seq(S)
        /\ Len(b) = IF k + 1 <= Len(q) THEN Len(q) - (k + 1) + 1 ELSE 0
        /\ \A i \in 1..Len(q) - (k + 1) + 1 : b[i] = q[k + 1 + i - 1]
    BY <1>1, SubSeqProperties
  <2> QED
    BY <1>1, <2>1
<1>4. RemoveAt(q, k) = s
  BY DEF RemoveAt
<1> HIDE DEF a, b
<1>5. /\ s \in Seq(S) /\ Len(s) = Len(q) - 1
      /\ \A i \in 1..Len(q) - 1 : s[i] = IF i <= k - 1 THEN a[i] ELSE b[i - (k - 1)]
  <2>1. /\ a \o b \in Seq(S) /\ Len(a \o b) = Len(a) + Len(b)
        /\ \A i \in 1..Len(a) + Len(b) :
             (a \o b)[i] = IF i <= Len(a) THEN a[i] ELSE b[i - Len(a)]
    BY <1>2, <1>3, ConcatProperties
  <2>2. Len(a) = k - 1 /\ Len(a) + Len(b) = Len(q) - 1
    BY <1>1, <1>2, <1>3
  <2> QED
    BY <2>1, <2>2
<1> HIDE DEF s
<1>6. ASSUME NEW i \in 1..k - 1
      PROVE  i \in 1..Len(q) /\ s[i] = q[i]
  <2>1. i \in 1..Len(q) /\ i \in 1..Len(q) - 1 /\ i <= k - 1
    BY <1>1
  <2> QED
    BY <1>2, <1>5, <2>1
<1>7. ASSUME NEW i \in k..Len(q) - 1
      PROVE  i + 1 \in 1..Len(q) /\ s[i] = q[i + 1]
  <2>1. i \in Nat /\ i - (k - 1) \in 1..Len(q) - k /\ ~(i <= k - 1) /\ i \in 1..Len(q) - 1
    BY <1>1
  <2>2. s[i] = b[i - (k - 1)] /\ b[i - (k - 1)] = q[k + (i - (k - 1))]
    BY <1>3, <1>5, <2>1
  <2>3. k + (i - (k - 1)) = i + 1
    BY <1>1, <2>1
  <2> QED
    BY <1>1, <2>1, <2>2, <2>3
<1> QED
  BY <1>4, <1>5, <1>6, <1>7

LEMMA SeqOfMore ==
  ASSUME NEW S, NEW T, S \subseteq T, NEW q \in Seq(S)
  PROVE  q \in Seq(T)
<1>1. Len(q) \in Nat /\ q \in [1..Len(q) -> T]
  BY LenProperties
<1> QED
  BY <1>1, SeqDef

-----------------------------------------------------------------------------
(* The inductive invariant *)

\* A callback is in the map of its own type.
FiledByType == \A t \in Types : \A i \in 1..Len(callbacks[t]) :
  info[callbacks[t][i]].type = t

\* The multimap itself is sorted, whether its order is cached or not.
MapSorted == \A t \in Types : \A i, j \in 1..Len(callbacks[t]) :
  i < j => Earlier(callbacks[t][i], callbacks[t][j])

\* While a list is walked, all of it is subscribed or waits for deletion.
WalkIsKept == phase \in {"dispatch", "running"} =>
  \A i \in 1..Len(Order) : Order[i] \in Subscribed \cup deletion

DispatchInv == /\ TypeOK
               /\ CacheCoherent
               /\ RunsByPriority
               /\ OneLife
               /\ FiledByType
               /\ MapSorted
               /\ WalkIsKept

LEMMA SubscribedMeans ==
  \A x : x \in Subscribed <=> \E t \in Types : \E i \in 1..Len(callbacks[t]) :
                                callbacks[t][i] = x
BY DEF Subscribed

LEMMA HeldMeans == \A x : x \in Held <=> \E l \in Listeners : x \in handles[l]
BY DEF Held

LEMMA SubscribeKeepsInv ==
  ASSUME DispatchInv,
         NEW l \in Listeners, NEW t \in Types, NEW n \in Names, NEW p \in Priorities,
         Subscribe(l, t, n, p)
  PROVE  DispatchInv' /\ Subscribed' = Subscribed \cup {Len(info) + 1}
<1> DEFINE e == Len(info) + 1
           h == Handle(t, l, n, p)
           q == callbacks[t]
<1>1. PICK k \in 1..Len(q) + 1 :
        /\ UpperBound(t, p, k)
        /\ callbacks' = [callbacks EXCEPT ![t] = InsertAt(@, k, e)]
        /\ handles' = [handles EXCEPT ![l] = @ \cup {e}]
        /\ info' = Append(info, h)
  BY DEF Subscribe, Insert, Place
<1>2. /\ l \in alive
      /\ cached' = [cached EXCEPT ![t] = FALSE]
      /\ UNCHANGED <<processing, enabled, alive, leaving, round, phase, at, outbox,
                     deletion, freed>>
  BY DEF Subscribe, MaySubscribe, pollVars
<1>3. /\ callbacks \in [Types -> Seq(Made)] /\ processing \in [Types -> Seq(Made)]
      /\ cached \in [Types -> BOOLEAN] /\ info \in Seq(Information)
      /\ handles \in [Listeners -> SUBSET Made]
      /\ deletion \subseteq Made /\ freed \subseteq Made /\ leaving \subseteq Made
      /\ q \in Seq(Made) /\ Len(q) \in Nat /\ Len(info) \in Nat
  BY LenProperties DEF DispatchInv, TypeOK, Information
<1>4. h \in Information /\ h.type = t /\ h.listener = l /\ h.priority = p
  BY DEF Handle, Information
<1>5. /\ info' \in Seq(Information) /\ Len(info') = e
      /\ info'[e] = h /\ \A c \in Made : info'[c] = info[c]
  <2>1. /\ info' \in Seq(Information) /\ Len(info') = Len(info) + 1
        /\ \A i \in 1..Len(info) : info'[i] = info[i]
        /\ info'[Len(info) + 1] = h
    BY <1>1, <1>3, <1>4, AppendProperties
  <2> QED
    BY <2>1 DEF Made
<1>6. /\ Made' = Made \cup {e} /\ e \notin Made
      /\ \A c \in Made : c \in Nat /\ c < e
  BY <1>3, <1>5 DEF Made
<1> HIDE DEF h, e
<1>7. \A S, s : S \subseteq Made /\ s \in Seq(S) => s \in Seq(Made')
  BY <1>6, SeqOfMore, Zenon
<1>8. /\ callbacks'[t] = InsertAt(q, k, e)
      /\ \A u \in Types : u # t => callbacks'[u] = callbacks[u]
      /\ DOMAIN callbacks' = Types /\ callbacks' = [u \in Types |-> callbacks'[u]]
  BY <1>1, <1>3
<1>9. /\ callbacks'[t] \in Seq(Made') /\ Len(callbacks'[t]) = Len(q) + 1
      /\ callbacks'[t][k] = e
      /\ \A i \in 1..k - 1 : i \in 1..Len(q) /\ callbacks'[t][i] = q[i]
      /\ \A i \in k + 1..Len(q) + 1 : /\ i - 1 \in 1..Len(q)
                                      /\ callbacks'[t][i] = q[i - 1]
  <2>1. q \in Seq(Made') /\ e \in Made'
    BY <1>3, <1>6, <1>7, Zenon
  <2>2. /\ InsertAt(q, k, e) \in Seq(Made') /\ Len(InsertAt(q, k, e)) = Len(q) + 1
        /\ InsertAt(q, k, e)[k] = e
        /\ \A i \in 1..k - 1 : i \in 1..Len(q) /\ InsertAt(q, k, e)[i] = q[i]
        /\ \A i \in k + 1..Len(q) + 1 : /\ i - 1 \in 1..Len(q)
                                        /\ InsertAt(q, k, e)[i] = q[i - 1]
    <3> DEFINE M == Made'
    <3>1. k \in 1..Len(q) + 1 /\ q \in Seq(M) /\ e \in M
      BY <2>1
    <3> HIDE DEF q, M
    <3>2. /\ InsertAt(q, k, e) \in Seq(M) /\ Len(InsertAt(q, k, e)) = Len(q) + 1
          /\ InsertAt(q, k, e)[k] = e
          /\ \A i \in 1..k - 1 : i \in 1..Len(q) /\ InsertAt(q, k, e)[i] = q[i]
          /\ \A i \in k + 1..Len(q) + 1 : /\ i - 1 \in 1..Len(q)
                                          /\ InsertAt(q, k, e)[i] = q[i - 1]
      BY <3>1, InsertAtProperties
    <3> QED
      BY <3>2 DEF M
  <2> QED
    BY <1>8, <2>2, Zenon
<1>10. \A u \in Types : callbacks'[u] \in Seq(Made') /\ processing'[u] \in Seq(Made')
  <2> SUFFICES ASSUME NEW u \in Types
               PROVE  callbacks'[u] \in Seq(Made') /\ processing'[u] \in Seq(Made')
    OBVIOUS
  <2>1. callbacks[u] \in Seq(Made) /\ processing[u] \in Seq(Made)
    BY <1>3
  <2> QED
    BY <1>2, <1>7, <1>8, <1>9, <2>1, Zenon
<1>11. TypeOK'
  <2>1. callbacks' \in [Types -> Seq(Made')] /\ processing' \in [Types -> Seq(Made')]
    BY <1>2, <1>3, <1>8, <1>10
  <2>2. handles' \in [Listeners -> SUBSET Made']
    BY <1>1, <1>3, <1>6
  <2>3. cached' \in [Types -> BOOLEAN]
    BY <1>2, <1>3
  <2>4. deletion' \subseteq Made' /\ freed' \subseteq Made' /\ leaving' \subseteq Made'
    BY <1>2, <1>3, <1>6
  <2> QED
    BY <1>2, <1>5, <2>1, <2>2, <2>3, <2>4 DEF DispatchInv, TypeOK, Information
<1>12. CacheCoherent'
  BY <1>2, <1>3, <1>8 DEF DispatchInv, CacheCoherent
<1> DEFINE EarlierNow(c, d) ==
             \/ info'[c].priority > info'[d].priority
             \/ info'[c].priority = info'[d].priority /\ c < d
<1>13. \A c, d \in Made : Earlier(c, d) => EarlierNow(c, d)
  BY <1>5 DEF Earlier
<1>14. RunsByPriority'
  <2> SUFFICES ASSUME NEW u \in Types, NEW i \in 1..Len(processing[u]),
                      NEW j \in 1..Len(processing[u]), i < j
               PROVE  Earlier(processing[u][i], processing[u][j])'
    BY <1>2 DEF RunsByPriority
  <2>1. processing[u][i] \in Made /\ processing[u][j] \in Made
    BY <1>3, ElementOfSeq
  <2>2. Earlier(processing[u][i], processing[u][j])
    BY DEF DispatchInv, RunsByPriority
  <2> QED
    BY <1>2, <1>5, <2>1, <2>2 DEF Earlier
<1>15. \A i \in 1..Len(q) : q[i] \in Made
  BY <1>3, ElementOfSeq
<1>16. FiledByType'
  <2> SUFFICES ASSUME NEW u \in Types, NEW i \in 1..Len(callbacks'[u])
               PROVE  info'[callbacks'[u][i]].type = u
    BY DEF FiledByType
  <2>1. CASE u # t
    <3>1. callbacks[u][i] \in Made
      BY <1>3, <1>8, <2>1, ElementOfSeq
    <3> QED
      BY <1>5, <1>8, <2>1, <3>1 DEF DispatchInv, FiledByType
  <2>2. CASE u = t /\ i = k
    BY <1>4, <1>5, <1>9, <2>2
  <2>3. CASE u = t /\ i # k
    <3>1. PICK j \in 1..Len(q) : callbacks'[t][i] = q[j]
      <4>1. i \in 1..k - 1 \/ i \in k + 1..Len(q) + 1
        BY <1>3, <1>9, <2>3
      <4> QED
        BY <1>9, <4>1
    <3>2. q[j] \in Made /\ info[q[j]].type = t
      BY <1>15 DEF DispatchInv, FiledByType
    <3> QED
      BY <1>5, <2>3, <3>1, <3>2
  <2> QED
    BY <2>1, <2>2, <2>3
<1>17. MapSorted'
  <2> SUFFICES ASSUME NEW u \in Types, NEW i \in 1..Len(callbacks'[u]),
                      NEW j \in 1..Len(callbacks'[u]), i < j
               PROVE  Earlier(callbacks[u][i], callbacks[u][j])'
    BY DEF MapSorted
  <2> DEFINE c == callbacks'[u][i]
             d == callbacks'[u][j]
  <2>1. CASE u # t
    <3>1. callbacks[u][i] \in Made /\ callbacks[u][j] \in Made
      BY <1>3, <1>8, <2>1, ElementOfSeq
    <3>2. Earlier(callbacks[u][i], callbacks[u][j])
      BY <1>8, <2>1 DEF DispatchInv, MapSorted
    <3>3. callbacks'[u][i] = callbacks[u][i] /\ callbacks'[u][j] = callbacks[u][j]
      BY <1>8, <2>1
    <3> QED
      BY <1>5, <3>1, <3>2, <3>3 DEF Earlier
  <2>2. \A a \in 1..Len(q) : info[q[a]].priority >= p <=> a < k
    BY <1>1 DEF UpperBound
  <2>3. \A a \in 1..Len(q) : info'[q[a]] = info[q[a]] /\ info[q[a]].priority \in Nat
    <3> SUFFICES ASSUME NEW a \in 1..Len(q)
                 PROVE  info'[q[a]] = info[q[a]] /\ info[q[a]].priority \in Nat
      OBVIOUS
    <3>1. q[a] \in 1..Len(info)
      BY <1>15 DEF Made
    <3>2. info[q[a]] \in Information
      BY <1>3, <3>1, ElementOfSeq
    <3> QED
      BY <1>5, <1>15, <3>2, DispatchAssumption DEF Information
  <2>4. \A a, b \in 1..Len(q) : a < b => EarlierNow(q[a], q[b])
    <3> SUFFICES ASSUME NEW a \in 1..Len(q), NEW b \in 1..Len(q), a < b
                 PROVE  EarlierNow(q[a], q[b])
      OBVIOUS
    <3>1. Earlier(q[a], q[b])
      BY DEF DispatchInv, MapSorted
    <3> QED
      BY <1>13, <1>15, <3>1
  <2>5. CASE u = t /\ j = k
    <3>1. i \in 1..k - 1
      BY <1>3, <2>5
    <3>2. c = q[i] /\ d = e /\ i \in 1..Len(q) /\ i < k
      BY <1>9, <2>5, <3>1
    <3>3. info'[c].priority >= p /\ info'[d].priority = p /\ c < d
          /\ info'[c].priority \in Nat
      BY <1>4, <1>5, <1>6, <1>15, <2>2, <2>3, <3>2
    <3> QED
      BY <3>3, DispatchAssumption DEF Earlier
  <2>6. CASE u = t /\ i = k
    <3>1. j \in k + 1..Len(q) + 1
      BY <1>3, <1>9, <2>6
    <3>2. c = e /\ d = q[j - 1] /\ j - 1 \in 1..Len(q) /\ ~(j - 1 < k)
      BY <1>3, <1>9, <2>6, <3>1
    <3>3. info'[c].priority = p /\ ~(info'[d].priority >= p)
          /\ info'[d].priority \in Nat
      BY <1>4, <1>5, <2>2, <2>3, <3>2
    <3> QED
      BY <3>3, DispatchAssumption DEF Earlier
  <2>7. CASE u = t /\ i # k /\ j # k
    <3>1. \A x \in 1..Len(callbacks'[t]) : x # k =>
            LET y == IF x < k THEN x ELSE x - 1 IN
            y \in 1..Len(q) /\ callbacks'[t][x] = q[y]
      <4> SUFFICES ASSUME NEW x \in 1..Len(callbacks'[t]), x # k
                   PROVE  LET y == IF x < k THEN x ELSE x - 1 IN
                          y \in 1..Len(q) /\ callbacks'[t][x] = q[y]
        OBVIOUS
      <4>1. IF x < k THEN x \in 1..k - 1 ELSE x \in k + 1..Len(q) + 1
        BY <1>3, <1>9
      <4> QED
        BY <1>9, <4>1
    <3> DEFINE a == IF i < k THEN i ELSE i - 1
               b == IF j < k THEN j ELSE j - 1
    <3>2. a \in 1..Len(q) /\ b \in 1..Len(q) /\ c = q[a] /\ d = q[b]
      BY <2>7, <3>1
    <3>3. a < b
      BY <1>3, <1>9, <2>7
    <3> QED
      BY <2>4, <3>2, <3>3 DEF Earlier
  <2> QED
    BY <2>1, <2>5, <2>6, <2>7
<1>18. Subscribed' = Subscribed \cup {e}
  <2>1. ASSUME NEW x \in Subscribed'
        PROVE  x \in Subscribed \cup {e}
    <3>1. PICK u \in Types : \E i \in 1..Len(callbacks'[u]) : callbacks'[u][i] = x
      BY DEF Subscribed
    <3>2. PICK i \in 1..Len(callbacks'[u]) : callbacks'[u][i] = x
      BY <3>1
    <3>3. CASE u # t
      BY <1>8, <3>2, <3>3, SubscribedMeans
    <3>4. CASE u = t
      <4>1. i \in 1..k - 1 \/ i = k \/ i \in k + 1..Len(q) + 1
        BY <1>3, <1>9, <3>4
      <4> QED
        BY <1>9, <3>2, <3>4, <4>1, SubscribedMeans
    <3> QED
      BY <3>3, <3>4
  <2>2. \A i \in 1..Len(q) : \E j \in 1..Len(callbacks'[t]) : callbacks'[t][j] = q[i]
    <3> SUFFICES ASSUME NEW i \in 1..Len(q)
                 PROVE  \E j \in 1..Len(callbacks'[t]) : callbacks'[t][j] = q[i]
      OBVIOUS
    <3>1. CASE i < k
      <4>1. i \in 1..k - 1 /\ i \in 1..Len(callbacks'[t])
        BY <1>3, <1>9, <3>1
      <4> QED
        BY <1>9, <4>1
    <3>2. CASE ~(i < k)
      <4>1. i + 1 \in k + 1..Len(q) + 1 /\ i + 1 \in 1..Len(callbacks'[t]) /\ (i + 1) - 1 = i
        BY <1>3, <1>9, <3>2
      <4> QED
        BY <1>9, <4>1
    <3> QED
      BY <3>1, <3>2
  <2>3. ASSUME NEW x \in Subscribed
        PROVE  x \in Subscribed'
    <3>1. PICK u \in Types : \E i \in 1..Len(callbacks[u]) : callbacks[u][i] = x
      BY SubscribedMeans
    <3>2. \E i \in 1..Len(callbacks'[u]) : callbacks'[u][i] = x
      BY <1>8, <2>2, <3>1
    <3> QED
      BY <3>2 DEF Subscribed
  <2>4. k \in 1..Len(callbacks'[t])
    BY <1>3, <1>9
  <2>5. e \in Subscribed'
    BY <1>9, <2>4 DEF Subscribed
  <2> QED
    BY <2>1, <2>3, <2>5
<1>19. OneLife'
  <2>1. \A m \in Listeners : handles'[m] = IF m = l THEN handles[l] \cup {e} ELSE handles[m]
    BY <1>1, <1>3
  <2>2. ASSUME NEW m \in Listeners, NEW c \in handles'[m]
        PROVE  m \in alive' /\ info'[c].listener = m
    <3>1. CASE c \in handles[m]
      <4>1. c \in Made /\ m \in alive /\ info[c].listener = m
        BY <1>3, <3>1 DEF DispatchInv, OneLife
      <4> QED
        BY <1>2, <1>5, <4>1
    <3>2. CASE c \notin handles[m]
      <4>1. m = l /\ c = e
        BY <2>1, <3>2
      <4> QED
        BY <1>2, <1>4, <1>5, <4>1
    <3> QED
      BY <3>1, <3>2
  <2>3. Held' = Held \cup {e}
    <3>1. \A x : x \in Held' <=> \E m \in Listeners : x \in handles'[m]
      BY DEF Held
    <3> QED
      BY <2>1, <3>1, HeldMeans
  <2>4. \A m \in Listeners : handles'[m] \cap leaving' = {}
    BY <1>2, <1>3, <1>6, <2>1 DEF DispatchInv, OneLife
  <2>5. leaving' \cup Held' = Subscribed'
    BY <1>2, <1>18, <2>3 DEF DispatchInv, OneLife
  <2>6. /\ Made' = Subscribed' \cup deletion' \cup freed'
        /\ Subscribed' \cap deletion' = {}
        /\ (Subscribed' \cup deletion') \cap freed' = {}
    BY <1>2, <1>3, <1>6, <1>18 DEF DispatchInv, OneLife
  <2> QED
    BY <2>2, <2>4, <2>5, <2>6 DEF OneLife
<1>20. WalkIsKept'
  BY <1>2, <1>18 DEF DispatchInv, WalkIsKept, Order
<1> QED
  BY <1>11, <1>12, <1>14, <1>16, <1>17, <1>18, <1>19, <1>20 DEF DispatchInv, e

LEMMA UnsubscribeKeepsInv ==
  ASSUME DispatchInv, NEW c \in Made, Unsubscribe(c)
  PROVE  DispatchInv' /\ Subscribed' = Subscribed \ {c} /\ c \in Subscribed
<1> DEFINE t == info[c].type
           q == callbacks[t]
<1>1. PICK k \in 1..Len(q) :
        /\ q[k] = c
        /\ callbacks' = [callbacks EXCEPT ![t] = RemoveAt(@, k)]
  BY DEF Unsubscribe
<1>2. /\ c \in leaving /\ leaving' = leaving \ {c}
      /\ cached' = [cached EXCEPT ![t] = FALSE]
      /\ deletion' = deletion \cup {c}
      /\ UNCHANGED <<freed, processing, handles, enabled, alive, round, phase, at, outbox,
                     info>>
  BY DEF Unsubscribe, Retire, pollVars
<1>3. /\ callbacks \in [Types -> Seq(Made)] /\ processing \in [Types -> Seq(Made)]
      /\ cached \in [Types -> BOOLEAN] /\ info \in Seq(Information)
      /\ handles \in [Listeners -> SUBSET Made]
      /\ deletion \subseteq Made /\ freed \subseteq Made /\ leaving \subseteq Made
  BY DEF DispatchInv, TypeOK, Information
<1>4. t \in Types
  <2>1. info[c] \in Information
    BY <1>3, ElementOfSeq DEF Made
  <2> QED
    BY <2>1 DEF Information
<1>5. q \in Seq(Made) /\ Len(q) \in Nat /\ \A i \in 1..Len(q) : q[i] \in Made
  BY <1>3, <1>4, ElementOfSeq, LenProperties
<1>6. Made' = Made /\ \A a \in Made : a \in Nat /\ ~(a < a)
  BY <1>2 DEF Made
<1>7. /\ callbacks'[t] = RemoveAt(q, k)
      /\ \A u \in Types : u # t => callbacks'[u] = callbacks[u]
      /\ DOMAIN callbacks' = Types /\ callbacks' = [u \in Types |-> callbacks'[u]]
  BY <1>1, <1>3, <1>4
<1>8. /\ callbacks'[t] \in Seq(Made) /\ Len(callbacks'[t]) = Len(q) - 1
      /\ \A i \in 1..k - 1 : i \in 1..Len(q) /\ callbacks'[t][i] = q[i]
      /\ \A i \in k..Len(q) - 1 : /\ i + 1 \in 1..Len(q)
                                  /\ callbacks'[t][i] = q[i + 1]
  <2> DEFINE M == Made
  <2>1. k \in 1..Len(q) /\ q \in Seq(M)
    BY <1>5
  <2> HIDE DEF q, M
  <2>2. /\ RemoveAt(q, k) \in Seq(M) /\ Len(RemoveAt(q, k)) = Len(q) - 1
        /\ \A i \in 1..k - 1 : i \in 1..Len(q) /\ RemoveAt(q, k)[i] = q[i]
        /\ \A i \in k..Len(q) - 1 : /\ i + 1 \in 1..Len(q)
                                    /\ RemoveAt(q, k)[i] = q[i + 1]
    BY <2>1, RemoveAtProperties
  <2> USE DEF M
  <2> QED
    BY <1>7, <2>2
<1>9. TypeOK'
  <2>1. callbacks' \in [Types -> Seq(Made')]
    BY <1>3, <1>6, <1>7, <1>8
  <2>2. processing' \in [Types -> Seq(Made')] /\ handles' \in [Listeners -> SUBSET Made']
    BY <1>2, <1>3, <1>6
  <2>3. cached' \in [Types -> BOOLEAN]
    BY <1>2, <1>3
  <2>4. deletion' \subseteq Made' /\ freed' \subseteq Made' /\ leaving' \subseteq Made'
    BY <1>2, <1>3, <1>6
  <2> QED
    BY <1>2, <2>1, <2>2, <2>3, <2>4 DEF DispatchInv, TypeOK
<1>10. CacheCoherent'
  BY <1>2, <1>3, <1>4, <1>7 DEF DispatchInv, CacheCoherent
<1>11. RunsByPriority'
  BY <1>2 DEF DispatchInv, RunsByPriority, Earlier
<1>12. \A x \in 1..Len(callbacks'[t]) :
         LET y == IF x < k THEN x ELSE x + 1 IN
         y \in 1..Len(q) /\ y # k /\ callbacks'[t][x] = q[y]
  <2> SUFFICES ASSUME NEW x \in 1..Len(callbacks'[t])
               PROVE  LET y == IF x < k THEN x ELSE x + 1 IN
                      y \in 1..Len(q) /\ y # k /\ callbacks'[t][x] = q[y]
    OBVIOUS
  <2>1. IF x < k THEN x \in 1..k - 1 ELSE x \in k..Len(q) - 1 /\ x + 1 # k
    BY <1>5, <1>8
  <2> QED
    BY <1>8, <2>1
<1>13. FiledByType'
  <2> SUFFICES ASSUME NEW u \in Types, NEW i \in 1..Len(callbacks'[u])
               PROVE  info'[callbacks'[u][i]].type = u
    BY DEF FiledByType
  <2>1. CASE u # t
    BY <1>2, <1>7, <2>1 DEF DispatchInv, FiledByType
  <2>2. CASE u = t
    <3>1. PICK j \in 1..Len(q) : callbacks'[t][i] = q[j]
      BY <1>12, <2>2
    <3>2. info[q[j]].type = t
      BY <1>4 DEF DispatchInv, FiledByType
    <3> QED
      BY <1>2, <2>2, <3>1, <3>2
  <2> QED
    BY <2>1, <2>2
<1>14. MapSorted'
  <2> SUFFICES ASSUME NEW u \in Types, NEW i \in 1..Len(callbacks'[u]),
                      NEW j \in 1..Len(callbacks'[u]), i < j
               PROVE  Earlier(callbacks[u][i], callbacks[u][j])'
    BY DEF MapSorted
  <2>1. CASE u # t
    BY <1>2, <1>7, <2>1 DEF DispatchInv, MapSorted, Earlier
  <2>2. CASE u = t
    <3> DEFINE a == IF i < k THEN i ELSE i + 1
               b == IF j < k THEN j ELSE j + 1
    <3>1. /\ a \in 1..Len(q) /\ callbacks'[u][i] = q[a]
          /\ b \in 1..Len(q) /\ callbacks'[u][j] = q[b]
      BY <1>12, <2>2
    <3>2. a < b
      BY <1>5, <1>8, <2>2
    <3>3. Earlier(q[a], q[b])
      BY <1>4, <3>1, <3>2 DEF DispatchInv, MapSorted
    <3> QED
      BY <1>2, <3>1, <3>3 DEF Earlier
  <2> QED
    BY <2>1, <2>2
\* The removed callback was in one place of one map: its type is that map's, and
\* the map is strictly sorted.
<1>15. \A u \in Types : \A i \in 1..Len(callbacks[u]) :
         callbacks[u][i] = c <=> u = t /\ i = k
  <2> SUFFICES ASSUME NEW u \in Types, NEW i \in 1..Len(callbacks[u]),
                      callbacks[u][i] = c
               PROVE  u = t /\ i = k
    BY <1>1
  <2>1. u = t
    BY DEF DispatchInv, FiledByType
  <2>2. i \in 1..Len(q) /\ q[i] = c
    BY <2>1
  <2>3. ~Earlier(c, c)
    <3>1. info[c] \in Information
      BY <1>3, ElementOfSeq DEF Made
    <3>2. info[c].priority \in Nat
      BY <3>1, DispatchAssumption DEF Information
    <3> QED
      BY <1>6, <3>2 DEF Earlier
  <2>4. ~(i < k) /\ ~(k < i)
    BY <1>1, <1>4, <2>2, <2>3 DEF DispatchInv, MapSorted
  <2> QED
    BY <1>5, <2>1, <2>2, <2>4
<1>16. Subscribed' = Subscribed \ {c}
  <2>1. ASSUME NEW x \in Subscribed'
        PROVE  x \in Subscribed \ {c}
    <3>1. PICK u \in Types : \E i \in 1..Len(callbacks'[u]) : callbacks'[u][i] = x
      BY DEF Subscribed
    <3>2. PICK i \in 1..Len(callbacks'[u]) : callbacks'[u][i] = x
      BY <3>1
    <3>3. \E j \in 1..Len(callbacks[u]) : callbacks[u][j] = x /\ ~(u = t /\ j = k)
      <4>1. CASE u # t
        BY <1>7, <3>2, <4>1
      <4>2. CASE u = t
        BY <1>12, <3>2, <4>2
      <4> QED
        BY <4>1, <4>2
    <3> QED
      BY <1>15, <3>3, SubscribedMeans
  <2>2. ASSUME NEW x \in Subscribed, x # c
        PROVE  x \in Subscribed'
    <3>1. PICK u \in Types : \E i \in 1..Len(callbacks[u]) : callbacks[u][i] = x
      BY SubscribedMeans
    <3>2. PICK i \in 1..Len(callbacks[u]) : callbacks[u][i] = x
      BY <3>1
    <3>3. \E j \in 1..Len(callbacks'[u]) : callbacks'[u][j] = x
      <4>1. CASE u # t
        BY <1>7, <3>2, <4>1
      <4>2. CASE u = t /\ i < k
        <5>1. i \in 1..k - 1 /\ i \in 1..Len(callbacks'[t])
          BY <1>5, <1>8, <4>2
        <5> QED
          BY <1>8, <3>2, <4>2, <5>1
      <4>3. CASE u = t /\ ~(i < k)
        <5>1. i # k
          BY <1>1, <2>2, <3>2, <4>3
        <5>2. i - 1 \in k..Len(q) - 1 /\ i - 1 \in 1..Len(callbacks'[t]) /\ (i - 1) + 1 = i
          BY <1>5, <1>8, <4>3, <5>1
        <5> QED
          BY <1>8, <3>2, <4>3, <5>2
      <4> QED
        BY <4>1, <4>2, <4>3
    <3> QED
      BY <3>3 DEF Subscribed
  <2> QED
    BY <2>1, <2>2
<1>17. c \in Subscribed /\ c \notin Held
  BY <1>2, HeldMeans DEF DispatchInv, OneLife
<1>18. OneLife'
  <2>1. Held' = Held
    BY <1>2 DEF Held
  <2>2. \A l \in Listeners : \A x \in handles'[l] : l \in alive' /\ info'[x].listener = l
    BY <1>2 DEF DispatchInv, OneLife
  <2>3. leaving' \cup Held' = Subscribed'
    BY <1>2, <1>16, <1>17, <2>1 DEF DispatchInv, OneLife
  <2>4. \A l \in Listeners : handles'[l] \cap leaving' = {}
    BY <1>2 DEF DispatchInv, OneLife
  <2>5. /\ Made' = Subscribed' \cup deletion' \cup freed'
        /\ Subscribed' \cap deletion' = {}
        /\ (Subscribed' \cup deletion') \cap freed' = {}
    BY <1>2, <1>6, <1>16, <1>17 DEF DispatchInv, OneLife
  <2> QED
    BY <2>2, <2>3, <2>4, <2>5 DEF OneLife
<1>19. WalkIsKept'
  BY <1>2, <1>16 DEF DispatchInv, WalkIsKept, Order
<1> QED
  BY <1>9, <1>10, <1>11, <1>13, <1>14, <1>16, <1>17, <1>18, <1>19 DEF DispatchInv

\* The loops of Listener::unsubscribe and of the destructor take callbacks out
\* of the handles of one listener.
LEMMA LeavingKeepsInv ==
  ASSUME DispatchInv, NEW l \in Listeners, NEW gone, gone \subseteq handles[l],
         leaving = {}, leaving' = gone,
         handles' = [handles EXCEPT ![l] = @ \ gone],
         alive' = alive \/ (gone = handles[l] /\ alive' = alive \ {l}),
         UNCHANGED <<typeVars, deletion, freed, enabled, pollVars, outbox, info>>
  PROVE  DispatchInv'
<1>1. /\ callbacks' = callbacks /\ cached' = cached /\ processing' = processing
      /\ deletion' = deletion /\ freed' = freed /\ enabled' = enabled
      /\ round' = round /\ phase' = phase /\ at' = at /\ outbox' = outbox
      /\ info' = info /\ Made' = Made /\ Subscribed' = Subscribed
  BY DEF typeVars, pollVars, Made, Subscribed
<1>2. /\ handles \in [Listeners -> SUBSET Made]
      /\ handles' \in [Listeners -> SUBSET Made]
      /\ \A m \in Listeners :
           handles'[m] = IF m = l THEN handles[l] \ gone ELSE handles[m]
  BY DEF DispatchInv, TypeOK
<1>3. TypeOK'
  <2>1. leaving' \subseteq Made /\ alive' \subseteq Listeners
    BY <1>2 DEF DispatchInv, TypeOK
  <2>2. /\ callbacks' \in [Types -> Seq(Made)] /\ processing' \in [Types -> Seq(Made)]
        /\ cached' \in [Types -> BOOLEAN] /\ enabled' \in [Listeners -> BOOLEAN]
    BY <1>1 DEF DispatchInv, TypeOK
  <2> QED
    BY <1>1, <1>2, <2>1, <2>2 DEF DispatchInv, TypeOK
<1>4. CacheCoherent' /\ RunsByPriority' /\ FiledByType' /\ MapSorted' /\ WalkIsKept'
  BY <1>1 DEF DispatchInv, CacheCoherent, RunsByPriority, FiledByType, MapSorted,
              WalkIsKept, Order, Earlier
<1>5. OneLife'
  <2>1. \A m \in Listeners : \A c \in handles'[m] : m \in alive' /\ info'[c].listener = m
    BY <1>1, <1>2 DEF DispatchInv, OneLife
  <2>2. \A m \in Listeners : handles'[m] \cap leaving' = {}
    <3> SUFFICES ASSUME NEW m \in Listeners, NEW c \in handles'[m], c \in gone
                 PROVE  FALSE
      OBVIOUS
    <3>1. m # l /\ c \in handles[m] /\ c \in handles[l]
      BY <1>2
    <3> QED
      BY <3>1 DEF DispatchInv, OneLife
  <2>3. leaving' \cup Held' = Held
    <3>1. \A x : x \in Held' <=> \E m \in Listeners : x \in handles'[m]
      BY DEF Held
    <3> QED
      BY <1>2, <3>1, HeldMeans
  <2>4. Held = Subscribed
    BY DEF DispatchInv, OneLife
  <2>5. /\ Made' = Subscribed' \cup deletion' \cup freed'
        /\ Subscribed' \cap deletion' = {}
        /\ (Subscribed' \cup deletion') \cap freed' = {}
    BY <1>1 DEF DispatchInv, OneLife
  <2> QED
    BY <1>1, <2>1, <2>2, <2>3, <2>4, <2>5 DEF OneLife
<1> QED
  BY <1>3, <1>4, <1>5 DEF DispatchInv

\* Steps that leave the callbacks where they are.
LEMMA PollerKeepsInv ==
  ASSUME DispatchInv, PollStep
  PROVE  DispatchInv'
<1>1. /\ UNCHANGED <<callbacks, handles, enabled, alive, leaving, info>>
      /\ Made' = Made /\ Subscribed' = Subscribed /\ Held' = Held
  BY DEF PollStep, BeginPoll, EndPoll, StartNotify, Invoke, Return, NotifyEnds, typeVars,
         listenerVars, Made, Subscribed, Held
<1>2. /\ callbacks \in [Types -> Seq(Made)] /\ processing \in [Types -> Seq(Made)]
      /\ cached \in [Types -> BOOLEAN] /\ round \in Seq(Types) /\ outbox \in Seq(Types)
      /\ at \in Nat \ {0} /\ phase \in Phases
      /\ phase \in {"dispatch", "running"} => round # <<>>
      /\ deletion \subseteq Made /\ freed \subseteq Made
  BY DEF DispatchInv, TypeOK
<1>3. /\ handles' \in [Listeners -> SUBSET Made'] /\ enabled' \in [Listeners -> BOOLEAN]
      /\ alive' \subseteq Listeners /\ leaving' \subseteq Made'
      /\ info' \in Seq(Information)
      /\ callbacks' \in [Types -> Seq(Made')]
  BY <1>1 DEF DispatchInv, TypeOK, Information
<1>4. FiledByType' /\ MapSorted'
  BY <1>1 DEF DispatchInv, FiledByType, MapSorted, Earlier
<1>5. CASE BeginPoll
  <2>1. /\ freed' = freed \cup deletion /\ deletion' = {} /\ round' = outbox
        /\ outbox' = <<>> /\ phase' = "next"
        /\ UNCHANGED <<cached, processing, at>>
    BY <1>5 DEF BeginPoll, typeVars
  <2>2. TypeOK'
    <3>1. outbox' \in Seq(Types) /\ round' \in Seq(Types)
      BY <1>2, <2>1
    <3>2. processing' \in [Types -> Seq(Made')] /\ cached' \in [Types -> BOOLEAN]
      BY <1>1, <1>2, <2>1
    <3>3. freed' \subseteq Made' /\ deletion' \subseteq Made'
      BY <1>1, <1>2, <2>1
    <3> QED
      BY <1>2, <1>3, <2>1, <3>1, <3>2, <3>3 DEF TypeOK, Phases, Information
  <2>3. CacheCoherent' /\ RunsByPriority'
    BY <1>1, <2>1 DEF DispatchInv, CacheCoherent, RunsByPriority, Earlier
  <2>4. OneLife'
    BY <1>1, <2>1 DEF DispatchInv, OneLife
  <2>5. WalkIsKept'
    BY <2>1 DEF WalkIsKept
  <2> QED
    BY <1>4, <2>2, <2>3, <2>4, <2>5 DEF DispatchInv
<1>6. CASE StartNotify
  <2> DEFINE t == Head(round)
  <2>1. /\ phase = "next" /\ round # <<>> /\ phase' = "dispatch"
        /\ processing' = IF cached[t] THEN processing
                         ELSE [processing EXCEPT ![t] = callbacks[t]]
        /\ cached' = [cached EXCEPT ![t] = TRUE]
        /\ UNCHANGED <<deletion, freed, round, at, outbox>>
    BY <1>6 DEF StartNotify
  <2>2. t \in Types
    BY <1>2, <2>1, HeadTailProperties
  <2>3. /\ processing'[t] = callbacks[t]
        /\ \A u \in Types : u # t => processing'[u] = processing[u]
        /\ processing' \in [Types -> Seq(Made)]
    <3>1. cached[t] => processing[t] = callbacks[t]
      BY <2>2 DEF DispatchInv, CacheCoherent
    <3> QED
      BY <1>2, <2>1, <2>2, <3>1
  <2>4. TypeOK'
    <3>1. processing' \in [Types -> Seq(Made')] /\ cached' \in [Types -> BOOLEAN]
      BY <1>1, <1>2, <2>1, <2>3
    <3> QED
      BY <1>1, <1>2, <1>3, <2>1, <3>1 DEF TypeOK, Phases, Information
  <2>5. CacheCoherent'
    BY <1>1, <1>2, <2>1, <2>2, <2>3 DEF DispatchInv, CacheCoherent
  <2>6. RunsByPriority'
    <3> SUFFICES ASSUME NEW u \in Types, NEW i \in 1..Len(processing'[u]),
                        NEW j \in 1..Len(processing'[u]), i < j
                 PROVE  Earlier(processing[u][i], processing[u][j])'
      BY DEF RunsByPriority
    <3>1. CASE u = t
      BY <1>1, <2>2, <2>3, <3>1 DEF DispatchInv, MapSorted, Earlier
    <3>2. CASE u # t
      BY <1>1, <2>2, <2>3, <3>2 DEF DispatchInv, RunsByPriority, Earlier
    <3> QED
      BY <3>1, <3>2
  <2>7. OneLife'
    BY <1>1, <2>1 DEF DispatchInv, OneLife
  <2>8. WalkIsKept'
    <3>1. \A i \in 1..Len(callbacks[t]) : callbacks[t][i] \in Subscribed
      BY <2>2, SubscribedMeans
    <3>2. Order' = callbacks[t]
      BY <2>1, <2>3 DEF Order
    <3> QED
      BY <1>1, <3>1, <3>2 DEF WalkIsKept
  <2> QED
    BY <1>4, <2>4, <2>5, <2>6, <2>7, <2>8 DEF DispatchInv
<1>7. CASE EndPoll \/ Invoke \/ Return \/ NotifyEnds
  <2>1. UNCHANGED <<cached, processing, deletion, freed, outbox>>
    BY <1>7 DEF EndPoll, Invoke, Return, NotifyEnds, typeVars
  <2>2. /\ round' \in Seq(Types) /\ at' \in Nat \ {0} /\ phase' \in Phases
        /\ phase' \in {"dispatch", "running"} =>
             round' = round /\ phase \in {"dispatch", "running"}
    <3>1. CASE EndPoll
      BY <1>2, <3>1 DEF EndPoll, Phases
    <3>2. CASE Invoke
      BY <1>2, <3>2 DEF Invoke, NextCallback, Phases
    <3>3. ASSUME phase \in {"dispatch", "running"}, FinishEvent \/ NextCallback
          PROVE  /\ round' \in Seq(Types) /\ at' \in Nat \ {0} /\ phase' \in Phases
                 /\ phase' \in {"dispatch", "running"} => round' = round
      <4>1. round # <<>>
        BY <1>2, <3>3
      <4>2. Tail(round) \in Seq(Types)
        BY <1>2, <4>1, HeadTailProperties
      <4>3. CASE FinishEvent
        BY <4>2, <4>3 DEF FinishEvent, Phases
      <4>4. CASE NextCallback
        BY <1>2, <4>4 DEF NextCallback, Phases
      <4> QED
        BY <3>3, <4>3, <4>4
    <3>4. CASE Return \/ NotifyEnds
      BY <3>3, <3>4 DEF Return, NotifyEnds
    <3> QED
      BY <1>7, <3>1, <3>2, <3>4
  <2>3. TypeOK'
    <3>1. processing' \in [Types -> Seq(Made')] /\ cached' \in [Types -> BOOLEAN]
      BY <1>1, <1>2, <2>1
    <3> QED
      BY <1>1, <1>2, <1>3, <2>1, <2>2, <3>1 DEF TypeOK, Information
  <2>4. CacheCoherent' /\ RunsByPriority'
    BY <1>1, <2>1 DEF DispatchInv, CacheCoherent, RunsByPriority, Earlier
  <2>5. OneLife'
    BY <1>1, <2>1 DEF DispatchInv, OneLife
  <2>6. WalkIsKept'
    BY <1>1, <2>1, <2>2 DEF DispatchInv, WalkIsKept, Order
  <2> QED
    BY <1>4, <2>3, <2>4, <2>5, <2>6 DEF DispatchInv
<1> QED
  BY <1>5, <1>6, <1>7 DEF PollStep

LEMMA BystandersKeepInv ==
  ASSUME DispatchInv, enabled' \in [Listeners -> BOOLEAN], outbox' \in Seq(Types),
         UNCHANGED <<callbacks, cached, processing, deletion, freed, info, handles, alive,
                     leaving, round, phase, at>>
  PROVE  DispatchInv'
<1>1. Made' = Made /\ Subscribed' = Subscribed /\ Held' = Held
  BY DEF Made, Subscribed, Held
<1>2. TypeOK'
  <2>1. /\ callbacks' \in [Types -> Seq(Made')] /\ processing' \in [Types -> Seq(Made')]
        /\ cached' \in [Types -> BOOLEAN] /\ handles' \in [Listeners -> SUBSET Made']
    BY <1>1 DEF DispatchInv, TypeOK
  <2> QED
    BY <1>1, <2>1 DEF DispatchInv, TypeOK
<1>3. CacheCoherent' /\ RunsByPriority' /\ FiledByType' /\ MapSorted' /\ WalkIsKept'
  BY <1>1 DEF DispatchInv, CacheCoherent, RunsByPriority, FiledByType, MapSorted,
              WalkIsKept, Order, Earlier
<1>4. OneLife'
  BY <1>1 DEF DispatchInv, OneLife
<1> QED
  BY <1>2, <1>3, <1>4 DEF DispatchInv

LEMMA InitEstablishesInv == Init => DispatchInv
<1> SUFFICES ASSUME Init PROVE DispatchInv
  OBVIOUS
<1>1. Made = {} /\ Subscribed = {} /\ Held = {}
  BY DEF Init, Made, Subscribed, Held
<1>2. \A S : <<>> \in Seq(S)
  OBVIOUS
<1>3. TypeOK
  <2>1. callbacks \in [Types -> Seq(Made)] /\ processing \in [Types -> Seq(Made)]
        /\ outbox \in Seq(Types) /\ round \in Seq(Types)
        /\ info \in Seq(Information)
    BY <1>2 DEF Init
  <2>2. cached \in [Types -> BOOLEAN] /\ handles \in [Listeners -> SUBSET Made]
    BY DEF Init
  <2> QED
    BY <2>1, <2>2 DEF Init, TypeOK, Phases
<1>4. CacheCoherent /\ RunsByPriority /\ FiledByType /\ MapSorted
  BY DEF Init, CacheCoherent, RunsByPriority, FiledByType, MapSorted
<1>5. OneLife
  BY <1>1 DEF Init, OneLife
<1>6. WalkIsKept
  BY DEF Init, WalkIsKept
<1> QED
  BY <1>3, <1>4, <1>5, <1>6 DEF DispatchInv

LEMMA NextKeepsInv == DispatchInv /\ [Next]_vars => DispatchInv'
<1> SUFFICES ASSUME DispatchInv, [Next]_vars
             PROVE  DispatchInv'
  OBVIOUS
<1>1. CASE \E l \in Listeners, t \in Types, n \in Names, p \in Priorities :
             Subscribe(l, t, n, p)
  BY <1>1, SubscribeKeepsInv
<1>2. CASE \E l \in Listeners, t \in Types, n \in Names : UnsubscribeName(l, t, n)
  <2>1. PICK l \in Listeners, t \in Types, n \in Names : UnsubscribeName(l, t, n)
    BY <1>2
  <2> DEFINE gone == Named(l, t, n)
  <2>2. /\ gone \subseteq handles[l] /\ leaving = {} /\ leaving' = gone
        /\ handles' = [handles EXCEPT ![l] = @ \ gone]
        /\ UNCHANGED <<typeVars, deletion, freed, enabled, pollVars, outbox, info>>
        /\ alive' = alive
    BY <2>1 DEF UnsubscribeName, MainMayAct, Named
  <2>3. alive' = alive \/ (gone = handles[l] /\ alive' = alive \ {l})
    BY <2>2
  <2> HIDE DEF gone
  <2> QED
    BY <2>2, <2>3, LeavingKeepsInv
<1>3. CASE \E l \in Listeners : DestroyListener(l)
  <2>1. PICK l \in Listeners : DestroyListener(l)
    BY <1>3
  <2> DEFINE gone == handles[l]
  <2>2. handles' = [handles EXCEPT ![l] = @ \ gone]
    BY <2>1 DEF DestroyListener, DispatchInv, TypeOK
  <2>3. /\ gone \subseteq handles[l] /\ leaving = {} /\ leaving' = gone
        /\ gone = handles[l] /\ alive' = alive \ {l}
        /\ UNCHANGED <<typeVars, deletion, freed, enabled, pollVars, outbox, info>>
    BY <2>1 DEF DestroyListener, MainMayAct
  <2> HIDE DEF gone
  <2> QED
    BY <2>2, <2>3, LeavingKeepsInv
<1>4. CASE \E l \in Listeners : SetEnabled(l, ~enabled[l])
  <2>1. PICK l \in Listeners : enabled' = [enabled EXCEPT ![l] = ~enabled[l]]
    BY <1>4 DEF SetEnabled
  <2>2. enabled' \in [Listeners -> BOOLEAN]
    BY <2>1 DEF DispatchInv, TypeOK
  <2>3. UNCHANGED <<typeVars, handles, alive, leaving, pollVars, outbox, deletion, freed,
                    info>>
    BY <1>4 DEF SetEnabled
  <2> QED
    BY <2>2, <2>3, BystandersKeepInv DEF DispatchInv, TypeOK, typeVars, pollVars
<1>5. CASE \E c \in Made : Unsubscribe(c)
  BY <1>5, UnsubscribeKeepsInv
<1>6. CASE \E t \in Types : Send(t)
  <2>1. PICK t \in Types : outbox' = Append(outbox, t)
    BY <1>6 DEF Send
  <2>2. outbox' \in Seq(Types)
    BY <2>1, AppendProperties DEF DispatchInv, TypeOK
  <2>3. UNCHANGED <<typeVars, listenerVars, pollVars, deletion, freed, info>>
    BY <1>6 DEF Send
  <2> QED
    BY <2>2, <2>3, BystandersKeepInv
       DEF DispatchInv, TypeOK, typeVars, listenerVars, pollVars
<1>7. CASE PollStep
  BY <1>7, PollerKeepsInv
<1>8. CASE UNCHANGED vars
  BY <1>8, BystandersKeepInv
     DEF DispatchInv, TypeOK, vars, typeVars, listenerVars, pollVars
<1> QED
  BY <1>1, <1>2, <1>3, <1>4, <1>5, <1>6, <1>7, <1>8 DEF Next

(***************************************************************************)
(* The invariant holds in every reachable state.                           *)
(***************************************************************************)
THEOREM DispatchInvariant == Spec => []DispatchInv
BY InitEstablishesInv, NextKeepsInv, PTL DEF Spec

(***************************************************************************)
(* The variables of the event system and of its listeners keep their types *)
(* and an event is at hand while it is dispatched.                         *)
(***************************************************************************)
THEOREM DispatchTypes == Spec => []TypeOK
<1>1. DispatchInv => TypeOK
  BY DEF DispatchInv
<1> QED
  BY <1>1, DispatchInvariant, PTL

(***************************************************************************)
(* Whatever a callback unsubscribes or destroys, notify never calls a      *)
(* callback that was deleted.                                              *)
(***************************************************************************)
THEOREM NobodyCallsTheFreed == Spec => []NoFreedCallbackCalled
<1>1. DispatchInv => NoFreedCallbackCalled
  <2> SUFFICES ASSUME DispatchInv, phase \in {"dispatch", "running"}, NEW i \in at..Len(Order)
               PROVE  Order[i] \notin freed
    BY DEF NoFreedCallbackCalled
  <2>1. Head(round) \in Types
    BY HeadTailProperties DEF DispatchInv, TypeOK
  <2>2. Len(Order) \in Nat /\ at \in Nat \ {0}
    BY <2>1, LenProperties DEF DispatchInv, TypeOK, Order
  <2>3. i \in 1..Len(Order)
    BY <2>2
  <2> QED
    BY <2>3 DEF DispatchInv, WalkIsKept, OneLife
<1> QED
  BY <1>1, DispatchInvariant, PTL

(***************************************************************************)
(* A cache that is valid is the multimap, whoever changed that and when.   *)
(***************************************************************************)
THEOREM CacheIsTheMap == Spec => []CacheCoherent
<1>1. DispatchInv => CacheCoherent
  BY DEF DispatchInv
<1> QED
  BY <1>1, DispatchInvariant, PTL

(***************************************************************************)
(* Callbacks run by priority and, within one, in the order of subscribing. *)
(***************************************************************************)
THEOREM PriorityRules == Spec => []RunsByPriority
<1>1. DispatchInv => RunsByPriority
  BY DEF DispatchInv
<1> QED
  BY <1>1, DispatchInvariant, PTL

(***************************************************************************)
(* A callback is subscribed, then waits for deletion, then is deleted: it  *)
(* is never in two of these places and never in none.                      *)
(***************************************************************************)
THEOREM OneLifeEach == Spec => []OneLife
<1>1. DispatchInv => OneLife
  BY DEF DispatchInv
<1> QED
  BY <1>1, DispatchInvariant, PTL

-----------------------------------------------------------------------------
(* EventDispatch implements Dispatch *)

\* The walk begins at the beginning.
AtRest == phase \in {"idle", "next"} => at = 1

LEMMA StartsAtRest == Spec => []AtRest
<1>1. Init => AtRest
  BY DEF Init, AtRest
<1>2. AtRest /\ [Next]_vars => AtRest'
  <2> SUFFICES ASSUME AtRest, [Next]_vars
               PROVE  AtRest'
    OBVIOUS
  <2>1. CASE PollStep
    BY <2>1 DEF PollStep, BeginPoll, EndPoll, StartNotify, Invoke, Return, NotifyEnds,
                NextCallback, FinishEvent, AtRest
  <2>2. CASE ~PollStep
    <3>1. UNCHANGED pollVars
      BY <2>2 DEF Next, Subscribe, UnsubscribeName, DestroyListener, SetEnabled,
                  Unsubscribe, Send, vars
    <3> QED
      BY <3>1 DEF pollVars, AtRest
  <2> QED
    BY <2>1, <2>2
<1> QED
  BY <1>1, <1>2, PTL DEF Spec

LEMMA InWalk ==
  ASSUME DispatchInv, phase \in {"dispatch", "running"}
  PROVE  /\ Order \in Seq(Made) /\ Len(Order) \in Nat /\ at \in Nat \ {0}
         /\ \A i, j \in 1..Len(Order) : i < j => Earlier(Order[i], Order[j])
         /\ \A i \in 1..Len(Order) : ~Earlier(Order[i], Order[i])
<1>1. Head(round) \in Types
  BY HeadTailProperties DEF DispatchInv, TypeOK
<1>2. Order \in Seq(Made) /\ Len(Order) \in Nat /\ at \in Nat \ {0}
  BY <1>1, LenProperties DEF DispatchInv, TypeOK, Order
<1>3. \A i, j \in 1..Len(Order) : i < j => Earlier(Order[i], Order[j])
  BY <1>1 DEF DispatchInv, RunsByPriority, Order
<1>4. ASSUME NEW i \in 1..Len(Order)
      PROVE  ~Earlier(Order[i], Order[i])
  <2>1. Order[i] \in 1..Len(info) /\ info \in Seq(Information)
    BY <1>2, ElementOfSeq DEF DispatchInv, TypeOK, Made
  <2>2. info[Order[i]] \in Information
    BY <2>1, ElementOfSeq
  <2>3. info[Order[i]].priority \in Nat
    BY <2>2, DispatchAssumption DEF Information
  <2>4. Order[i] \in Nat
    BY <2>1
  <2> QED
    BY <2>3, <2>4 DEF Earlier
<1> QED
  BY <1>2, <1>3, <1>4

\* What is left of a walk, without its first.
LEMMA WalkGoesOn ==
  ASSUME DispatchInv, phase = "dispatch", at <= Len(Order)
  PROVE  LET Left(k) == {Order[i] : i \in k..Len(Order)} IN
         /\ Order[at] \in Left(at)
         /\ \A d \in Left(at) \ {Order[at]} : Earlier(Order[at], d)
         /\ Left(at) \ {Order[at]} = Left(at + 1)
<1> DEFINE Left(k) == {Order[i] : i \in k..Len(Order)}
<1>1. /\ Len(Order) \in Nat /\ at \in Nat \ {0}
      /\ \A i, j \in 1..Len(Order) : i < j => Earlier(Order[i], Order[j])
      /\ \A i \in 1..Len(Order) : ~Earlier(Order[i], Order[i])
  BY InWalk
<1>2. at \in 1..Len(Order) /\ at \in at..Len(Order)
  BY <1>1
<1>3. \A i \in at..Len(Order) : i = at \/ i \in at + 1..Len(Order)
  BY <1>1
<1>4. \A i \in at + 1..Len(Order) :
        i \in at..Len(Order) /\ i \in 1..Len(Order) /\ at < i
  BY <1>1
<1>5. \A i \in at + 1..Len(Order) :
        Earlier(Order[at], Order[i]) /\ Order[i] # Order[at]
  <2> SUFFICES ASSUME NEW i \in at + 1..Len(Order)
               PROVE  Earlier(Order[at], Order[i]) /\ Order[i] # Order[at]
    OBVIOUS
  <2>1. Earlier(Order[at], Order[i])
    BY <1>1, <1>2, <1>4
  <2>2. ~Earlier(Order[at], Order[at])
    BY <1>1, <1>2
  <2> QED
    BY <2>1, <2>2
<1>6. Order[at] \in Left(at)
  BY <1>2
<1>7. Left(at) \ {Order[at]} = Left(at + 1)
  BY <1>3, <1>4, <1>5, Zenon
<1>8. \A d \in Left(at + 1) : Earlier(Order[at], d)
  BY <1>5, Zenon
<1> QED
  BY <1>6, <1>7, <1>8

\* The callbacks in the map of a type are the subscribers of that type.
LEMMA MapIsSubscribers ==
  ASSUME DispatchInv, NEW t \in Types
  PROVE  {callbacks[t][i] : i \in 1..Len(callbacks[t])} =
           {c \in Subscribed : info[c].type = t}
<1>1. \A i \in 1..Len(callbacks[t]) :
        callbacks[t][i] \in Subscribed /\ info[callbacks[t][i]].type = t
  BY SubscribedMeans DEF DispatchInv, FiledByType
<1>2. ASSUME NEW c \in Subscribed, info[c].type = t
      PROVE  \E i \in 1..Len(callbacks[t]) : callbacks[t][i] = c
  <2>1. PICK u \in Types : \E i \in 1..Len(callbacks[u]) : callbacks[u][i] = c
    BY SubscribedMeans
  <2>2. u = t
    BY <1>2, <2>1 DEF DispatchInv, FiledByType
  <2> QED
    BY <2>1, <2>2
<1> QED
  BY <1>1, <1>2

LEMMA PollerDispatches ==
  ASSUME DispatchInv, AtRest, PollStep
  PROVE  Promised!Next \/ UNCHANGED <<info, Subscribed, StillToOffer, Poller>>
<1>1. UNCHANGED <<callbacks, info, Subscribed>>
  BY DEF PollStep, BeginPoll, EndPoll, StartNotify, Invoke, Return, NotifyEnds, typeVars,
         Subscribed
<1>2. CASE BeginPoll \/ EndPoll
  <2>1. phase \in {"idle", "next"} /\ phase' \in {"idle", "next"}
    BY <1>2 DEF BeginPoll, EndPoll
  <2> QED
    BY <1>1, <2>1 DEF StillToOffer, Poller
<1>3. CASE StartNotify
  <2> DEFINE t == Head(round)
  <2>1. /\ phase = "next" /\ round # <<>> /\ phase' = "dispatch" /\ at' = 1
        /\ processing' = IF cached[t] THEN processing
                         ELSE [processing EXCEPT ![t] = callbacks[t]]
        /\ round' = round
    BY <1>3 DEF StartNotify, AtRest
  <2>2. t \in Types /\ processing \in [Types -> Seq(Made)]
    BY <2>1, HeadTailProperties DEF DispatchInv, TypeOK
  <2>3. Order' = callbacks[t]
    <3>1. cached[t] => processing[t] = callbacks[t]
      BY <2>2 DEF DispatchInv, CacheCoherent
    <3> QED
      BY <2>1, <2>2, <3>1 DEF Order
  <2>4. StillToOffer' = {callbacks[t][i] : i \in 1..Len(callbacks[t])}
    BY <2>1, <2>3 DEF StillToOffer
  <2>5. Poller = "idle" /\ Poller' = "offering"
    BY <2>1 DEF Poller
  <2>6. StillToOffer' = {c \in Subscribed : info[c].type = t}
    BY <2>2, <2>4, MapIsSubscribers
  <2>7. Promised!Start(t)
    BY <1>1, <2>5, <2>6 DEF Promised!Start
  <2> QED
    BY <2>2, <2>7 DEF Promised!Next
<1>4. CASE Invoke \/ Return \/ NotifyEnds
  <2> DEFINE Left(k) == {Order[i] : i \in k..Len(Order)}
  <2>1. /\ phase \in {"dispatch", "running"} /\ processing' = processing
        /\ Len(Order) \in Nat /\ at \in Nat \ {0}
    BY <1>4, InWalk DEF Invoke, Return, NotifyEnds, typeVars
  <2>2. CASE Invoke
    <3>1. /\ phase = "dispatch" /\ at <= Len(Order)
          /\ \/ phase' = "running" /\ at' = at /\ round' = round
             \/ phase' = "dispatch" /\ at' = at + 1 /\ round' = round
      BY <2>2 DEF Invoke, NextCallback
    <3>2. Order' = Order
      BY <2>1, <3>1 DEF Order
    <3>3. StillToOffer = Left(at) /\ StillToOffer' = Left(at + 1)
      BY <3>1, <3>2 DEF StillToOffer
    <3>4. Poller = "offering" /\ Poller' \in {"offering", "running"}
      BY <3>1 DEF Poller
    <3>5. /\ Order[at] \in Left(at)
          /\ \A d \in Left(at) \ {Order[at]} : Earlier(Order[at], d)
          /\ Left(at) \ {Order[at]} = Left(at + 1)
      BY <3>1, WalkGoesOn
    <3> HIDE DEF Left
    <3>6. Promised!Offer(Order[at])
      BY <1>1, <3>3, <3>4, <3>5 DEF Promised!Offer, Promised!Before, Earlier
    <3> QED
      BY <3>3, <3>5, <3>6 DEF Promised!Next
  <2>3. CASE Return /\ NextCallback
    <3>1. phase = "running" /\ phase' = "dispatch" /\ at' = at + 1 /\ Order' = Order
      BY <2>1, <2>3 DEF Return, NextCallback, Order
    <3>2. StillToOffer' = StillToOffer /\ Poller = "running" /\ Poller' = "offering"
      BY <3>1 DEF StillToOffer, Poller
    <3> QED
      BY <1>1, <3>2 DEF Promised!Next, Promised!PassOn
  <2>4. CASE Return /\ FinishEvent
    <3>1. phase = "running" /\ phase' = "next"
      BY <2>4 DEF Return, FinishEvent
    <3>2. StillToOffer' = {} /\ Poller = "running" /\ Poller' = "idle"
      BY <3>1 DEF StillToOffer, Poller
    <3> QED
      BY <1>1, <3>2 DEF Promised!Next, Promised!Consume
  <2>5. CASE NotifyEnds
    <3>1. phase = "dispatch" /\ at > Len(Order) /\ phase' = "next"
      BY <2>5 DEF NotifyEnds, FinishEvent
    <3>2. at..Len(Order) = {}
      BY <2>1, <3>1
    <3>3. StillToOffer = {} /\ StillToOffer' = {} /\ Poller = "offering" /\ Poller' = "idle"
      BY <3>1, <3>2 DEF StillToOffer, Poller
    <3> QED
      BY <1>1, <3>3 DEF Promised!Next, Promised!End
  <2> QED
    BY <1>4, <2>2, <2>3, <2>4, <2>5 DEF Return
<1> QED
  BY <1>2, <1>3, <1>4 DEF PollStep

(***************************************************************************)
(* Event<T> keeps its promise, for any types, listeners, priorities and    *)
(* number of callbacks, whoever subscribes, unsubscribes or is destroyed   *)
(* during a walk: every event is offered to exactly those subscribed when  *)
(* its dispatch began, by priority and then by age, until one consumes it. *)
(***************************************************************************)
THEOREM EventsImplementDispatch == Spec => ImplementsDispatch
<1>1. Init => Promised!Init
  BY DEF Init, Promised!Init, Subscribed, StillToOffer, Poller
<1>2. DispatchInv /\ AtRest /\ [Next]_vars => [Promised!Next]_(Promised!dispatchVars)
  <2> SUFFICES ASSUME DispatchInv, AtRest, [Next]_vars
               PROVE  Promised!Next \/ UNCHANGED <<info, Subscribed, StillToOffer, Poller>>
    BY DEF Promised!dispatchVars
  <2>1. CASE PollStep
    BY <2>1, PollerDispatches
  <2>2. CASE ~PollStep
    <3>1. UNCHANGED <<processing, round, phase, at>>
      BY <2>2 DEF Next, Subscribe, UnsubscribeName, DestroyListener, SetEnabled,
                  Unsubscribe, Send, vars, typeVars, pollVars
    <3>2. UNCHANGED <<StillToOffer, Poller>>
      BY <3>1 DEF StillToOffer, Poller, Order
    <3>3. CASE \E l \in Listeners, t \in Types, n \in Names, p \in Priorities :
                 Subscribe(l, t, n, p)
      <4>1. PICK l \in Listeners, t \in Types, n \in Names, p \in Priorities :
              Subscribe(l, t, n, p)
        BY <3>3
      <4>2. Subscribed' = Subscribed \cup {Len(info) + 1}
        BY <4>1, SubscribeKeepsInv
      <4>3. info' = Append(info, Handle(t, l, n, p))
        BY <4>1 DEF Subscribe, Insert
      <4>4. Handle(t, l, n, p) \in Information
        BY DEF Handle, Information
      <4>5. Promised!Subscribe(Handle(t, l, n, p))
        BY <3>2, <4>2, <4>3 DEF Promised!Subscribe
      <4> QED
        BY <4>4, <4>5 DEF Promised!Next
    <3>4. CASE \E c \in Made : Unsubscribe(c)
      <4>1. PICK c \in Made : Unsubscribe(c)
        BY <3>4
      <4>2. Subscribed' = Subscribed \ {c} /\ c \in Subscribed /\ info' = info
        BY <4>1, UnsubscribeKeepsInv DEF Unsubscribe
      <4>3. Promised!Unsubscribe(c)
        BY <3>2, <4>2 DEF Promised!Unsubscribe
      <4> QED
        BY <4>2, <4>3 DEF Promised!Next
    <3>5. CASE UNCHANGED <<callbacks, info>>
      BY <3>2, <3>5 DEF Subscribed
    <3> QED
      BY <2>2, <3>3, <3>4, <3>5
         DEF Next, UnsubscribeName, DestroyListener, SetEnabled, Send, vars, typeVars
  <2> QED
    BY <2>1, <2>2
<1> QED
  BY <1>1, <1>2, DispatchInvariant, StartsAtRest, PTL
     DEF Spec, ImplementsDispatch, Promised!Spec
=============================================================================

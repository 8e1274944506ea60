-------------------------- MODULE KenzoViewProofs --------------------------
(***************************************************************************)
(* Theorems about the log view of Kenzo, for any logs, filters and         *)
(* searches.  The rows and the matches are collected by a recursive        *)
(* function, about which is shown first what it returns.                   *)
(***************************************************************************)
EXTENDS KenzoView, SequenceTheorems, FiniteSetTheorems, WellFoundedInduction, TLAPS

(***************************************************************************)
(* Every set of natural numbers that has a member has a least one.         *)
(***************************************************************************)
LEMMA LeastNumber ==
  ASSUME NEW T, T \subseteq Nat, T # {}
  PROVE  \E n \in T : \A m \in T : n <= m
<1> DEFINE R == OpToRel(<, Nat)
<1>1. IsWellFoundedOn(R, Nat)
  BY NatLessThanWellFounded, Zenon
<1>2. \A x, y : <<x, y>> \in R <=> x \in Nat /\ y \in Nat /\ x < y
  BY DEF OpToRel
<1> HIDE DEF R
<1>3. PICK x \in T : \A y \in T : ~ (<<y, x>> \in R)
  BY <1>1, WFMin
<1>4. ASSUME NEW m \in T PROVE x <= m
  <2>1. x \in Nat /\ m \in Nat
    OBVIOUS
  <2>2. ~ (m < x)
    BY <1>2, <1>3, <2>1
  <2> QED
    BY <2>1, <2>2
<1> QED
  BY <1>4

(***************************************************************************)
(* Induction over the natural numbers, for a set instead of a predicate.   *)
(***************************************************************************)
LEMMA Induction ==
  ASSUME NEW S, 0 \in S, \A n \in Nat : n \in S => n + 1 \in S
  PROVE  \A n \in Nat : n \in S
<1> SUFFICES ASSUME NEW k \in Nat, k \notin S PROVE FALSE
  OBVIOUS
<1> DEFINE T == {n \in Nat : n \notin S}
<1>1. PICK n \in T : \A m \in T : n <= m
  <2>1. T \subseteq Nat /\ T # {}
    OBVIOUS
  <2> HIDE DEF T
  <2> QED
    BY <2>1, LeastNumber
<1>2. n \in Nat /\ n # 0
  OBVIOUS
<1>3. n - 1 \in Nat /\ n - 1 \in S
  <2>1. n - 1 \in Nat /\ n - 1 < n
    BY <1>2
  <2> QED
    BY <2>1, <1>1
<1>4. n - 1 + 1 = n
  BY <1>2
<1> QED
  BY <1>3, <1>4

-----------------------------------------------------------------------------
(* What Collect returns *)

\* One turn of the pass: f is what was collected up to each index.
Turn(T, f, k) == IF k = 0 THEN <<>>
                 ELSE IF k - 1 \in T THEN Append(f[k - 1], k - 1) ELSE f[k - 1]

LEMMA TurnsExist ==
  ASSUME NEW n \in Nat, NEW T
  PROVE  \E f : f = [k \in 0..n |-> Turn(T, f, k)]
<1> DEFINE S == {m \in Nat : \E f : f = [k \in 0..m |-> Turn(T, f, k)]}
<1>1. 0 \in S
  <2> DEFINE f == [k \in 0..0 |-> <<>>]
  <2>1. \A k \in 0..0 : Turn(T, f, k) = <<>>
    BY DEF Turn
  <2>2. f = [k \in 0..0 |-> Turn(T, f, k)]
    BY <2>1
  <2> QED
    BY <2>2
<1>2. ASSUME NEW m \in Nat, m \in S PROVE m + 1 \in S
  <2>1. PICK f : f = [k \in 0..m |-> Turn(T, f, k)]
    BY <1>2
  <2> DEFINE g == [k \in 0..(m + 1) |-> IF k <= m THEN f[k] ELSE Turn(T, f, k)]
  <2>2. ASSUME NEW k \in 0..(m + 1) PROVE g[k] = Turn(T, g, k)
    <3>1. k # 0 => k - 1 \in 0..m /\ g[k - 1] = f[k - 1]
      OBVIOUS
    <3>2. Turn(T, g, k) = Turn(T, f, k)
      BY <3>1 DEF Turn
    <3>3. k <= m => f[k] = Turn(T, f, k)
      <4> SUFFICES ASSUME k <= m PROVE f[k] = Turn(T, f, k)
        OBVIOUS
      <4>1. k \in 0..m
        OBVIOUS
      <4> QED
        BY <2>1, <4>1
    <3> QED
      BY <3>2, <3>3
  <2>3. g = [k \in 0..(m + 1) |-> Turn(T, g, k)]
    BY <2>2
  <2> HIDE DEF g
  <2>4. \E h : h = [k \in 0..(m + 1) |-> Turn(T, h, k)]
    BY <2>3, Zenon
  <2> QED
    BY <2>4
<1> HIDE DEF S
<1>3. n \in S
  BY <1>1, <1>2, Induction
<1> QED
  BY <1>3 DEF S

LEMMA CollectUnfolds ==
  ASSUME NEW n \in Nat, NEW T
  PROVE  \E f : /\ Collect(n, T) = f[n]
                /\ f[0] = <<>>
                /\ \A k \in 1..n : f[k] = IF k - 1 \in T
                                          THEN Append(f[k - 1], k - 1) ELSE f[k - 1]
<1> DEFINE f == CHOOSE f : f = [k \in 0..n |-> Turn(T, f, k)]
<1>1. f = [k \in 0..n |-> Turn(T, f, k)]
  BY TurnsExist
<1>2. Collect(n, T) = f[n]
  BY DEF Collect, Turn
<1> HIDE DEF f
<1>3. f[0] = <<>>
  BY <1>1 DEF Turn
<1>4. ASSUME NEW k \in 1..n
      PROVE  f[k] = IF k - 1 \in T THEN Append(f[k - 1], k - 1) ELSE f[k - 1]
  <2>1. k \in 0..n /\ k # 0
    OBVIOUS
  <2>2. f[k] = Turn(T, f, k)
    BY <1>1, <2>1
  <2> QED
    BY <2>1, <2>2 DEF Turn
<1> QED
  BY <1>2, <1>3, <1>4

\* c is the members of T below n, each once and in order.
Collected(c, n, T) ==
  /\ c \in Seq(Nat)
  /\ \A i \in 1..Len(c) : c[i] < n /\ c[i] \in T
  /\ \A i, j \in 1..Len(c) : i < j => c[i] < c[j]
  /\ \A m \in 0..(n - 1) : m \in T => \E i \in 1..Len(c) : c[i] = m

LEMMA CollectedAppend ==
  ASSUME NEW k \in Nat, NEW T, NEW c, Collected(c, k, T), k \in T
  PROVE  Collected(Append(c, k), k + 1, T)
<1> DEFINE d == Append(c, k)
<1>1. /\ c \in Seq(Nat) /\ Len(c) \in Nat
      /\ \A i \in 1..Len(c) : c[i] \in Nat /\ c[i] < k /\ c[i] \in T
      /\ \A i, j \in 1..Len(c) : i < j => c[i] < c[j]
      /\ \A m \in 0..(k - 1) : m \in T => \E i \in 1..Len(c) : c[i] = m
  BY ElementOfSeq, LenProperties DEF Collected
<1>2. /\ d \in Seq(Nat)
      /\ Len(d) = Len(c) + 1
      /\ \A i \in 1..Len(c) : d[i] = c[i]
      /\ d[Len(c) + 1] = k
  BY <1>1, AppendProperties
<1> DEFINE l == Len(c)
<1> HIDE DEF d, l
<1>3. \A i \in 1..(l + 1) : i \in 1..l \/ i = l + 1
  BY <1>1 DEF l
<1>4. \A i \in 1..(l + 1) : d[i] < k + 1 /\ d[i] \in T
  BY <1>1, <1>2, <1>3 DEF l
<1>5. \A i, j \in 1..(l + 1) : i < j => d[i] < d[j]
  <2> SUFFICES ASSUME NEW i \in 1..(l + 1), NEW j \in 1..(l + 1), i < j
               PROVE  d[i] < d[j]
    OBVIOUS
  <2>1. l \in Nat
    BY <1>1 DEF l
  <2>2. i \in 1..l
    BY <2>1
  <2> QED
    BY <1>1, <1>2, <1>3, <2>2 DEF l
<1>6. \A m \in 0..k : m \in T => \E i \in 1..(l + 1) : d[i] = m
  <2> SUFFICES ASSUME NEW m \in 0..k, m \in T PROVE \E i \in 1..(l + 1) : d[i] = m
    OBVIOUS
  <2>0. l \in Nat
    BY <1>1 DEF l
  <2>1. CASE m = k
    BY <1>2, <2>1, <2>0 DEF l
  <2>2. CASE m # k
    <3>1. m \in 0..(k - 1)
      BY <2>2
    <3>2. PICK i \in 1..l : c[i] = m
      BY <1>1, <3>1 DEF l
    <3> QED
      BY <1>2, <3>2, <2>0 DEF l
  <2> QED
    BY <2>1, <2>2
<1>7. Len(d) = l + 1 /\ (k + 1) - 1 = k
  BY <1>2 DEF l
<1>8. Collected(d, k + 1, T)
  BY <1>2, <1>4, <1>5, <1>6, <1>7 DEF Collected
<1> QED
  BY <1>8 DEF d

LEMMA CollectedSkip ==
  ASSUME NEW k \in Nat, NEW T, NEW c, Collected(c, k, T), k \notin T
  PROVE  Collected(c, k + 1, T)
<1>1. \A i \in 1..Len(c) : c[i] \in Nat
  BY ElementOfSeq DEF Collected
<1>2. \A i \in 1..Len(c) : c[i] < k + 1
  BY <1>1 DEF Collected
<1>3. \A m \in 0..((k + 1) - 1) : m \in T => m \in 0..(k - 1)
  OBVIOUS
<1> QED
  BY <1>2, <1>3 DEF Collected

(***************************************************************************)
(* Collect returns the members of T below n, each of them once and in      *)
(* order.                                                                  *)
(***************************************************************************)
THEOREM CollectCollects ==
  ASSUME NEW n \in Nat, NEW T
  PROVE  Collected(Collect(n, T), n, T)
<1>1. PICK f : /\ Collect(n, T) = f[n]
               /\ f[0] = <<>>
               /\ \A k \in 1..n : f[k] = IF k - 1 \in T
                                         THEN Append(f[k - 1], k - 1) ELSE f[k - 1]
  BY CollectUnfolds
<1> DEFINE S == {k \in Nat : k <= n => Collected(f[k], k, T)}
<1>2. 0 \in S
  <2>1. <<>> \in Seq(Nat) /\ Len(<<>>) = 0
    BY EmptySeq
  <2>2. Collected(<<>>, 0, T)
    BY <2>1 DEF Collected
  <2> QED
    BY <1>1, <2>2
<1>3. ASSUME NEW k \in Nat, k \in S PROVE k + 1 \in S
  <2> SUFFICES ASSUME k + 1 <= n PROVE Collected(f[k + 1], k + 1, T)
    OBVIOUS
  <2>1. Collected(f[k], k, T)
    BY <1>3
  <2>2. k + 1 \in 1..n /\ (k + 1) - 1 = k
    OBVIOUS
  <2>3. f[k + 1] = IF k \in T THEN Append(f[k], k) ELSE f[k]
    BY <1>1, <2>2
  <2> QED
    BY <2>1, <2>3, CollectedAppend, CollectedSkip
<1> HIDE DEF S
<1>4. n \in S
  BY <1>2, <1>3, Induction
<1> QED
  BY <1>1, <1>4 DEF S

-----------------------------------------------------------------------------
(* Types *)

LEMMA CollectLists ==
  ASSUME NEW n \in Nat, NEW T \in SUBSET (0..n - 1)
  PROVE  Collect(n, T) \in Seq(Nat) /\ Lists(Collect(n, T), T)
<1> DEFINE c == Collect(n, T)
<1>1. Collected(c, n, T)
  BY CollectCollects
<1> HIDE DEF c
<1>2. c \in Seq(Nat) /\ DOMAIN c = 1..Len(c)
  BY <1>1, LenProperties DEF Collected
<1>3. ToSet(c) = T
  BY <1>1, <1>2 DEF Collected, ToSet
<1>4. Lists(c, T)
  BY <1>1, <1>3 DEF Lists, Collected
<1> QED
  BY <1>2, <1>4 DEF c

LEMMA QueriesAreSeqs == Queries \subseteq Seq(Chars) /\ <<>> \in Queries
<1>1. Queries \subseteq Seq(Chars)
  BY SeqDef, ViewAssumption DEF Queries, SeqOf
<1>2. <<>> \in [1..0 -> Chars]
  OBVIOUS
<1>3. 0 \in 0..QueryLimit
  BY ViewAssumption
<1>4. <<>> \in Queries
  BY <1>2, <1>3 DEF Queries, SeqOf
<1> QED
  BY <1>1, <1>4

LEMMA QueryOfLength ==
  ASSUME NEW q \in Seq(Chars)
  PROVE  q \in Queries <=> Len(q) <= QueryLimit
<1>1. Len(q) \in Nat /\ q \in [1..Len(q) -> Chars]
  BY LenProperties
<1>2. ASSUME Len(q) <= QueryLimit PROVE q \in Queries
  <2>1. Len(q) \in 0..QueryLimit
    BY <1>1, <1>2, ViewAssumption
  <2> QED
    BY <1>1, <2>1 DEF Queries, SeqOf
<1>3. ASSUME q \in Queries PROVE Len(q) <= QueryLimit
  <2>1. PICK m \in 0..QueryLimit : q \in [1..m -> Chars]
    BY <1>3 DEF Queries, SeqOf
  <2>2. Len(q) = m
    BY <2>1, <1>1, ViewAssumption
  <2> QED
    BY <2>1, <2>2, ViewAssumption
<1> QED
  BY <1>2, <1>3

LEMMA QueryGrows ==
  ASSUME NEW q \in Queries, NEW c \in Chars, Len(q) < QueryLimit
  PROVE  Append(q, c) \in Queries
<1>1. q \in Seq(Chars)
  BY QueriesAreSeqs
<1>2. /\ Append(q, c) \in Seq(Chars)
      /\ Len(Append(q, c)) = Len(q) + 1
      /\ Len(q) \in Nat
  BY <1>1, AppendProperties, LenProperties
<1>3. Len(Append(q, c)) <= QueryLimit
  BY <1>2, ViewAssumption
<1> QED
  BY <1>2, <1>3, QueryOfLength

LEMMA QueryShrinks ==
  ASSUME NEW q \in Queries, q # <<>>
  PROVE  Front(q) \in Queries
<1>1. q \in Seq(Chars) /\ Len(q) <= QueryLimit
  BY QueriesAreSeqs, QueryOfLength
<1>2. Len(q) \in Nat /\ Len(q) # 0
  BY <1>1, EmptySeq
<1> DEFINE n == Len(q) - 1
<1>3. n \in Nat /\ 1 \in Int /\ n \in Int /\ n <= QueryLimit /\ (1 <= n => n - 1 + 1 = n)
  BY <1>1, <1>2, ViewAssumption
<1>4. \A i \in 1..n : q[i] \in Chars
  BY <1>1, <1>2, ElementOfSeq
<1> HIDE DEF n
<1>5. /\ SubSeq(q, 1, n) \in Seq(Chars)
      /\ Len(SubSeq(q, 1, n)) = IF 1 <= n THEN n - 1 + 1 ELSE 0
  BY <1>3, <1>4, SubSeqProperties
<1>6. Len(SubSeq(q, 1, n)) <= QueryLimit
  BY <1>3, <1>5, ViewAssumption
<1> QED
  BY <1>5, <1>6, QueryOfLength DEF Front, n

-----------------------------------------------------------------------------
(* The invariant *)

\* Cardinality counts the entries of the filters only if they are finitely many.
SeenIsFinite == \A d \in Dims : IsFiniteSet(seen[d])

ViewInv == TypeOK /\ SeenIsFinite /\ ViewCoherent /\ FollowsLatest

LEMMA BatchesAreSeqs == Batches \subseteq Seq(Logs) /\ \A b \in Batches : IsFiniteSet(DOMAIN b)
<1>1. ASSUME NEW b \in Batches PROVE b \in Seq(Logs) /\ IsFiniteSet(DOMAIN b)
  <2>1. PICK m \in 0..LogLimit : b \in [1..m -> Logs]
    BY DEF Batches, SeqOf
  <2>2. m \in Nat
    BY ViewAssumption
  <2>3. b \in Seq(Logs)
    BY <2>1, <2>2, SeqDef
  <2>4. DOMAIN b = 1..m /\ IsFiniteSet(1..m)
    BY <2>1, <2>2, FS_Interval
  <2> QED
    BY <2>3, <2>4
<1> QED
  BY <1>1

LEMMA ViewInit == Init => ViewInv
<1> SUFFICES ASSUME Init PROVE ViewInv
  OBVIOUS
<1>1. TypeOK
  BY QueriesAreSeqs, EmptySeq DEF Init, TypeOK, Index, Focuses
<1>2. SeenIsFinite
  BY FS_EmptySet DEF Init, SeenIsFinite
<1>3. ViewCoherent
  <2>1. Len(<<>>) = 0 /\ ToSet(<<>>) = {}
    BY EmptySeq DEF ToSet
  <2>2. Passing(<<>>, excluded) = {} /\ Matching(<<>>, <<>>, <<>>) = {}
    BY <2>1 DEF Passing, Matching
  <2>3. Lists(<<>>, {})
    BY <2>1 DEF Lists
  <2>4. /\ logs = <<>> /\ filtered_logs = <<>> /\ search_matches = <<>>
        /\ search_query = <<>> /\ current_match_idx = None
    BY DEF Init
  <2>5. /\ Lists(filtered_logs, Passing(logs, excluded))
        /\ Lists(search_matches, Matching(logs, filtered_logs, search_query))
    BY <2>2, <2>3, <2>4
  <2> QED
    BY <2>4, <2>5 DEF ViewCoherent
<1>4. FollowsLatest
  BY DEF Init, FollowsLatest
<1> QED
  BY <1>1, <1>2, <1>3, <1>4 DEF ViewInv

(***************************************************************************)
(* What update_filtered_logs computes, and jump_to_latest with it.         *)
(***************************************************************************)
LEMMA RefreshLists ==
  ASSUME TypeOK, Refresh, logs' \in Seq(Logs)
  PROVE  /\ filtered_logs' \in Seq(Nat) /\ search_matches' \in Seq(Nat)
         /\ current_match_idx' \in Index /\ selected' \in Index
         /\ Lists(filtered_logs', Passing(logs', excluded'))
         /\ Lists(search_matches', Matching(logs', filtered_logs', search_query'))
<1>1. Len(logs') \in Nat
  BY LenProperties
<1>2. /\ filtered_logs' \in Seq(Nat)
      /\ Lists(filtered_logs', Passing(logs', excluded'))
  <2>1. Passing(logs', excluded') \in SUBSET (0..Len(logs') - 1)
    BY DEF Passing
  <2> QED
    BY <1>1, <2>1, CollectLists DEF Refresh
<1>3. Len(filtered_logs') \in Nat
  BY <1>2, LenProperties
<1>4. /\ search_matches' \in Seq(Nat)
      /\ Lists(search_matches', Matching(logs', filtered_logs', search_query'))
  <2>1. Matching(logs', filtered_logs', search_query') \in SUBSET (0..Len(filtered_logs') - 1)
    BY DEF Matching
  <2> QED
    BY <1>3, <2>1, CollectLists DEF Refresh
<1>5. current_match_idx' \in Index
  BY DEF Refresh, TypeOK, Index
<1>6. filtered_logs' # <<>> => Len(filtered_logs') # 0
  BY <1>2, EmptySeq
<1>7. selected' \in Index
  BY <1>3, <1>6 DEF Refresh, Latest, TypeOK, Index
<1> QED
  BY <1>2, <1>4, <1>5, <1>7

LEMMA RefreshCoheres ==
  ASSUME Refresh, TypeOK, TypeOK', panicked' = panicked
  PROVE  ViewCoherent'
<1>1. logs' \in Seq(Logs)
  BY DEF TypeOK
<1>2. /\ Lists(filtered_logs', Passing(logs', excluded'))
      /\ Lists(search_matches', Matching(logs', filtered_logs', search_query'))
  BY <1>1, RefreshLists
<1>3. current_match_idx' = None <=> search_matches' = <<>>
  BY ViewAssumption DEF Refresh
<1> QED
  BY <1>2, <1>3 DEF ViewCoherent

LEMMA RefreshFollows ==
  ASSUME Refresh, scroll_locked' = scroll_locked
  PROVE  FollowsLatest'
  BY DEF Refresh, Latest, FollowsLatest

\* The logs that arrive are of the kinds that Logs has.
LEMMA ProcessTypes ==
  ASSUME TypeOK, NEW ls \in Seq(Logs), NEW b \in Batches, Process(ls, b),
         phase' \in {"draw", "receive", "key"}, visible' \in BOOLEAN
  PROVE  TypeOK'
<1>1. b \in Seq(Logs)
  BY BatchesAreSeqs
<1>2. logs' \in Seq(Logs)
  BY <1>1, ConcatProperties DEF Process
<1>3. \A i \in DOMAIN b, d \in Dims : b[i][d] \in Nat
  <2>1. \A i \in DOMAIN b : b[i] \in Logs
    BY <1>1, LenProperties, ElementOfSeq
  <2> QED
    BY <2>1, ViewAssumption
<1>4. seen' \in [Dims -> SUBSET Nat]
  BY <1>3 DEF Process, TypeOK
<1>5. /\ filtered_logs' \in Seq(Nat) /\ search_matches' \in Seq(Nat)
      /\ current_match_idx' \in Index /\ selected' \in Index
  BY <1>2, RefreshLists DEF Process
<1> QED
  BY <1>2, <1>4, <1>5 DEF Process, TypeOK

\* A change of the search is followed by a refresh.
LEMMA SetQueryTypes ==
  ASSUME TypeOK, NEW q \in Queries, SetQuery(q), phase' = "draw",
         visible' = visible, focus' \in Focuses, panicked' = panicked
  PROVE  TypeOK'
<1>1. logs' \in Seq(Logs)
  BY DEF SetQuery, TypeOK
<1>2. /\ filtered_logs' \in Seq(Nat) /\ search_matches' \in Seq(Nat)
      /\ current_match_idx' \in Index /\ selected' \in Index
  BY <1>1, RefreshLists DEF SetQuery
<1> QED
  BY <1>1, <1>2 DEF SetQuery, TypeOK

LEMMA ToggleTypes ==
  ASSUME TypeOK, NEW d \in Dims, NEW v \in Nat, Toggle(d, v), phase' = "draw",
         visible' = visible, panicked' = panicked
  PROVE  TypeOK'
<1>1. logs' \in Seq(Logs)
  BY DEF Toggle, TypeOK
<1>2. /\ filtered_logs' \in Seq(Nat) /\ search_matches' \in Seq(Nat)
      /\ current_match_idx' \in Index /\ selected' \in Index
  BY <1>1, RefreshLists DEF Toggle
<1>3. excluded' \in [Dims -> SUBSET Nat]
  BY DEF Toggle, TypeOK, SymDiff
<1> QED
  BY <1>1, <1>2, <1>3 DEF Toggle, TypeOK

LEMMA BelowAndAbove ==
  ASSUME NEW i \in Index, NEW n \in Nat
  PROVE  Below(i, n) \in Nat /\ Above(i) \in Nat /\ Clamp(i, n) \in Index
  BY DEF Below, Above, Clamp, Index

LEMMA MoveCursorTypes ==
  ASSUME TypeOK, NEW d \in Dims, NEW i \in Nat, MoveCursor(d, i)
  PROVE  cursor' \in [Dims -> Index]
  BY DEF MoveCursor, TypeOK, Index

LEMMA GoToMatchTypes ==
  ASSUME TypeOK, NEW i \in Nat, GoToMatch(i), phase' = "draw", visible' = visible
  PROVE  TypeOK'
<1>1. i < Len(search_matches) => search_matches[i + 1] \in Nat
  <2>1. Len(search_matches) \in Nat
    BY LenProperties DEF TypeOK
  <2>2. i < Len(search_matches) => i + 1 \in 1..Len(search_matches)
    BY <2>1
  <2> QED
    BY <2>2, ElementOfSeq DEF TypeOK
<1>2. selected' \in Index /\ current_match_idx' \in Index
  BY <1>1 DEF GoToMatch, TypeOK, Index
<1>3. panicked' \in BOOLEAN
  BY DEF GoToMatch, TypeOK
<1> QED
  BY <1>2, <1>3 DEF GoToMatch, TypeOK, filterVars

LEMMA SeenIsCounted ==
  ASSUME SeenIsFinite, NEW d \in Dims
  PROVE  Cardinality(seen[d]) \in Nat
  BY FS_CardinalityType DEF SeenIsFinite

LEMMA ViewTypesStep == ViewInv /\ [Next]_vars => TypeOK'
<1> SUFFICES ASSUME TypeOK, SeenIsFinite, [Next]_vars PROVE TypeOK'
  BY DEF ViewInv
<1>0. /\ Len(filtered_logs) \in Nat
      /\ \A d \in Dims : Cardinality(seen[d]) \in Nat
      /\ selected \in Index
      /\ \A d \in Dims : cursor[d] \in Index
  BY SeenIsCounted, LenProperties DEF TypeOK
<1>1. CASE Draw
  <2>1. selected' \in Index
    BY <1>0, <1>1, BelowAndAbove DEF Draw, DrawTable
  <2>2. cursor' \in [Dims -> Index]
    <3>1. [d \in Dims |-> Clamp(cursor[d], Cardinality(seen[d]))] \in [Dims -> Index]
      BY <1>0, BelowAndAbove
    <3> QED
      BY <1>1, <3>1 DEF Draw, DrawFilters, TypeOK
  <2> QED
    BY <1>1, <2>1, <2>2 DEF Draw, TypeOK, listVars
<1>2. CASE Receive
  <2>1. CASE /\ UNCHANGED <<visible, listVars, filterVars, search_query, scroll_locked,
                            selected, focus, panicked>>
             /\ phase' = "key"
    BY <2>1 DEF TypeOK, listVars, filterVars
  <2>2. ASSUME NEW b \in Batches, Process(logs, b), visible' \in {visible, TRUE},
               phase' = "key"
        PROVE  TypeOK'
    <3>1. visible' \in BOOLEAN
      BY <2>2, Zenon DEF TypeOK
    <3> QED
      BY <2>2, <3>1, ProcessTypes DEF TypeOK
  <2> QED
    BY <1>2, <2>1, <2>2 DEF Receive
<1>3. CASE LoadCsv
  <2>1. <<>> \in Seq(Logs)
    BY EmptySeq
  <2>2. PICK b \in Batches : Process(<<>>, b)
    BY <1>3 DEF LoadCsv
  <2>3. phase' = "draw" /\ visible' = TRUE
    BY <1>3 DEF LoadCsv
  <2> QED
    BY <2>1, <2>2, <2>3, ProcessTypes
<1>4. CASE SessionChanges
  BY <1>4 DEF SessionChanges, TypeOK, listVars, filterVars
<1>5. ASSUME NEW f \in Focuses, SwitchFocus(f) PROVE TypeOK'
  <2>1. cursor' \in [Dims -> Index]
    <3>1. CASE UNCHANGED cursor
      BY <3>1 DEF TypeOK
    <3>2. CASE f = "sink" /\ MoveCursor(f, Below(cursor[f], Cardinality(seen[f])))
      BY <1>0, <3>2, BelowAndAbove, MoveCursorTypes DEF Dims
    <3>3. CASE f = "severity" /\ MoveCursor(f, Above(cursor[f]))
      <4>1. f \in Dims /\ cursor[f] \in Index /\ 0 \in Nat
        BY <1>0, <3>3 DEF Dims
      <4> QED
        BY <3>3, <4>1, BelowAndAbove, MoveCursorTypes
    <3> QED
      BY <1>5, <3>1, <3>2, <3>3 DEF SwitchFocus
  <2>2. show_filters' \in BOOLEAN
    BY <1>5, Zenon DEF SwitchFocus, TypeOK
  <2> QED
    BY <1>5, <2>1, <2>2 DEF SwitchFocus, Pressed, TypeOK, listVars
<1>6. ASSUME NEW c \in Chars, TypeChar(c) PROVE TypeOK'
  <2>1. Append(search_query, c) \in Queries
    BY <1>6, QueryGrows DEF TypeChar, TypeOK
  <2>2. /\ SetQuery(Append(search_query, c)) /\ phase' = "draw"
        /\ visible' = visible /\ focus' \in Focuses /\ panicked' = panicked
    BY <1>6 DEF TypeChar, Searching, Key, Pressed, TypeOK
  <2> QED
    BY <2>1, <2>2, SetQueryTypes
<1>7. CASE Backspace
  <2> DEFINE q == IF search_query = <<>> THEN <<>> ELSE Front(search_query)
  <2>1. q \in Queries
    BY QueryShrinks, QueriesAreSeqs DEF TypeOK
  <2>2. /\ SetQuery(q) /\ phase' = "draw"
        /\ visible' = visible /\ focus' \in Focuses /\ panicked' = panicked
    BY <1>7 DEF Backspace, Searching, Key, Pressed, TypeOK
  <2> HIDE DEF q
  <2> QED
    BY <2>1, <2>2, SetQueryTypes
<1>8. CASE Escape
  <2>1. /\ phase' = "draw" /\ visible' = visible /\ panicked' = panicked
        /\ focus' \in Focuses
    BY <1>8 DEF Escape, Key, Pressed, TypeOK, Focuses
  <2>2. CASE SetQuery(<<>>)
    BY <2>1, <2>2, QueriesAreSeqs, SetQueryTypes
  <2>3. CASE UNCHANGED <<listVars, filterVars, search_query, scroll_locked, selected>>
    BY <2>1, <2>3 DEF TypeOK, listVars, filterVars
  <2> QED
    BY <1>8, <2>2, <2>3 DEF Escape
<1>9. CASE EnterOrSlash
  BY <1>9 DEF EnterOrSlash, Key, Pressed, TypeOK, listVars, filterVars, Focuses
<1>10. CASE Quit
  BY <1>10 DEF Quit, Pressed, TypeOK, listVars, filterVars
<1>11. CASE NoKey
  BY <1>11 DEF NoKey, Pressed, TypeOK, listVars, filterVars
<1>12. CASE ToggleFilters
  BY <1>12 DEF ToggleFilters, Browsing, Key, Pressed, TypeOK, listVars, Focuses
<1>13. CASE ToggleScroll
  <2>1. Latest(filtered_logs) \in Index
    <3>1. filtered_logs # <<>> => Len(filtered_logs) # 0
      BY EmptySeq DEF TypeOK
    <3> QED
      BY <1>0, <3>1 DEF Latest, Index
  <2> QED
    BY <1>0, <1>13, <2>1 DEF ToggleScroll, Browsing, Key, Pressed, TypeOK, listVars, filterVars
<1>14. CASE Move
  <2>1. selected' \in Index /\ scroll_locked' \in BOOLEAN
    <3>1. {Below(selected, Len(filtered_logs)), Above(selected)} \subseteq Index
      BY <1>0, BelowAndAbove DEF Index
    <3> QED
      BY <1>0, <1>14, <3>1 DEF Move, TypeOK
  <2>2. cursor' \in [Dims -> Index]
    <3>1. CASE focus = "Table"
      BY <1>14, <3>1 DEF Move, TypeOK
    <3>2. CASE focus # "Table"
      <4>1. focus \in Dims
        BY <1>14, <3>2 DEF Move, Browsing, TypeOK, Focuses, Dims
      <4>2. /\ Below(cursor[focus], Cardinality(seen[focus])) \in Nat
            /\ Above(cursor[focus]) \in Nat
        BY <1>0, <4>1, BelowAndAbove
      <4> QED
        BY <1>14, <3>2, <4>1, <4>2, MoveCursorTypes DEF Move
    <3> QED
      BY <3>1, <3>2
  <2> QED
    BY <1>14, <2>1, <2>2 DEF Move, Browsing, Key, Pressed, TypeOK, listVars
<1>15. ASSUME NEW sev \in SeverityKeys, ToggleSeverity(sev) PROVE TypeOK'
  <2>1. sev \in Nat /\ "severity" \in Dims
    BY ViewAssumption DEF Dims
  <2>2. /\ Toggle("severity", sev) /\ phase' = "draw" /\ visible' = visible
        /\ panicked' = panicked
    BY <1>15 DEF ToggleSeverity, Browsing, Key, Pressed
  <2> QED
    BY <2>1, <2>2, ToggleTypes
<1>16. CASE ToggleSelection
  <2>1. PICK v \in seen[focus] : Toggle(focus, v)
    BY <1>16 DEF ToggleSelection
  <2>2. focus \in Dims /\ v \in Nat
    BY <1>16, <2>1 DEF ToggleSelection, TypeOK
  <2>3. phase' = "draw" /\ visible' = visible /\ panicked' = panicked
    BY <1>16 DEF ToggleSelection, Browsing, Key, Pressed
  <2> QED
    BY <2>1, <2>2, <2>3, ToggleTypes
<1>17. CASE NextMatch
  <2> DEFINE i == IF current_match_idx = None THEN 0
                  ELSE (current_match_idx + 1) % Len(search_matches)
  <2>1. GoToMatch(i) /\ phase' = "draw" /\ visible' = visible
    BY <1>17 DEF NextMatch
  <2>2. i \in Nat
    <3>1. Len(search_matches) \in Nat \ {0}
      BY <2>1, EmptySeq DEF GoToMatch, TypeOK
    <3> QED
      BY <3>1 DEF TypeOK, Index
  <2> HIDE DEF i
  <2> QED
    BY <2>1, <2>2, GoToMatchTypes
<1>18. CASE PrevMatch
  <2> DEFINE i == IF current_match_idx \in {None, 0} THEN Len(search_matches) - 1
                  ELSE current_match_idx - 1
  <2>1. GoToMatch(i) /\ phase' = "draw" /\ visible' = visible
    BY <1>18 DEF PrevMatch
  <2>2. i \in Nat
    <3>1. Len(search_matches) \in Nat \ {0}
      BY <2>1, EmptySeq DEF GoToMatch, TypeOK
    <3> QED
      BY <3>1 DEF TypeOK, Index
  <2> HIDE DEF i
  <2> QED
    BY <2>1, <2>2, GoToMatchTypes
<1>19. CASE UNCHANGED vars
  BY <1>19 DEF vars, listVars, filterVars, TypeOK
<1>20. CASE HighlightPanics
  BY <1>20 DEF HighlightPanics, listVars, filterVars, TypeOK
<1> QED
  BY <1>1, <1>2, <1>3, <1>4, <1>5, <1>6, <1>7, <1>8, <1>9, <1>10, <1>11, <1>12,
     <1>13, <1>14, <1>15, <1>16, <1>17, <1>18, <1>19, <1>20
  DEF Next, KeyStep, Terminated

LEMMA ViewSeenStep == ViewInv /\ [Next]_vars => SeenIsFinite'
<1> SUFFICES ASSUME SeenIsFinite, [Next]_vars PROVE SeenIsFinite'
  BY DEF ViewInv
<1>1. ASSUME NEW ls, NEW b \in Batches, Process(ls, b) PROVE SeenIsFinite'
  <2> SUFFICES ASSUME NEW d \in Dims PROVE IsFiniteSet(seen'[d])
    BY DEF SeenIsFinite
  <2> DEFINE new == {b[i][d] : i \in DOMAIN b}
             f == [i \in DOMAIN b |-> b[i][d]]
  <2>1. f \in Surjection(DOMAIN b, new)
    BY DEF Surjection
  <2>2. IsFiniteSet(DOMAIN b)
    BY BatchesAreSeqs
  <2>3. seen'[d] = seen[d] \cup new
    BY <1>1 DEF Process
  <2> HIDE DEF new, f
  <2>4. IsFiniteSet(new)
    BY <2>1, <2>2, FS_Surjection
  <2>5. IsFiniteSet(seen[d])
    BY DEF SeenIsFinite
  <2>6. IsFiniteSet(seen[d] \cup new)
    BY <2>4, <2>5, FS_Union
  <2> QED
    BY <2>3, <2>6
<1>2. CASE seen' = seen
  BY <1>2 DEF SeenIsFinite
<1>3. CASE Receive \/ LoadCsv
  BY <1>1, <1>2, <1>3 DEF Receive, LoadCsv, filterVars
<1>4. CASE Draw \/ HighlightPanics \/ SessionChanges
  BY <1>2, <1>4 DEF Draw, HighlightPanics, SessionChanges, filterVars
<1>5. CASE KeyStep
  BY <1>2, <1>5 DEF KeyStep, SwitchFocus, TypeChar, Backspace, Escape, EnterOrSlash,
     Quit, NoKey, ToggleFilters, ToggleScroll, Move, ToggleSeverity, ToggleSelection,
     NextMatch, PrevMatch, SetQuery, Toggle, GoToMatch, filterVars
<1>6. CASE UNCHANGED vars
  BY <1>2, <1>6 DEF vars, filterVars
<1> QED
  BY <1>3, <1>4, <1>5, <1>6 DEF Next, Terminated

(***************************************************************************)
(* A step leaves the lists alone, or filters and searches anew, or walks   *)
(* to a match, or ends the program while it draws.  In the first case the  *)
(* selection follows the scroll lock.                                      *)
(***************************************************************************)
ListsStay == UNCHANGED <<listVars, excluded, search_query, panicked>>

KindOfStep ==
  \/ ListsStay /\ UNCHANGED <<scroll_locked, selected>>
  \/ ListsStay /\ UNCHANGED scroll_locked /\ DrawTable
  \/ ListsStay /\ ToggleScroll
  \/ ListsStay /\ scroll_locked' = TRUE
  \/ Refresh /\ UNCHANGED <<scroll_locked, panicked>>
  \/ \E i \in Nat : GoToMatch(i)
  \/ HighlightPanics

LEMMA ViewStepKinds == ViewInv /\ [Next]_vars => KindOfStep
<1> SUFFICES ASSUME TypeOK, [Next]_vars PROVE KindOfStep
  BY DEF ViewInv
<1> USE DEF KindOfStep, ListsStay
<1>1. CASE Draw
  BY <1>1 DEF Draw, listVars
<1>2. CASE Receive \/ LoadCsv
  BY <1>2 DEF Receive, LoadCsv, Process, filterVars
<1>3. CASE SessionChanges \/ EnterOrSlash \/ Quit \/ NoKey
  BY <1>3 DEF SessionChanges, EnterOrSlash, Quit, NoKey, Key, Pressed, filterVars
<1>4. CASE ToggleFilters \/ \E f \in Focuses : SwitchFocus(f)
  BY <1>4 DEF ToggleFilters, SwitchFocus, Browsing, Key, Pressed
<1>5. CASE Backspace \/ \E c \in Chars : TypeChar(c)
  BY <1>5 DEF Backspace, TypeChar, SetQuery, Searching, Key, Pressed
<1>6. CASE Escape
  BY <1>6 DEF Escape, SetQuery, Key, Pressed, filterVars
<1>7. CASE ToggleScroll
  BY <1>7 DEF ToggleScroll, Browsing, Key, Pressed, filterVars
<1>8. CASE Move
  BY <1>8 DEF Move, Browsing, Key, Pressed
<1>9. CASE ToggleSelection \/ \E sev \in SeverityKeys : ToggleSeverity(sev)
  BY <1>9 DEF ToggleSelection, ToggleSeverity, Toggle, Browsing, Key, Pressed
<1>10. CASE NextMatch \/ PrevMatch
  <2>1. search_matches # <<>>
    BY <1>10 DEF NextMatch, PrevMatch, GoToMatch
  <2>2. Len(search_matches) \in Nat \ {0}
    BY <2>1, EmptySeq DEF TypeOK
  <2>3. current_match_idx # None =>
          (current_match_idx + 1) % Len(search_matches) \in Nat
    BY <2>2 DEF TypeOK, Index
  <2>4. /\ Len(search_matches) - 1 \in Nat
        /\ current_match_idx \notin {None, 0} => current_match_idx - 1 \in Nat
    BY <2>2 DEF TypeOK, Index
  <2> QED
    BY <1>10, <2>3, <2>4 DEF NextMatch, PrevMatch
<1>11. CASE UNCHANGED vars
  BY <1>11 DEF vars, filterVars
<1>12. CASE HighlightPanics
  BY <1>12
<1> QED
  BY <1>1, <1>2, <1>3, <1>4, <1>5, <1>6, <1>7, <1>8, <1>9, <1>10, <1>11, <1>12
     DEF Next, KeyStep, Terminated

LEMMA ViewCoherentStep == ViewInv /\ [Next]_vars => ViewCoherent'
<1> SUFFICES ASSUME ViewInv, [Next]_vars PROVE ViewCoherent'
  OBVIOUS
<1>1. CASE ListsStay
  <2>1. /\ logs' = logs /\ filtered_logs' = filtered_logs /\ excluded' = excluded
        /\ search_query' = search_query /\ search_matches' = search_matches
        /\ current_match_idx' = current_match_idx /\ panicked' = panicked
    BY <1>1 DEF ListsStay, listVars
  <2> QED
    BY <2>1 DEF ViewInv, ViewCoherent
<1>2. CASE Refresh /\ UNCHANGED <<scroll_locked, panicked>>
  BY <1>2, RefreshCoheres, ViewTypesStep DEF ViewInv
<1>3. ASSUME NEW i \in Nat, GoToMatch(i) PROVE ViewCoherent'
  <2>1. /\ logs' = logs /\ filtered_logs' = filtered_logs /\ excluded' = excluded
        /\ search_query' = search_query /\ search_matches' = search_matches
        /\ current_match_idx' = i /\ search_matches # <<>>
    BY <1>3 DEF GoToMatch, filterVars
  <2>2. i # None
    BY ViewAssumption
  <2> QED
    BY <2>1, <2>2 DEF ViewInv, ViewCoherent
<1>4. CASE HighlightPanics
  <2>1. /\ logs' = logs /\ filtered_logs' = filtered_logs /\ excluded' = excluded
        /\ search_query' = search_query /\ search_matches' = search_matches
        /\ panicked'
    BY <1>4 DEF HighlightPanics, listVars, filterVars
  <2> QED
    BY <2>1 DEF ViewInv, ViewCoherent
<1> QED
  BY <1>1, <1>2, <1>3, <1>4, ViewStepKinds DEF KindOfStep

LEMMA FollowsLatestStep == ViewInv /\ [Next]_vars => FollowsLatest'
<1> SUFFICES ASSUME ViewInv, [Next]_vars PROVE FollowsLatest'
  OBVIOUS
<1>1. CASE ListsStay /\ (\/ UNCHANGED <<scroll_locked, selected>>
                         \/ UNCHANGED scroll_locked /\ DrawTable
                         \/ ToggleScroll
                         \/ scroll_locked' = TRUE)
  <2>0. filtered_logs' = filtered_logs
    BY <1>1 DEF ListsStay, listVars
  <2>1. CASE UNCHANGED <<scroll_locked, selected>>
    BY <2>0, <2>1 DEF ViewInv, FollowsLatest
  <2>2. CASE UNCHANGED scroll_locked /\ DrawTable
    <3> SUFFICES ASSUME ~scroll_locked, filtered_logs # <<>>
                 PROVE  selected' = Len(filtered_logs) - 1
      BY <2>0, <2>2 DEF FollowsLatest
    <3>1. selected = Len(filtered_logs) - 1
      BY DEF ViewInv, FollowsLatest
    <3>2. Len(filtered_logs) \in Nat /\ Len(filtered_logs) # 0
      BY EmptySeq DEF ViewInv, TypeOK
    <3>3. Clamp(selected, Len(filtered_logs)) = selected
      BY <3>1, <3>2 DEF Clamp
    <3> QED
      BY <2>2, <3>1, <3>3 DEF DrawTable
  <2>3. CASE ToggleScroll
    BY <2>0, <2>3 DEF ToggleScroll, Latest, FollowsLatest, ViewInv, TypeOK
  <2>4. CASE scroll_locked' = TRUE
    BY <2>4 DEF FollowsLatest
  <2> QED
    BY <1>1, <2>1, <2>2, <2>3, <2>4
<1>2. CASE Refresh /\ UNCHANGED <<scroll_locked, panicked>>
  BY <1>2, RefreshFollows
<1>3. ASSUME NEW i \in Nat, GoToMatch(i) PROVE FollowsLatest'
  BY <1>3 DEF GoToMatch, FollowsLatest
<1>4. CASE HighlightPanics
  BY <1>4 DEF HighlightPanics, listVars, ViewInv, FollowsLatest
<1> QED
  BY <1>1, <1>2, <1>3, <1>4, ViewStepKinds DEF KindOfStep

LEMMA ViewInvHolds == Spec => []ViewInv
<1>1. ViewInv /\ [Next]_vars => ViewInv'
  BY ViewTypesStep, ViewSeenStep, ViewCoherentStep, FollowsLatestStep DEF ViewInv
<1> QED
  BY <1>1, ViewInit, PTL DEF Spec

-----------------------------------------------------------------------------
(* The theorems *)

(***************************************************************************)
(* Type correctness; every index that is not None is a natural number, so  *)
(* that no subtraction in the moves and walks goes below zero.             *)
(***************************************************************************)
THEOREM ViewTypes == Spec => []TypeOK
  BY ViewInvHolds, PTL DEF ViewInv

(***************************************************************************)
(* After every key, batch and file the rows are what the filters ask for   *)
(* and the matches what the search asks for: no operation of App changes   *)
(* the logs, a filter or the query and leaves a list behind.               *)
(***************************************************************************)
THEOREM RowsAreWhatIsAsked == Spec => []ViewCoherent
  BY ViewInvHolds, PTL DEF ViewInv

(***************************************************************************)
(* An unlocked scroll has the latest visible log selected.                 *)
(***************************************************************************)
THEOREM LatestIsSelected == Spec => []FollowsLatest
  BY ViewInvHolds, PTL DEF ViewInv

(***************************************************************************)
(* render_table reads logs[i] for every row i, and a match is selected as  *)
(* a row: every row is the index of a log and every match the index of a   *)
(* row, so that neither lookup is out of bounds.  (The slices that         *)
(* highlight_text takes of a cell's text are: HighlightPanics.)            *)
(***************************************************************************)
DrawInBounds == /\ \A i \in 1..Len(filtered_logs) : filtered_logs[i] \in 0..Len(logs) - 1
                /\ \A i \in 1..Len(search_matches) :
                      search_matches[i] \in 0..Len(filtered_logs) - 1

THEOREM RowsAreInBounds == Spec => []DrawInBounds
<1>1. ViewInv => DrawInBounds
  <2> SUFFICES ASSUME ViewInv PROVE DrawInBounds
    OBVIOUS
  <2>1. /\ DOMAIN filtered_logs = 1..Len(filtered_logs)
        /\ DOMAIN search_matches = 1..Len(search_matches)
    BY LenProperties DEF ViewInv, TypeOK
  <2>2. \A i \in 1..Len(filtered_logs) : filtered_logs[i] \in Passing(logs, excluded)
    BY <2>1 DEF ViewInv, ViewCoherent, Lists, ToSet
  <2>3. \A i \in 1..Len(search_matches) :
          search_matches[i] \in Matching(logs, filtered_logs, search_query)
    BY <2>1 DEF ViewInv, ViewCoherent, Lists, ToSet
  <2> QED
    BY <2>2, <2>3 DEF Passing, Matching, DrawInBounds
<1> QED
  BY <1>1, ViewInvHolds, PTL

(***************************************************************************)
(* Of all that is drawn, received and typed only two things end the        *)
(* program: p, when the current match is beyond the end of the matches by  *)
(* more than one, since App::prev_match does not take the remainder that   *)
(* App::next_match takes; and a highlight that slips, while there is a     *)
(* search and a row whose text it cannot be sliced out of.                 *)
(***************************************************************************)
StaleMatch == current_match_idx # None /\ current_match_idx > Len(search_matches)

SlippingRow == search_query # <<>> /\ \E i \in 1..Len(filtered_logs) :
                 logs[filtered_logs[i] + 1] \in Slips[search_query]

KnownPanic == \/ PrevMatch /\ StaleMatch
              \/ HighlightPanics /\ SlippingRow

PanicsAreKnown == [][panicked' # panicked => KnownPanic]_vars

THEOREM OnlyStaleMatchesAndHighlightsPanic == Spec => PanicsAreKnown
<1>1. ASSUME TypeOK, Next, panicked' # panicked PROVE KnownPanic
  <2>1. CASE NextMatch
    <3> DEFINE n == Len(search_matches)
               i == IF current_match_idx = None THEN 0 ELSE (current_match_idx + 1) % n
    <3>1. GoToMatch(i)
      BY <2>1 DEF NextMatch
    <3>2. n \in Nat \ {0}
      BY <1>1, <3>1, EmptySeq DEF GoToMatch, TypeOK
    <3>3. i < n
      <4>1. ASSUME NEW k \in Nat, NEW m \in Nat \ {0} PROVE k % m < m /\ 0 < m
        OBVIOUS
      <4>2. current_match_idx # None => current_match_idx + 1 \in Nat
        BY <1>1 DEF TypeOK, Index
      <4> HIDE DEF n
      <4> QED
        BY <3>2, <4>1, <4>2
    <3> HIDE DEF i
    <3> QED
      BY <1>1, <3>1, <3>3 DEF GoToMatch
  <2>2. CASE PrevMatch
    <3> DEFINE n == Len(search_matches)
               i == IF current_match_idx \in {None, 0} THEN n - 1
                    ELSE current_match_idx - 1
    <3>1. GoToMatch(i)
      BY <2>2 DEF PrevMatch
    <3>2. n \in Nat \ {0}
      BY <1>1, <3>1, EmptySeq DEF GoToMatch, TypeOK
    <3>3. ~(i < n)
      BY <1>1, <3>1 DEF GoToMatch
    <3>4. StaleMatch
      BY <1>1, <3>2, <3>3 DEF TypeOK, Index, StaleMatch
    <3> QED
      BY <2>2, <3>4 DEF KnownPanic
  <2>3. CASE HighlightPanics
    <3>1. PICK row \in ToSet(filtered_logs) : logs[row + 1] \in Slips[search_query]
      BY <2>3 DEF HighlightPanics, Drawn
    <3>2. DOMAIN filtered_logs = 1..Len(filtered_logs)
      BY <1>1, LenProperties DEF TypeOK
    <3>3. PICK i \in 1..Len(filtered_logs) : filtered_logs[i] = row
      BY <3>1, <3>2 DEF ToSet
    <3>4. search_query # <<>>
      BY <3>1, ViewAssumption
    <3> QED
      BY <2>3, <3>1, <3>3, <3>4 DEF SlippingRow, KnownPanic
  <2>4. CASE Draw \/ Receive \/ LoadCsv \/ SessionChanges \/ Terminated
    BY <1>1, <2>4 DEF Draw, Receive, LoadCsv, SessionChanges, Process, Terminated, vars
  <2>5. CASE KeyStep /\ ~NextMatch /\ ~PrevMatch
    BY <1>1, <2>5 DEF KeyStep, SwitchFocus, TypeChar, Backspace, Escape, EnterOrSlash,
       Quit, NoKey, ToggleFilters, ToggleScroll, Move, ToggleSeverity, ToggleSelection,
       Searching, Browsing, Key, Pressed
  <2> QED
    BY <1>1, <2>1, <2>2, <2>3, <2>4, <2>5 DEF Next
<1>2. TypeOK /\ [Next]_vars => [panicked' # panicked => KnownPanic]_vars
  BY <1>1
<1> QED
  BY <1>2, ViewTypes, PTL DEF Spec, PanicsAreKnown
=============================================================================

-------------------------- MODULE LogServerProofs --------------------------
(***************************************************************************)
(* Theorems about the log server, for any number of engines, TUIs and      *)
(* logs and any capacity of the channel.                                   *)
(***************************************************************************)
EXTENDS LogServer, SequenceTheorems, WellFoundedInduction, TLAPS

LEMMA InitTyped == Init => TypeOK
<1> SUFFICES ASSUME Init PROVE TypeOK
  OBVIOUS
<1>1. \A S : <<>> \in Seq(S)
  BY EmptySeq
<1>2. \A e \in Engines : wire[e] = <<>>
  BY DEF Init
<1>3. wire \in [Engines -> Seq(Batch \ {<<>>})] /\ backlog \in Seq(Engines)
      /\ pending \in Batch /\ logs \in Batch /\ csv \in Batch
      /\ got \in [Tuis -> Seq(Nat \ {0})]
  BY <1>1 DEF Init, Batch
<1>4. tui \in [Tuis -> TuiStates] /\ server \in ServerStates
  BY DEF Init, TuiStates, ServerStates
<1>5. /\ infinite \in BOOLEAN /\ connected \in BOOLEAN /\ unsaved \in BOOLEAN
      /\ engine \in [Engines -> {"off", "open", "closed"}]
      /\ left \in [Tuis -> BOOLEAN] /\ lagged \in [Tuis -> BOOLEAN]
  BY DEF Init
<1>6. /\ snapshot \in [Tuis -> Nat] /\ cursor \in [Tuis -> Nat \ {0}]
      /\ since \in [Tuis -> Nat] /\ written \in [Engines -> Nat]
      /\ broken \subseteq Engines
  BY DEF Init
<1>7. /\ serving \subseteq Engines
      /\ serving # {} <=> server \in {"read", "store"}
      /\ serving # {} <=> connected
      /\ pending # <<>> <=> server = "store"
  BY DEF Init
<1> QED
  BY <1>3, <1>4, <1>5, <1>6, <1>7 DEF TypeOK

\* The batch an engine writes.
LEMMA BatchTyped ==
  ASSUME NEW e \in Engines, NEW k \in Nat, NEW size \in Nat \ {0}
  PROVE  [i \in 1..size |-> <<e, k + i>>] \in Batch \ {<<>>}
<1> DEFINE b == [i \in 1..size |-> <<e, k + i>>]
<1>1. b \in [1..size -> Engines \X (Nat \ {0})]
  OBVIOUS
<1>2. b \in Batch
  BY <1>1, SeqDef DEF Batch
<1>3. Len(b) = size
  BY <1>1, <1>2, LenProperties DEF Batch
<1>4. Len(<<>>) = 0
  OBVIOUS
<1> HIDE DEF b
<1>5. b \in Batch \ {<<>>}
  BY <1>2, <1>3, <1>4
<1> QED
  BY <1>5 DEF b

LEMMA EngineTyped ==
  ASSUME TypeOK, NEW e \in Engines,
         EngineConnects(e) \/ EngineWrites(e) \/ EngineCloses(e)
  PROVE  TypeOK'
<1>1. CASE EngineConnects(e)
  <2>1. backlog' \in Seq(Engines)
    BY <1>1, AppendProperties DEF EngineConnects, TypeOK
  <2> QED
    BY <1>1, <2>1 DEF EngineConnects, TypeOK, tuiVars
<1>2. CASE EngineWrites(e)
  <2>1. PICK size \in 1..BatchLimit :
          /\ wire' = [wire EXCEPT ![e] =
                        Append(@, [i \in 1..size |-> <<e, written[e] + i>>])]
          /\ written' = [written EXCEPT ![e] = @ + size]
    BY <1>2 DEF EngineWrites
  <2>2. size \in Nat \ {0} /\ written[e] \in Nat /\ wire[e] \in Seq(Batch \ {<<>>})
    BY ServerAssumption DEF TypeOK
  <2>3. Append(wire[e], [i \in 1..size |-> <<e, written[e] + i>>])
          \in Seq(Batch \ {<<>>})
    BY <2>2, BatchTyped, AppendProperties
  <2>4. wire' \in [Engines -> Seq(Batch \ {<<>>})]
    BY <2>1, <2>3 DEF TypeOK
  <2>5. written' \in [Engines -> Nat]
    BY <2>1, <2>2 DEF TypeOK
  <2> QED
    BY <1>2, <2>4, <2>5 DEF EngineWrites, TypeOK, listenVars, tuiVars
<1>3. CASE EngineCloses(e)
  BY <1>3 DEF EngineCloses, TypeOK, listenVars, tuiVars
<1> QED
  BY <1>1, <1>2, <1>3

LEMMA ListenerTyped == ASSUME TypeOK, ListenerStep PROVE TypeOK'
<1> USE DEF ServerStates
<1>1. CASE Accept
  <2>1. Head(backlog) \in Engines /\ backlog' \in Seq(Engines)
    BY <1>1, HeadTailProperties DEF Accept, TypeOK
  <2>2. ~connected
    BY <1>1 DEF Accept, TypeOK
  <2>3. serving' = {Head(backlog)} /\ server' = "read" /\ connected' = TRUE
    BY <1>1, <2>2 DEF Accept
  <2> QED
    BY <1>1, <2>1, <2>3 DEF Accept, TypeOK, engineVars, tuiVars
<1>2. CASE ReadBatch
  <2>1. PICK e \in serving : /\ wire[e] # <<>>
                             /\ pending' = Head(wire[e])
                             /\ wire' = [wire EXCEPT ![e] = Tail(@)]
    BY <1>2 DEF ReadBatch
  <2>2. e \in Engines /\ wire[e] \in Seq(Batch \ {<<>>})
    BY DEF TypeOK
  <2>3. Head(wire[e]) \in Batch \ {<<>>} /\ Tail(wire[e]) \in Seq(Batch \ {<<>>})
    BY <2>1, <2>2, HeadTailProperties
  <2>4. wire' \in [Engines -> Seq(Batch \ {<<>>})]
    BY <2>1, <2>2, <2>3 DEF TypeOK
  <2> QED
    BY <1>2, <2>1, <2>3, <2>4 DEF ReadBatch, TypeOK, tuiVars
<1>3. CASE StoreLog
  <2>1. pending # <<>> /\ pending \in Batch
    BY <1>3 DEF StoreLog, TypeOK
  <2>2. Head(pending) \in Engines \X (Nat \ {0}) /\ Tail(pending) \in Batch
    BY <2>1, HeadTailProperties DEF Batch
  <2>3. logs' \in Batch
    BY <1>3, <2>2, AppendProperties DEF StoreLog, TypeOK, Batch
  <2> QED
    BY <1>3, <2>2, <2>3 DEF StoreLog, TypeOK, engineVars, tuiVars
<1>4. CASE EngineGone
  BY <1>4 DEF EngineGone, TypeOK, engineVars, tuiVars
<1>5. CASE ConnectionFails
  <2>1. PICK e \in serving : /\ wire' = [wire EXCEPT ![e] = <<>>]
                             /\ engine' = [engine EXCEPT ![e] = "closed"]
                             /\ broken' = broken \cup {e}
    BY <1>5 DEF ConnectionFails
  <2>2. e \in Engines
    BY DEF TypeOK
  <2>3. wire' \in [Engines -> Seq(Batch \ {<<>>})]
    BY <2>1, <2>2, EmptySeq DEF TypeOK
  <2>4. engine' \in [Engines -> {"off", "open", "closed"}] /\ broken' \subseteq Engines
    BY <2>1, <2>2 DEF TypeOK
  <2> QED
    BY <1>5, <2>3, <2>4 DEF ConnectionFails, TypeOK, tuiVars
<1>6. CASE SaveCsv
  BY <1>6 DEF SaveCsv, TypeOK, engineVars, tuiVars
<1> QED
  BY <1>1, <1>2, <1>3, <1>4, <1>5, <1>6 DEF ListenerStep

LEMMA TuiTyped ==
  ASSUME TypeOK, NEW t \in Tuis, TuiConnects(t) \/ TuiLeaves(t) \/ TuiStep(t)
  PROVE  TypeOK'
<1> USE DEF TuiStates, TuiGoes, engineVars, listenVars
<1>0. Len(logs) \in Nat
  BY LenProperties DEF TypeOK, Batch
<1>1. CASE TuiConnects(t)
  BY <1>1 DEF TuiConnects, TypeOK
<1>2. CASE TuiLeaves(t)
  BY <1>2 DEF TuiLeaves, TypeOK
<1>3. CASE TakeSnapshot(t)
  BY <1>0, <1>3 DEF TakeSnapshot, TypeOK
<1>4. CASE SendSnapshot(t)
  <2>1. [i \in 1..snapshot[t] |-> i] \in Seq(Nat \ {0})
    <3>1. snapshot[t] \in Nat
      BY DEF TypeOK
    <3>2. [i \in 1..snapshot[t] |-> i] \in [1..snapshot[t] -> Nat \ {0}]
      BY <3>1
    <3> QED
      BY <3>1, <3>2, SeqDef
  <2> QED
    BY <1>4, <2>1 DEF SendSnapshot, TypeOK
<1>5. CASE SendFails(t)
  <2>1. tui' = [tui EXCEPT ![t] = "over"] /\ UNCHANGED <<engineVars, listenVars, left>>
    BY <1>5 DEF SendFails
  <2>2. tui' \in [Tuis -> TuiStates]
    BY <2>1 DEF TypeOK
  <2> QED
    BY <1>5, <2>1, <2>2 DEF SendFails, TypeOK
<1>6. CASE Subscribe(t)
  <2>1. /\ cursor' = [cursor EXCEPT ![t] = Len(logs) + 1]
        /\ since' = [since EXCEPT ![t] = Len(logs)]
        /\ tui' = [tui EXCEPT ![t] = "receive"]
    BY <1>6 DEF Subscribe
  <2>2. /\ cursor' \in [Tuis -> Nat \ {0}] /\ since' \in [Tuis -> Nat]
        /\ tui' \in [Tuis -> TuiStates]
    BY <1>0, <2>1 DEF TypeOK
  <2> QED
    BY <1>6, <2>2 DEF Subscribe, TypeOK
<1>7. CASE Forward(t)
  <2>1. cursor[t] \in Nat \ {0} /\ got[t] \in Seq(Nat \ {0})
    BY DEF TypeOK
  <2>2. Append(got[t], cursor[t]) \in Seq(Nat \ {0}) /\ cursor[t] + 1 \in Nat \ {0}
    BY <2>1, AppendProperties
  <2> QED
    BY <1>7, <2>2 DEF Forward, TypeOK
<1>8. CASE Lag(t)
  <2>1. Oldest \in Nat \ {0}
    BY <1>0, ServerAssumption DEF Oldest
  <2> QED
    BY <1>8, <2>1 DEF Lag, TypeOK
<1> QED
  BY <1>1, <1>2, <1>3, <1>4, <1>5, <1>6, <1>7, <1>8 DEF TuiStep

(***************************************************************************)
(* The types; in them, that engine_connected holds exactly while an engine *)
(* is served, and that a batch is being stored exactly while its logs are  *)
(* not all in the storage.                                                 *)
(***************************************************************************)
THEOREM ServerTypes == Spec => []TypeOK
<1>1. TypeOK /\ [Next]_vars => TypeOK'
  <2> SUFFICES ASSUME TypeOK, [Next]_vars PROVE TypeOK'
    OBVIOUS
  <2>1. CASE UNCHANGED vars
    BY <2>1 DEF vars, engineVars, listenVars, tuiVars, TypeOK
  <2> QED
    BY <2>1, EngineTyped, ListenerTyped, TuiTyped DEF Next
<1> QED
  BY <1>1, InitTyped, PTL DEF Spec

-----------------------------------------------------------------------------
(* What a TUI sees *)

Rising(s) == \A i, j \in 1..Len(s) : i < j => s[i] < s[j]

\* What holds of the task of t as it goes on; N logs are stored.
Sees(state, snap, next, sub, late, s, N) ==
  /\ Rising(s)
  /\ state \in {"off", "snapshot", "send"} => s = <<>>
  /\ state \in {"off", "snapshot", "send", "subscribe"} => ~late
  /\ snap <= N
  /\ state = "subscribe" => ToSet(s) = 1..snap
  /\ state = "receive" => /\ snap <= sub /\ sub < next /\ next <= N + 1
                          /\ \A x \in ToSet(s) : x < next
                          /\ ~late => ToSet(s) = (1..snap) \cup (sub + 1 .. next - 1)

SeesStorage == \A t \in Tuis :
  Sees(tui[t], snapshot[t], cursor[t], since[t], lagged[t], got[t], Len(logs))

LEMMA ToSetAppend ==
  ASSUME NEW s \in Seq(Nat \ {0}), NEW x \in Nat \ {0}
  PROVE  ToSet(Append(s, x)) = ToSet(s) \cup {x}
<1> DEFINE r == Append(s, x)
<1>1. /\ r \in Seq(Nat \ {0}) /\ Len(r) = Len(s) + 1
      /\ \A i \in 1..Len(s) : r[i] = s[i]
      /\ r[Len(s) + 1] = x
  BY AppendProperties
<1>2. Len(s) \in Nat /\ DOMAIN s = 1..Len(s) /\ DOMAIN r = 1..(Len(s) + 1)
  BY <1>1, LenProperties
<1> HIDE DEF r
<1>3. \A y \in ToSet(r) : y \in ToSet(s) \cup {x}
  <2> SUFFICES ASSUME NEW i \in 1..(Len(s) + 1)
               PROVE  r[i] \in ToSet(s) \cup {x}
    BY <1>2 DEF ToSet
  <2>1. i \in 1..Len(s) \/ i = Len(s) + 1
    BY <1>2
  <2> QED
    BY <1>1, <1>2, <2>1 DEF ToSet
<1>4. \A y \in ToSet(s) \cup {x} : y \in ToSet(r)
  <2>1. \A i \in 1..Len(s) : i \in 1..(Len(s) + 1)
    BY <1>2
  <2>2. Len(s) + 1 \in 1..(Len(s) + 1)
    BY <1>2
  <2> QED
    BY <1>1, <1>2, <2>1, <2>2 DEF ToSet
<1>5. ToSet(r) = ToSet(s) \cup {x}
  BY <1>3, <1>4
<1> QED
  BY <1>5 DEF r

\* The storage only grows.
LEMMA MoreLogs ==
  ASSUME NEW state, NEW snap \in Nat, NEW next \in Nat, NEW sub \in Nat, NEW late,
         NEW s, NEW N \in Nat, NEW M \in Nat, N <= M,
         Sees(state, snap, next, sub, late, s, N)
  PROVE  Sees(state, snap, next, sub, late, s, M)
BY DEF Sees

LEMMA TuiStepSees ==
  ASSUME TypeOK, SeesStorage, NEW t \in Tuis,
         TuiConnects(t) \/ TuiLeaves(t) \/ TuiStep(t)
  PROVE  SeesStorage'
<1> DEFINE N == Len(logs)
           S(u) == Sees(tui[u], snapshot[u], cursor[u], since[u], lagged[u], got[u], N)
<1>1. N \in Nat /\ logs' = logs
  BY LenProperties DEF TypeOK, Batch, TuiConnects, TuiLeaves, TuiStep, TakeSnapshot,
     SendSnapshot, SendFails, Subscribe, Forward, Lag, TuiGoes, listenVars
<1>2. /\ tui \in [Tuis -> TuiStates] /\ snapshot \in [Tuis -> Nat]
      /\ cursor \in [Tuis -> Nat \ {0}] /\ since \in [Tuis -> Nat]
      /\ lagged \in [Tuis -> BOOLEAN] /\ got \in [Tuis -> Seq(Nat \ {0})]
  BY DEF TypeOK
<1>3. \A u \in Tuis : S(u)
  BY DEF SeesStorage
<1>4. \A u \in Tuis \ {t} : /\ tui'[u] = tui[u] /\ snapshot'[u] = snapshot[u]
                            /\ cursor'[u] = cursor[u] /\ since'[u] = since[u]
                            /\ lagged'[u] = lagged[u] /\ got'[u] = got[u]
  BY <1>2 DEF TuiConnects, TuiLeaves, TuiStep, TakeSnapshot, SendSnapshot, SendFails,
     Subscribe, Forward, Lag, TuiGoes
<1> DEFINE Mine == Sees(tui'[t], snapshot'[t], cursor'[t], since'[t], lagged'[t],
                        got'[t], N)
<1> SUFFICES Mine
  BY <1>1, <1>3, <1>4 DEF SeesStorage
<1>5. S(t)
  BY <1>3
<1>6. CASE TuiConnects(t) \/ TuiLeaves(t) \/ SendFails(t)
  <2>1. UNCHANGED <<snapshot, cursor, since, lagged, got>>
    BY <1>6 DEF TuiConnects, TuiLeaves, SendFails
  <2>2. \/ tui'[t] = tui[t]
        \/ tui[t] = "off" /\ tui'[t] = "snapshot"
        \/ tui'[t] = "over"
    BY <1>2, <1>6 DEF TuiConnects, TuiLeaves, SendFails, TuiGoes
  <2> QED
    BY <1>5, <2>1, <2>2 DEF Sees
<1>7. CASE TakeSnapshot(t)
  <2>1. /\ tui[t] = "snapshot" /\ tui'[t] = "send" /\ snapshot'[t] = N
        /\ UNCHANGED <<cursor, since, lagged, got>>
    BY <1>2, <1>7 DEF TakeSnapshot, TuiGoes
  <2> QED
    BY <1>1, <1>5, <2>1 DEF Sees
<1>8. CASE SendSnapshot(t)
  <2> DEFINE r == [i \in 1..snapshot[t] |-> i]
  <2>1. /\ tui[t] = "send" /\ tui'[t] = "subscribe" /\ got'[t] = r
        /\ UNCHANGED <<snapshot, cursor, since, lagged>>
    BY <1>2, <1>8 DEF SendSnapshot, TuiGoes
  <2>2. snapshot[t] \in Nat /\ r \in Seq(Nat) /\ Len(r) = snapshot[t]
    <3>1. snapshot[t] \in Nat /\ r \in [1..snapshot[t] -> Nat]
      BY <1>2
    <3> QED
      BY <3>1, SeqDef, LenProperties
  <2>3. \A i \in 1..snapshot[t] : r[i] = i
    OBVIOUS
  <2>4. DOMAIN r = 1..snapshot[t]
    OBVIOUS
  <2> HIDE DEF r
  <2>5. ToSet(r) = 1..snapshot[t] /\ Rising(r)
    BY <2>2, <2>3, <2>4 DEF ToSet, Rising
  <2> QED
    BY <1>5, <2>1, <2>5 DEF Sees
<1>9. CASE Subscribe(t)
  <2>1. /\ tui[t] = "subscribe" /\ tui'[t] = "receive"
        /\ cursor'[t] = N + 1 /\ since'[t] = N
        /\ UNCHANGED <<snapshot, lagged, got>>
    BY <1>2, <1>9 DEF Subscribe, TuiGoes
  <2>2. snapshot[t] \in Nat /\ ToSet(got[t]) = 1..snapshot[t] /\ snapshot[t] <= N
    BY <1>2, <1>5, <2>1 DEF Sees
  <2>3. N + 1 .. (N + 1) - 1 = {} /\ \A x \in 1..snapshot[t] : x < N + 1
    BY <1>1, <2>2
  <2> QED
    BY <1>1, <1>5, <2>1, <2>2, <2>3 DEF Sees
<1>10. CASE Forward(t)
  <2> DEFINE c == cursor[t]
             s == got[t]
  <2>1. /\ tui[t] = "receive" /\ tui'[t] = "receive" /\ c <= N
        /\ cursor'[t] = c + 1 /\ got'[t] = Append(s, c)
        /\ UNCHANGED <<snapshot, since, lagged>>
    BY <1>1, <1>2, <1>10 DEF Forward, TuiGoes
  <2>2. /\ c \in Nat \ {0} /\ s \in Seq(Nat \ {0}) /\ snapshot[t] \in Nat
        /\ since[t] \in Nat /\ since[t] < c /\ snapshot[t] <= since[t]
        /\ \A x \in ToSet(s) : x < c
        /\ ~lagged[t] => ToSet(s) = (1..snapshot[t]) \cup (since[t] + 1 .. c - 1)
        /\ Rising(s)
    BY <1>2, <1>5, <2>1 DEF Sees
  <2>3. ToSet(Append(s, c)) = ToSet(s) \cup {c}
    BY <2>2, ToSetAppend
  <2>4. since[t] + 1 .. (c + 1) - 1 = (since[t] + 1 .. c - 1) \cup {c}
    BY <2>2
  <2>5. \A x \in ToSet(s) \cup {c} : x < c + 1
    <3>1. \A x \in ToSet(s) : x \in Nat
      BY <2>2, LenProperties, ElementOfSeq DEF ToSet
    <3> QED
      BY <2>2, <3>1
  <2>6. Rising(Append(s, c))
    <3> DEFINE r == Append(s, c)
    <3>1. /\ Len(r) = Len(s) + 1 /\ Len(s) \in Nat /\ DOMAIN s = 1..Len(s)
          /\ \A i \in 1..Len(s) : r[i] = s[i]
          /\ r[Len(s) + 1] = c
      BY <2>2, AppendProperties, LenProperties
    <3> HIDE DEF r
    <3>2. \A i \in 1..Len(s) : s[i] < c
      BY <2>2, <3>1 DEF ToSet
    <3> SUFFICES ASSUME NEW i \in 1..Len(r), NEW j \in 1..Len(r), i < j
                 PROVE  r[i] < r[j]
      BY DEF Rising, r
    <3>3. i \in 1..Len(s) /\ (j \in 1..Len(s) \/ j = Len(s) + 1)
      BY <3>1
    <3> QED
      BY <2>2, <3>1, <3>2, <3>3 DEF Rising
  <2>7. ~lagged[t] => ToSet(Append(s, c)) =
                        (1..snapshot[t]) \cup (since[t] + 1 .. (c + 1) - 1)
    BY <2>2, <2>3, <2>4
  <2>8. \A x \in ToSet(Append(s, c)) : x < c + 1
    BY <2>3, <2>5
  <2>9. snapshot[t] <= N /\ since[t] < c + 1 /\ c + 1 <= N + 1
    BY <1>1, <2>1, <2>2
  <2> HIDE DEF c, s, N
  <2> QED
    BY <2>1, <2>2, <2>6, <2>7, <2>8, <2>9 DEF Sees
<1>11. CASE Lag(t)
  <2>1. /\ tui[t] = "receive" /\ tui'[t] = "receive" /\ cursor[t] < Oldest
        /\ cursor'[t] = Oldest /\ lagged'[t] = TRUE
        /\ UNCHANGED <<snapshot, since, got>>
    BY <1>2, <1>11 DEF Lag, TuiGoes
  <2>2. Oldest \in Nat /\ Oldest <= N + 1
    BY <1>1, ServerAssumption DEF Oldest
  <2>3. \A x \in ToSet(got[t]) : x \in Nat
    BY <1>2, LenProperties, ElementOfSeq DEF ToSet
  <2>4. \A x \in ToSet(got[t]) : x < Oldest
    BY <1>2, <1>5, <2>1, <2>2, <2>3 DEF Sees
  <2> QED
    BY <1>1, <1>2, <1>5, <2>1, <2>2, <2>4 DEF Sees
<1> QED
  BY <1>6, <1>7, <1>8, <1>9, <1>10, <1>11 DEF TuiStep

\* Unless a TUI moves, its task stays where it is and the storage only grows.
LEMMA LogsOnlyGrow ==
  ASSUME TypeOK, [Next]_vars,
         ~ \E t \in Tuis : TuiConnects(t) \/ TuiLeaves(t) \/ TuiStep(t)
  PROVE  /\ UNCHANGED tuiVars
         /\ Len(logs) \in Nat /\ Len(logs') \in Nat /\ Len(logs) <= Len(logs')
         /\ logs' = logs \/ StoreLog
<1>1. \/ \E e \in Engines : EngineConnects(e) \/ EngineWrites(e) \/ EngineCloses(e)
      \/ ListenerStep \/ UNCHANGED vars
  BY DEF Next
<1>2. UNCHANGED tuiVars
  BY <1>1 DEF EngineConnects, EngineWrites, EngineCloses, ListenerStep, Accept,
     ReadBatch, StoreLog, EngineGone, ConnectionFails, SaveCsv, vars
<1>3. logs' = logs \/ StoreLog
  BY <1>1 DEF EngineConnects, EngineWrites, EngineCloses, ListenerStep,
     Accept, ReadBatch, EngineGone, ConnectionFails, SaveCsv, vars, listenVars
<1>4. CASE StoreLog
  <2>1. Head(pending) \in Engines \X (Nat \ {0}) /\ logs \in Batch
    BY <1>4, HeadTailProperties DEF StoreLog, TypeOK, Batch
  <2>2. Len(logs') = Len(logs) + 1
    BY <1>4, <2>1, AppendProperties DEF StoreLog, Batch
  <2> QED
    BY <1>2, <1>3, <2>1, <2>2, LenProperties DEF Batch
<1>5. CASE logs' = logs
  BY <1>2, <1>5, LenProperties DEF TypeOK, Batch
<1> QED
  BY <1>3, <1>4, <1>5

LEMMA ServerSees == Spec => []SeesStorage
<1>1. Init => SeesStorage
  BY DEF Init, SeesStorage, Sees, Rising
<1>2. TypeOK /\ SeesStorage /\ [Next]_vars => SeesStorage'
  <2> SUFFICES ASSUME TypeOK, SeesStorage, [Next]_vars PROVE SeesStorage'
    OBVIOUS
  <2>1. CASE \E t \in Tuis : TuiConnects(t) \/ TuiLeaves(t) \/ TuiStep(t)
    BY <2>1, TuiStepSees
  <2>2. CASE ~ \E t \in Tuis : TuiConnects(t) \/ TuiLeaves(t) \/ TuiStep(t)
    <3>1. \A t \in Tuis : snapshot[t] \in Nat /\ cursor[t] \in Nat /\ since[t] \in Nat
      BY DEF TypeOK
    <3>2. UNCHANGED tuiVars /\ Len(logs) \in Nat /\ Len(logs') \in Nat
          /\ Len(logs) <= Len(logs')
      BY <2>2, LogsOnlyGrow
    <3> QED
      BY <3>1, <3>2, MoreLogs DEF SeesStorage, tuiVars
  <2> QED
    BY <2>1, <2>2
<1> QED
  BY <1>1, <1>2, ServerTypes, PTL DEF Spec

(***************************************************************************)
(* A TUI is sent the storage in order, and without a lag it misses only    *)
(* what was stored between its snapshot and its subscription, however the  *)
(* tasks interleave and whatever the capacity.                             *)
(***************************************************************************)
THEOREM TuisMissOnlyTheGap == Spec => []MissesOnlyTheGap
<1>1. TypeOK /\ SeesStorage => MissesOnlyTheGap
  BY DEF SeesStorage, Sees, MissesOnlyTheGap, Rising
<1> QED
  BY <1>1, ServerSees, ServerTypes, PTL

-----------------------------------------------------------------------------
(* What is in the file of a server that has exited *)

LEMMA ContainsAppend ==
  ASSUME NEW S, NEW s \in Seq(S), NEW y \in S, NEW x
  PROVE  Contains(Append(s, y), x) <=> Contains(s, x) \/ x = y
<1> DEFINE r == Append(s, y)
<1>1. /\ Len(r) = Len(s) + 1 /\ Len(s) \in Nat
      /\ \A i \in 1..Len(s) : r[i] = s[i]
      /\ r[Len(s) + 1] = y
  BY AppendProperties, LenProperties
<1> HIDE DEF r
<1>2. \A i \in 1..(Len(s) + 1) : i \in 1..Len(s) \/ i = Len(s) + 1
  BY <1>1
<1>3. Len(s) + 1 \in 1..(Len(s) + 1) /\ \A i \in 1..Len(s) : i \in 1..(Len(s) + 1)
  BY <1>1
<1>4. Contains(r, x) <=> Contains(s, x) \/ x = y
  BY <1>1, <1>2, <1>3 DEF Contains
<1> QED
  BY <1>4 DEF r

LEMMA ContainsHeadTail ==
  ASSUME NEW S, NEW s \in Seq(S), s # <<>>, NEW x
  PROVE  Contains(s, x) <=> x = Head(s) \/ Contains(Tail(s), x)
<1> DEFINE r == Tail(s)
<1>1. /\ Len(r) = Len(s) - 1 /\ Len(s) \in Nat \ {0}
      /\ \A i \in 1..Len(r) : r[i] = s[i + 1]
      /\ Head(s) = s[1]
  BY HeadTailProperties, EmptySeq
<1> HIDE DEF r
<1>2. \A i \in 1..Len(s) : i = 1 \/ (i - 1 \in 1..Len(r) /\ r[i - 1] = s[i])
  BY <1>1
<1>3. 1 \in 1..Len(s) /\ \A i \in 1..Len(r) : i + 1 \in 1..Len(s)
  BY <1>1
<1>4. Contains(s, x) => x = Head(s) \/ Contains(r, x)
  BY <1>1, <1>2 DEF Contains
<1>5. x = Head(s) \/ Contains(r, x) => Contains(s, x)
  BY <1>1, <1>3 DEF Contains
<1> QED
  BY <1>4, <1>5 DEF r

\* A log is in one of the batches of w.
InBatch(w, x) == \E b \in Batch : Contains(w, b) /\ Contains(b, x)

\* Unless a connection failed, all its engine wrote is stored, being stored, or on
\* the wire.
NothingLost == \A e \in Engines : e \notin broken => \A n \in 1..written[e] :
  Contains(logs, <<e, n>>) \/ Contains(pending, <<e, n>>) \/ InBatch(wire[e], <<e, n>>)

\* Connections are accepted once, and left when nothing is on the wire any more.
OneAtATime ==
  /\ \A i, j \in 1..Len(backlog) : backlog[i] = backlog[j] => i = j
  /\ \A e, f \in serving : e = f
  /\ \A e \in Engines :
       /\ engine[e] = "off" => ~Contains(backlog, e) /\ e \notin serving /\ wire[e] = <<>>
       /\ e \in serving => ~Contains(backlog, e)
       /\ engine[e] # "off" /\ ~Contains(backlog, e) /\ e \notin serving =>
            engine[e] = "closed" /\ wire[e] = <<>>

SavedAll == server = "exited" /\ ~unsaved => csv = logs

Kept == NothingLost /\ OneAtATime /\ SavedAll

LEMMA InBatchAppend ==
  ASSUME NEW w \in Seq(Batch \ {<<>>}), NEW b \in Batch \ {<<>>}, NEW x
  PROVE  InBatch(Append(w, b), x) <=> InBatch(w, x) \/ Contains(b, x)
BY ContainsAppend DEF InBatch

LEMMA InBatchHeadTail ==
  ASSUME NEW w \in Seq(Batch \ {<<>>}), w # <<>>, NEW x
  PROVE  InBatch(w, x) <=> Contains(Head(w), x) \/ InBatch(Tail(w), x)
<1>1. Head(w) \in Batch
  BY HeadTailProperties
<1> QED
  BY <1>1, ContainsHeadTail DEF InBatch

LEMMA SameWires ==
  ASSUME Kept, UNCHANGED <<engine, wire, written, broken, backlog, serving, pending, logs>>
  PROVE  NothingLost' /\ OneAtATime'
<1>1. NothingLost'
  BY DEF Kept, NothingLost, Contains, InBatch
<1>2. OneAtATime'
  BY DEF Kept, OneAtATime, Contains
<1> QED
  BY <1>1, <1>2

LEMMA EngineKeeps ==
  ASSUME TypeOK, Kept, NEW e \in Engines,
         EngineConnects(e) \/ EngineWrites(e) \/ EngineCloses(e)
  PROVE  Kept'
<1>1. CASE EngineConnects(e)
  <2>1. /\ engine[e] = "off" /\ engine' = [engine EXCEPT ![e] = "open"]
        /\ backlog' = Append(backlog, e)
        /\ UNCHANGED <<wire, written, broken, server, serving, pending, logs, csv,
                       unsaved>>
    BY <1>1 DEF EngineConnects
  <2>2. backlog \in Seq(Engines) /\ engine \in [Engines -> {"off", "open", "closed"}]
    BY DEF TypeOK
  <2>3. \A x : Contains(backlog', x) <=> Contains(backlog, x) \/ x = e
    BY <2>1, <2>2, ContainsAppend
  <2>4. ~Contains(backlog, e) /\ e \notin serving
    BY <2>1 DEF Kept, OneAtATime
  <2>5. \A i, j \in 1..Len(backlog') : backlog'[i] = backlog'[j] => i = j
    <3>1. /\ Len(backlog') = Len(backlog) + 1 /\ Len(backlog) \in Nat
          /\ \A i \in 1..Len(backlog) : backlog'[i] = backlog[i]
          /\ backlog'[Len(backlog) + 1] = e
      BY <2>1, <2>2, AppendProperties, LenProperties
    <3>2. \A i \in 1..Len(backlog) : backlog[i] # e
      BY <2>4 DEF Contains
    <3>3. \A i \in 1..Len(backlog') : i \in 1..Len(backlog) \/ i = Len(backlog) + 1
      BY <3>1
    <3> QED
      BY <3>1, <3>2, <3>3 DEF Kept, OneAtATime
  <2>6. OneAtATime'
    BY <2>1, <2>2, <2>3, <2>4, <2>5 DEF Kept, OneAtATime, Contains
  <2>7. NothingLost' /\ SavedAll'
    BY <2>1 DEF Kept, NothingLost, SavedAll, Contains, InBatch
  <2> QED
    BY <2>6, <2>7 DEF Kept
<1>2. CASE EngineWrites(e)
  <2>1. PICK size \in 1..BatchLimit :
          /\ wire' = [wire EXCEPT ![e] =
                        Append(@, [i \in 1..size |-> <<e, written[e] + i>>])]
          /\ written' = [written EXCEPT ![e] = @ + size]
    BY <1>2 DEF EngineWrites
  <2> DEFINE b == [i \in 1..size |-> <<e, written[e] + i>>]
  <2>2. /\ engine[e] = "open" /\ Running
        /\ UNCHANGED <<engine, broken, backlog, server, serving, pending, logs, csv,
                       unsaved>>
    BY <1>2 DEF EngineWrites, listenVars
  <2>3. /\ size \in Nat \ {0} /\ written[e] \in Nat /\ wire[e] \in Seq(Batch \ {<<>>})
        /\ wire \in [Engines -> Seq(Batch \ {<<>>})] /\ written \in [Engines -> Nat]
    BY ServerAssumption DEF TypeOK
  <2>4. b \in Batch \ {<<>>}
    BY <2>3, BatchTyped
  <2>5. Len(b) = size /\ \A i \in 1..size : b[i] = <<e, written[e] + i>>
    <3>1. DOMAIN b = 1..size
      OBVIOUS
    <3>2. DOMAIN b = 1..Len(b) /\ Len(b) \in Nat
      BY <2>4, LenProperties DEF Batch
    <3>3. Len(b) = size
      BY <2>3, <3>1, <3>2
    <3> QED
      BY <3>3
  <2> HIDE DEF b
  <2>6. wire' = [wire EXCEPT ![e] = Append(wire[e], b)]
    BY <2>1 DEF b
  <2>7. \A x : InBatch(wire'[e], x) <=> InBatch(wire[e], x) \/ Contains(b, x)
    BY <2>3, <2>4, <2>6, InBatchAppend
  <2>8. \A n \in 1..(written[e] + size) : n \in 1..written[e] \/ Contains(b, <<e, n>>)
    <3> SUFFICES ASSUME NEW n \in 1..(written[e] + size), n \notin 1..written[e]
                 PROVE  Contains(b, <<e, n>>)
      OBVIOUS
    <3>1. n - written[e] \in 1..size /\ written[e] + (n - written[e]) = n
      BY <2>3
    <3>2. n - written[e] \in 1..Len(b) /\ b[n - written[e]] = <<e, n>>
      BY <2>5, <3>1
    <3> QED
      BY <3>2 DEF Contains
  <2>9. NothingLost'
    <3> SUFFICES ASSUME NEW f \in Engines \ broken, NEW n \in 1..written'[f]
                 PROVE  \/ Contains(logs, <<f, n>>) \/ Contains(pending, <<f, n>>)
                        \/ InBatch(wire'[f], <<f, n>>)
      BY <2>2 DEF NothingLost, Contains, InBatch
    <3>1. CASE f = e
      BY <2>1, <2>3, <2>7, <2>8, <3>1 DEF Kept, NothingLost
    <3>2. CASE f # e
      BY <2>1, <2>3, <3>2 DEF Kept, NothingLost
    <3> QED
      BY <3>1, <3>2
  <2>10. OneAtATime' /\ SavedAll'
    BY <2>1, <2>2, <2>3 DEF Kept, OneAtATime, SavedAll, Contains
  <2> QED
    BY <2>9, <2>10 DEF Kept
<1>3. CASE EngineCloses(e)
  <2>1. /\ engine' = [engine EXCEPT ![e] = "closed"] /\ engine[e] = "open"
        /\ UNCHANGED <<wire, written, broken, backlog, server, serving, pending, logs,
                       csv, unsaved>>
    BY <1>3 DEF EngineCloses, listenVars
  <2>2. \A f \in Engines : /\ engine'[f] = "off" => engine[f] = "off"
                           /\ engine'[f] # "off" => engine[f] # "off"
                           /\ engine[f] = "closed" => engine'[f] = "closed"
    BY <2>1 DEF TypeOK
  <2>3. NothingLost' /\ SavedAll'
    BY <2>1 DEF Kept, NothingLost, SavedAll, Contains, InBatch
  <2>4. OneAtATime'
    BY <2>1, <2>2 DEF Kept, OneAtATime, Contains
  <2> QED
    BY <2>3, <2>4 DEF Kept
<1> QED
  BY <1>1, <1>2, <1>3

LEMMA ListenerKeeps == ASSUME TypeOK, Kept, ListenerStep PROVE Kept'
<1>1. CASE Accept
  <2>1. server = "accept" /\ serving = {} /\ ~connected /\ backlog \in Seq(Engines)
    BY <1>1 DEF Accept, TypeOK
  <2>2. /\ backlog # <<>> /\ backlog' = Tail(backlog) /\ serving' = {Head(backlog)}
        /\ server' = "read"
        /\ UNCHANGED <<engine, wire, written, broken, pending, logs, csv, unsaved>>
    BY <1>1, <2>1 DEF Accept, engineVars
  <2>3. \A x : Contains(backlog, x) <=> x = Head(backlog) \/ Contains(backlog', x)
    BY <2>1, <2>2, ContainsHeadTail
  <2>4. /\ Len(backlog') = Len(backlog) - 1 /\ Len(backlog) \in Nat \ {0}
        /\ \A i \in 1..Len(backlog') : backlog'[i] = backlog[i + 1]
        /\ Head(backlog) = backlog[1]
    BY <2>1, <2>2, HeadTailProperties, EmptySeq
  <2>5. \A i \in 1..Len(backlog') : i + 1 \in 1..Len(backlog) /\ i + 1 # 1 /\ i \in Nat
    BY <2>4
  <2>6. \A i, j \in 1..Len(backlog') : backlog'[i] = backlog'[j] => i = j
    <3> SUFFICES ASSUME NEW i \in 1..Len(backlog'), NEW j \in 1..Len(backlog'),
                        backlog'[i] = backlog'[j]
                 PROVE  i = j
      OBVIOUS
    <3>1. i + 1 = j + 1
      BY <2>4, <2>5 DEF Kept, OneAtATime
    <3> QED
      BY <2>5, <3>1
  <2>7. ~Contains(backlog', Head(backlog))
    <3>1. 1 \in 1..Len(backlog)
      BY <2>4
    <3> QED
      BY <2>4, <2>5, <3>1 DEF Contains, Kept, OneAtATime
  <2>8. \A e \in Engines :
          /\ engine[e] = "off" => ~Contains(backlog', e) /\ e \notin serving' /\ wire[e] = <<>>
          /\ e \in serving' => ~Contains(backlog', e)
          /\ engine[e] # "off" /\ ~Contains(backlog', e) /\ e \notin serving' =>
               engine[e] = "closed" /\ wire[e] = <<>>
    BY <2>1, <2>2, <2>3, <2>7 DEF Kept, OneAtATime
  <2>9. OneAtATime'
    BY <2>2, <2>6, <2>8 DEF OneAtATime, Contains
  <2>10. NothingLost' /\ SavedAll'
    BY <2>2 DEF Kept, NothingLost, SavedAll, Contains, InBatch
  <2> QED
    BY <2>9, <2>10 DEF Kept
<1>2. CASE ReadBatch
  <2>1. PICK e \in serving : /\ wire[e] # <<>>
                             /\ pending' = Head(wire[e])
                             /\ wire' = [wire EXCEPT ![e] = Tail(@)]
    BY <1>2 DEF ReadBatch
  <2>2. /\ server = "read" /\ server' = "store"
        /\ UNCHANGED <<engine, backlog, serving, written, broken, logs, csv, unsaved>>
    BY <1>2 DEF ReadBatch
  <2>3. /\ e \in Engines /\ wire[e] \in Seq(Batch \ {<<>>})
        /\ wire \in [Engines -> Seq(Batch \ {<<>>})]
    BY DEF TypeOK
  <2>4. \A x : ~Contains(pending, x)
    <3>1. pending = <<>>
      BY <2>2 DEF TypeOK
    <3> QED
      BY <3>1 DEF Contains
  <2>5. \A x : InBatch(wire[e], x) <=> Contains(pending', x) \/ InBatch(wire'[e], x)
    BY <2>1, <2>3, InBatchHeadTail
  <2>6. NothingLost'
    <3> SUFFICES ASSUME NEW f \in Engines \ broken, NEW n \in 1..written[f]
                 PROVE  \/ Contains(logs, <<f, n>>) \/ Contains(pending', <<f, n>>)
                        \/ InBatch(wire'[f], <<f, n>>)
      BY <2>2 DEF NothingLost, Contains, InBatch
    <3>1. Contains(logs, <<f, n>>) \/ InBatch(wire[f], <<f, n>>)
      BY <2>4 DEF Kept, NothingLost
    <3>2. f # e => wire'[f] = wire[f]
      BY <2>1, <2>3
    <3> QED
      BY <2>5, <3>1, <3>2
  <2>7. \A f \in Engines : f # e => wire'[f] = wire[f]
    BY <2>1, <2>3
  <2>8. OneAtATime' /\ SavedAll'
    BY <2>2, <2>7 DEF Kept, OneAtATime, SavedAll, Contains
  <2> QED
    BY <2>6, <2>8 DEF Kept
<1>3. CASE StoreLog
  <2>1. /\ server = "store" /\ logs' = Append(logs, Head(pending))
        /\ pending' = Tail(pending) /\ server' \in {"read", "store"}
        /\ UNCHANGED <<engine, wire, written, broken, backlog, serving, csv, unsaved>>
    BY <1>3 DEF StoreLog, engineVars
  <2>2. pending # <<>> /\ pending \in Batch /\ logs \in Batch
    BY <2>1 DEF TypeOK
  <2>3. Head(pending) \in Engines \X (Nat \ {0})
    BY <2>2, HeadTailProperties DEF Batch
  <2>4. \A x : Contains(logs, x) \/ Contains(pending, x) =>
                 Contains(logs', x) \/ Contains(pending', x)
    <3>1. \A x : Contains(logs', x) <=> Contains(logs, x) \/ x = Head(pending)
      BY <2>1, <2>2, <2>3, ContainsAppend DEF Batch
    <3>2. \A x : Contains(pending, x) <=> x = Head(pending) \/ Contains(pending', x)
      BY <2>1, <2>2, ContainsHeadTail DEF Batch
    <3> QED
      BY <3>1, <3>2
  <2>5. NothingLost'
    <3> SUFFICES ASSUME NEW f \in Engines \ broken, NEW n \in 1..written[f]
                 PROVE  \/ Contains(logs', <<f, n>>) \/ Contains(pending', <<f, n>>)
                        \/ InBatch(wire[f], <<f, n>>)
      BY <2>1 DEF NothingLost, Contains, InBatch
    <3> QED
      BY <2>4 DEF Kept, NothingLost
  <2>6. OneAtATime' /\ SavedAll'
    BY <2>1 DEF Kept, OneAtATime, SavedAll, Contains
  <2> QED
    BY <2>5, <2>6 DEF Kept
<1>4. CASE EngineGone
  <2>1. PICK e \in serving : engine[e] = "closed" /\ wire[e] = <<>>
    BY <1>4 DEF EngineGone
  <2>2. /\ server' = "save" /\ serving' = {}
        /\ UNCHANGED <<engine, wire, written, broken, backlog, pending, logs, csv,
                       unsaved>>
    BY <1>4 DEF EngineGone, engineVars
  <2>3. \A f \in serving : f = e
    BY DEF Kept, OneAtATime
  <2>4. OneAtATime'
    BY <2>1, <2>2, <2>3 DEF Kept, OneAtATime, Contains
  <2>5. NothingLost' /\ SavedAll'
    BY <2>2 DEF Kept, NothingLost, SavedAll, Contains, InBatch
  <2> QED
    BY <2>4, <2>5 DEF Kept
<1>5. CASE ConnectionFails
  <2>1. PICK e \in serving : /\ wire' = [wire EXCEPT ![e] = <<>>]
                             /\ engine' = [engine EXCEPT ![e] = "closed"]
                             /\ broken' = broken \cup {e}
    BY <1>5 DEF ConnectionFails
  <2>2. /\ server' = "save" /\ serving' = {}
        /\ UNCHANGED <<written, backlog, pending, logs, csv, unsaved>>
    BY <1>5 DEF ConnectionFails
  <2>3. e \in Engines /\ \A f \in serving : f = e
    BY DEF TypeOK, Kept, OneAtATime
  <2>4. /\ wire'[e] = <<>> /\ engine'[e] = "closed"
        /\ \A f \in Engines : f # e => wire'[f] = wire[f] /\ engine'[f] = engine[f]
    BY <2>1, <2>3 DEF TypeOK
  <2>5. OneAtATime'
    BY <2>2, <2>3, <2>4 DEF Kept, OneAtATime, Contains
  <2>6. \A f \in Engines : f \notin broken' => f \notin broken /\ wire'[f] = wire[f]
    BY <2>1, <2>4
  <2>7. NothingLost'
    <3> SUFFICES ASSUME NEW f \in Engines, f \notin broken', NEW n \in 1..written[f]
                 PROVE  \/ Contains(logs, <<f, n>>) \/ Contains(pending, <<f, n>>)
                        \/ InBatch(wire'[f], <<f, n>>)
      BY <2>2 DEF NothingLost, Contains, InBatch
    <3> QED
      BY <2>6 DEF Kept, NothingLost
  <2>8. SavedAll'
    BY <2>2 DEF SavedAll
  <2> QED
    BY <2>5, <2>7, <2>8 DEF Kept
<1>6. CASE SaveCsv
  <2>1. /\ server = "save"
        /\ (csv' = logs /\ unsaved' = FALSE) \/ unsaved' = TRUE
        /\ UNCHANGED <<engine, wire, written, broken, backlog, serving, pending, logs>>
    BY <1>6 DEF SaveCsv, engineVars
  <2>2. OneAtATime' /\ NothingLost'
    BY <2>1, SameWires
  <2>3. SavedAll'
    BY <2>1 DEF SavedAll
  <2> QED
    BY <2>2, <2>3 DEF Kept
<1> QED
  BY <1>1, <1>2, <1>3, <1>4, <1>5, <1>6 DEF ListenerStep

LEMMA ServerKeeps == Spec => []Kept
<1>1. Init => Kept
  <2> SUFFICES ASSUME Init PROVE Kept
    OBVIOUS
  <2>1. /\ backlog = <<>> /\ serving = {} /\ server = "accept"
        /\ \A e \in Engines : engine[e] = "off" /\ wire[e] = <<>> /\ written[e] = 0
    BY DEF Init
  <2> QED
    BY <2>1 DEF Kept, NothingLost, OneAtATime, SavedAll, Contains
<1>2. TypeOK /\ Kept /\ [Next]_vars => Kept'
  <2> SUFFICES ASSUME TypeOK, Kept, [Next]_vars PROVE Kept'
    OBVIOUS
  <2>1. CASE (\E t \in Tuis : TuiConnects(t) \/ TuiLeaves(t) \/ TuiStep(t))
             \/ UNCHANGED vars
    <3>1. UNCHANGED <<engineVars, listenVars>>
      BY <2>1 DEF TuiConnects, TuiLeaves, TuiStep, TakeSnapshot, SendSnapshot, SendFails,
         Subscribe, Forward, Lag, TuiGoes, vars
    <3>2. UNCHANGED <<engine, wire, written, broken, backlog, serving, pending, logs,
                      server, unsaved, csv>>
      BY <3>1 DEF engineVars, listenVars
    <3>3. SavedAll'
      BY <3>2 DEF Kept, SavedAll
    <3> QED
      BY <3>2, <3>3, SameWires DEF Kept
  <2> QED
    BY <2>1, EngineKeeps, ListenerKeeps DEF Next
<1> QED
  BY <1>1, <1>2, ServerTypes, PTL DEF Spec

(***************************************************************************)
(* A server that has exited and could write its file has the storage in    *)
(* it, and with it every log that an engine it accepted and that has gone  *)
(* ever wrote, unless the connection failed with batches unread.           *)
(***************************************************************************)
THEOREM ExitedServerSaved == Spec => []ExitSavesSession
<1>1. TypeOK /\ Kept => ExitSavesSession
  <2> SUFFICES ASSUME TypeOK, Kept, server = "exited", ~unsaved,
                      NEW e \in Engines \ broken, engine[e] = "closed",
                      ~Contains(backlog, e), NEW n \in 1..written[e]
               PROVE  Contains(csv, <<e, n>>)
    BY DEF ExitSavesSession, Running, Kept, SavedAll
  <2>1. pending = <<>> /\ e \notin serving
    BY DEF TypeOK
  <2>2. wire[e] = <<>>
    BY <2>1 DEF Kept, OneAtATime
  <2>3. ~Contains(pending, <<e, n>>) /\ ~InBatch(wire[e], <<e, n>>)
    BY <2>1, <2>2 DEF Contains, InBatch
  <2> QED
    BY <2>3 DEF Kept, NothingLost, SavedAll
<1> QED
  BY <1>1, ServerTypes, ServerKeeps, PTL

-----------------------------------------------------------------------------
(* StoredAsWritten: induction *)

(***************************************************************************)
(* Every set of natural numbers that has a member has a least one.         *)
(***************************************************************************)
LEMMA LeastNumber ==
  ASSUME NEW T, T \subseteq Nat, T # {}
  PROVE  \E n \in T : \A m \in T : n <= m
<1> DEFINE R == OpToRel(<, Nat)
<1>1. IsWellFoundedOn(R, Nat)
  BY NatLessThanWellFounded, Zenon
<1>2. \A x, y : <<x, y>> \in R <=> x \in Nat /\ y \in Nat /\ x < y
  BY DEF OpToRel
<1> HIDE DEF R
<1>3. PICK x \in T : \A y \in T : ~ (<<y, x>> \in R)
  BY <1>1, WFMin
<1>4. ASSUME NEW m \in T PROVE x <= m
  <2>1. x \in Nat /\ m \in Nat
    OBVIOUS
  <2>2. ~ (m < x)
    BY <1>2, <1>3, <2>1
  <2> QED
    BY <2>1, <2>2
<1> QED
  BY <1>4

(***************************************************************************)
(* Induction over the natural numbers, for a set instead of a predicate.   *)
(***************************************************************************)
LEMMA Induction ==
  ASSUME NEW S, 0 \in S, \A n \in Nat : n \in S => n + 1 \in S
  PROVE  \A n \in Nat : n \in S
<1> SUFFICES ASSUME NEW k \in Nat, k \notin S PROVE FALSE
  OBVIOUS
<1> DEFINE T == {n \in Nat : n \notin S}
<1>1. PICK n \in T : \A m \in T : n <= m
  <2>1. T \subseteq Nat /\ T # {}
    OBVIOUS
  <2> HIDE DEF T
  <2> QED
    BY <2>1, LeastNumber
<1>2. n \in Nat /\ n # 0
  OBVIOUS
<1>3. n - 1 \in Nat /\ n - 1 \in S
  <2>1. n - 1 \in Nat /\ n - 1 < n
    BY <1>2
  <2> QED
    BY <2>1, <1>1
<1>4. n - 1 + 1 = n
  BY <1>2
<1> QED
  BY <1>3, <1>4

-----------------------------------------------------------------------------
(* What From returns *)

\* f is what was found up to each index.
OwnTurn(e, s, f, i) == IF i = 0 THEN <<>>
                       ELSE IF s[i][1] = e THEN Append(f[i - 1], s[i]) ELSE f[i - 1]

LEMMA OwnTurnsExist ==
  ASSUME NEW e, NEW s, NEW n \in Nat
  PROVE  \E f : f = [i \in 0..n |-> OwnTurn(e, s, f, i)]
<1> DEFINE S == {m \in Nat : \E f : f = [i \in 0..m |-> OwnTurn(e, s, f, i)]}
<1>1. 0 \in S
  <2> DEFINE f == [i \in 0..0 |-> <<>>]
  <2>1. f = [i \in 0..0 |-> OwnTurn(e, s, f, i)]
    BY DEF OwnTurn
  <2> QED
    BY <2>1
<1>2. ASSUME NEW m \in Nat, m \in S PROVE m + 1 \in S
  <2>1. PICK f : f = [i \in 0..m |-> OwnTurn(e, s, f, i)]
    BY <1>2
  <2> DEFINE g == [i \in 0..(m + 1) |-> IF i <= m THEN f[i] ELSE OwnTurn(e, s, f, i)]
  <2>2. ASSUME NEW i \in 0..(m + 1) PROVE g[i] = OwnTurn(e, s, g, i)
    <3>1. i # 0 => i - 1 \in 0..m /\ g[i - 1] = f[i - 1]
      OBVIOUS
    <3>2. OwnTurn(e, s, g, i) = OwnTurn(e, s, f, i)
      BY <3>1 DEF OwnTurn
    <3>3. i <= m => f[i] = OwnTurn(e, s, f, i)
      <4> SUFFICES ASSUME i <= m PROVE f[i] = OwnTurn(e, s, f, i)
        OBVIOUS
      <4>1. i \in 0..m
        OBVIOUS
      <4> QED
        BY <2>1, <4>1
    <3> QED
      BY <3>2, <3>3
  <2>3. g = [i \in 0..(m + 1) |-> OwnTurn(e, s, g, i)]
    BY <2>2
  <2> HIDE DEF g
  <2>4. \E h : h = [i \in 0..(m + 1) |-> OwnTurn(e, s, h, i)]
    BY <2>3, Zenon
  <2> QED
    BY <2>4
<1> HIDE DEF S
<1>3. n \in S
  BY <1>1, <1>2, Induction
<1> QED
  BY <1>3 DEF S

LEMMA FromUnfolds ==
  ASSUME NEW e, NEW s, Len(s) \in Nat
  PROVE  \E f : From(e, s) = f[Len(s)] /\ \A i \in 0..Len(s) : f[i] = OwnTurn(e, s, f, i)
<1> DEFINE f == CHOOSE f : f = [i \in 0..Len(s) |-> OwnTurn(e, s, f, i)]
<1>1. f = [i \in 0..Len(s) |-> OwnTurn(e, s, f, i)]
  BY OwnTurnsExist
<1>2. From(e, s) = f[Len(s)]
  BY DEF From, OwnTurn
<1> HIDE DEF f
<1>3. \A i \in 0..Len(s) : f[i] = OwnTurn(e, s, f, i)
  BY <1>1
<1> QED
  BY <1>2, <1>3

LEMMA FromEmpty == ASSUME NEW e PROVE From(e, <<>>) = <<>>
  BY FromUnfolds, EmptySeq DEF OwnTurn

(***************************************************************************)
(* A log at the end is found if it is one of e, and found last.            *)
(***************************************************************************)
LEMMA FromAppend ==
  ASSUME NEW T, NEW s \in Seq(T), NEW x \in T, NEW e
  PROVE  From(e, Append(s, x)) = IF x[1] = e THEN Append(From(e, s), x) ELSE From(e, s)
<1> DEFINE n == Len(s)
           r == Append(s, x)
<1>1. /\ n \in Nat /\ Len(r) = n + 1
      /\ \A i \in 1..n : r[i] = s[i]
      /\ r[n + 1] = x
  BY AppendProperties, LenProperties
<1>2. PICK f : From(e, s) = f[n] /\ \A i \in 0..n : f[i] = OwnTurn(e, s, f, i)
  BY <1>1, FromUnfolds
<1> HIDE DEF n, r
<1>3. PICK g : /\ From(e, r) = g[n + 1]
               /\ \A i \in 0..(n + 1) : g[i] = OwnTurn(e, r, g, i)
  BY <1>1, FromUnfolds
<1> DEFINE S == {i \in Nat : i <= n => f[i] = g[i]}
<1>4. 0 \in S
  BY <1>1, <1>2, <1>3 DEF OwnTurn
<1>5. ASSUME NEW i \in Nat, i \in S PROVE i + 1 \in S
  <2> SUFFICES ASSUME i + 1 <= n PROVE f[i + 1] = g[i + 1]
    OBVIOUS
  <2>1. f[i] = g[i]
    BY <1>1, <1>5
  <2>2. /\ i + 1 \in 0..n /\ i + 1 \in 0..(n + 1) /\ i + 1 \in 1..n
        /\ i + 1 # 0 /\ (i + 1) - 1 = i
    BY <1>1
  <2>3. f[i + 1] = OwnTurn(e, s, f, i + 1) /\ g[i + 1] = OwnTurn(e, r, g, i + 1)
    BY <1>2, <1>3, <2>2
  <2> QED
    BY <1>1, <2>1, <2>2, <2>3 DEF OwnTurn
<1> HIDE DEF S
<1>6. n \in S
  BY <1>1, <1>4, <1>5, Induction
<1>7. f[n] = g[n]
  BY <1>1, <1>6 DEF S
<1>8. n + 1 \in 0..(n + 1) /\ n + 1 # 0 /\ (n + 1) - 1 = n
  BY <1>1
<1>9. g[n + 1] = OwnTurn(e, r, g, n + 1)
  BY <1>3, <1>8
<1>10. g[n + 1] = IF x[1] = e THEN Append(f[n], x) ELSE f[n]
  BY <1>1, <1>7, <1>8, <1>9 DEF OwnTurn
<1> QED
  BY <1>2, <1>3, <1>10 DEF r, n

LEMMA SeqInduction ==
  ASSUME NEW T, NEW P, <<>> \in P,
         \A s \in Seq(T), x \in T : s \in P => Append(s, x) \in P
  PROVE  Seq(T) \subseteq P
<1> DEFINE S == {n \in Nat : \A s \in Seq(T) : Len(s) = n => s \in P}
<1>1. 0 \in S
  BY EmptySeq
<1>2. ASSUME NEW n \in Nat, n \in S PROVE n + 1 \in S
  <2> SUFFICES ASSUME NEW s \in Seq(T), Len(s) = n + 1 PROVE s \in P
    OBVIOUS
  <2>1. s # <<>>
    BY EmptySeq
  <2>2. PICK r \in Seq(T), x \in T : s = Append(r, x)
    BY <2>1, SequenceEmptyOrAppend
  <2>3. Len(s) = Len(r) + 1 /\ Len(r) \in Nat
    BY <2>2, AppendProperties, LenProperties
  <2>4. Len(r) = n
    BY <2>3
  <2> QED
    BY <1>2, <2>2, <2>4
<1> HIDE DEF S
<1>3. \A n \in Nat : n \in S
  BY <1>1, <1>2, Induction
<1>4. ASSUME NEW s \in Seq(T) PROVE s \in P
  BY <1>3, LenProperties DEF S
<1> QED
  BY <1>4

LEMMA ConcatAppend ==
  ASSUME NEW T, NEW s \in Seq(T), NEW t \in Seq(T), NEW x \in T
  PROVE  s \o Append(t, x) = Append(s \o t, x)
<1>1. <<x>> \in Seq(T) /\ s \o t \in Seq(T)
  BY ConcatProperties
<1>2. Append(t, x) = t \o <<x>> /\ Append(s \o t, x) = (s \o t) \o <<x>>
  BY <1>1, AppendIsConcat
<1> QED
  BY <1>1, <1>2, ConcatAssociative

LEMMA FromIsSeq ==
  ASSUME NEW T, NEW s \in Seq(T), NEW e
  PROVE  From(e, s) \in Seq(T)
<1> DEFINE P == {t \in Seq(T) : From(e, t) \in Seq(T)}
<1>1. <<>> \in P
  BY FromEmpty, EmptySeq
<1>2. ASSUME NEW t \in Seq(T), NEW x \in T, t \in P PROVE Append(t, x) \in P
  <2>1. From(e, Append(t, x)) = IF x[1] = e THEN Append(From(e, t), x) ELSE From(e, t)
    BY FromAppend
  <2>2. From(e, t) \in Seq(T)
    BY <1>2
  <2>3. Append(From(e, t), x) \in Seq(T) /\ Append(t, x) \in Seq(T)
    BY <2>2, AppendProperties
  <2> QED
    BY <2>1, <2>2, <2>3
<1> HIDE DEF P
<1>3. s \in P
  BY <1>1, <1>2, SeqInduction
<1> QED
  BY <1>3 DEF P

(***************************************************************************)
(* A batch adds all its logs to those of the engine that wrote it, and     *)
(* none to those of another one.                                           *)
(***************************************************************************)
OwnedBy(e, b) == \A i \in 1..Len(b) : b[i][1] = e

LEMMA FromConcat ==
  ASSUME NEW T, NEW s \in Seq(T), NEW b \in Seq(T), NEW o, OwnedBy(o, b), NEW e
  PROVE  From(e, s \o b) = IF e = o THEN From(e, s) \o b ELSE From(e, s)
<1> DEFINE Added(t) == From(e, s \o t) = IF e = o THEN From(e, s) \o t ELSE From(e, s)
           P == {t \in Seq(T) : OwnedBy(o, t) => Added(t)}
<1>1. <<>> \in P
  <2>1. s \o <<>> = s /\ From(e, s) \o <<>> = From(e, s)
    BY FromIsSeq, ConcatEmptySeq
  <2> QED
    BY <2>1, EmptySeq
<1>2. ASSUME NEW t \in Seq(T), NEW x \in T, t \in P PROVE Append(t, x) \in P
  <2> DEFINE r == Append(t, x)
  <2>1. /\ r \in Seq(T) /\ Len(r) = Len(t) + 1 /\ Len(t) \in Nat
        /\ \A i \in 1..Len(t) : r[i] = t[i]
        /\ r[Len(t) + 1] = x
    BY AppendProperties, LenProperties
  <2> SUFFICES ASSUME OwnedBy(o, r) PROVE Added(r)
    BY <2>1
  <2>2. x[1] = o
    <3>1. Len(t) + 1 \in 1..Len(r)
      BY <2>1
    <3> QED
      BY <2>1, <3>1 DEF OwnedBy
  <2>3. Added(t)
    <3>1. \A i \in 1..Len(t) : i \in 1..Len(r)
      BY <2>1
    <3>2. OwnedBy(o, t)
      BY <2>1, <3>1 DEF OwnedBy
    <3> QED
      BY <1>2, <3>2
  <2>4. s \o r = Append(s \o t, x) /\ s \o t \in Seq(T)
    BY ConcatAppend, ConcatProperties
  <2>5. From(e, s \o r) = IF x[1] = e THEN Append(From(e, s \o t), x) ELSE From(e, s \o t)
    <3> DEFINE u == s \o t
    <3> HIDE DEF u
    <3>1. u \in Seq(T)
      BY <2>4 DEF u
    <3>2. From(e, Append(u, x)) = IF x[1] = e THEN Append(From(e, u), x) ELSE From(e, u)
      BY <3>1, FromAppend
    <3> QED
      BY <2>4, <3>2 DEF u
  <2>6. From(e, s) \o r = Append(From(e, s) \o t, x)
    BY FromIsSeq, ConcatAppend
  <2> QED
    BY <2>2, <2>3, <2>5, <2>6
<1>3. b \in P
  <2> HIDE DEF P
  <2> QED
    BY <1>1, <1>2, SeqInduction
<1> QED
  BY <1>3

-----------------------------------------------------------------------------
(* What FlattenSeq returns *)

FlatTurn(w, f, i) == IF i = 1 THEN w[i] ELSE f[i - 1] \o w[i]

LEMMA FlatTurnsExist ==
  ASSUME NEW w, NEW n \in Nat
  PROVE  \E f : f = [i \in 1..n |-> FlatTurn(w, f, i)]
<1> DEFINE S == {m \in Nat : \E f : f = [i \in 1..m |-> FlatTurn(w, f, i)]}
<1>1. 0 \in S
  <2> DEFINE f == [i \in 1..0 |-> <<>>]
  <2>1. f = [i \in 1..0 |-> FlatTurn(w, f, i)]
    OBVIOUS
  <2> QED
    BY <2>1
<1>2. ASSUME NEW m \in Nat, m \in S PROVE m + 1 \in S
  <2>1. PICK f : f = [i \in 1..m |-> FlatTurn(w, f, i)]
    BY <1>2
  <2> DEFINE g == [i \in 1..(m + 1) |-> IF i <= m THEN f[i] ELSE FlatTurn(w, f, i)]
  <2>2. ASSUME NEW i \in 1..(m + 1) PROVE g[i] = FlatTurn(w, g, i)
    <3>1. i # 1 => i - 1 \in 1..m /\ g[i - 1] = f[i - 1]
      OBVIOUS
    <3>2. FlatTurn(w, g, i) = FlatTurn(w, f, i)
      BY <3>1 DEF FlatTurn
    <3>3. i <= m => f[i] = FlatTurn(w, f, i)
      <4> SUFFICES ASSUME i <= m PROVE f[i] = FlatTurn(w, f, i)
        OBVIOUS
      <4>1. i \in 1..m
        OBVIOUS
      <4> QED
        BY <2>1, <4>1
    <3> QED
      BY <3>2, <3>3
  <2>3. g = [i \in 1..(m + 1) |-> FlatTurn(w, g, i)]
    BY <2>2
  <2> HIDE DEF g
  <2>4. \E h : h = [i \in 1..(m + 1) |-> FlatTurn(w, h, i)]
    BY <2>3, Zenon
  <2> QED
    BY <2>4
<1> HIDE DEF S
<1>3. n \in S
  BY <1>1, <1>2, Induction
<1> QED
  BY <1>3 DEF S

LEMMA FlattenUnfolds ==
  ASSUME NEW w, Len(w) \in Nat \ {0}
  PROVE  \E f : /\ FlattenSeq(w) = f[Len(w)]
                /\ \A i \in 1..Len(w) : f[i] = FlatTurn(w, f, i)
<1> DEFINE f == CHOOSE f : f = [i \in 1..Len(w) |-> FlatTurn(w, f, i)]
<1>1. f = [i \in 1..Len(w) |-> FlatTurn(w, f, i)]
  BY FlatTurnsExist
<1>2. FlattenSeq(w) = f[Len(w)]
  BY DEF FlattenSeq, FlatTurn
<1> HIDE DEF f
<1>3. \A i \in 1..Len(w) : f[i] = FlatTurn(w, f, i)
  BY <1>1
<1> QED
  BY <1>2, <1>3

LEMMA Associative ==
  ASSUME NEW T
  PROVE  \A s, t, u \in Seq(T) : (s \o t) \o u = s \o (t \o u)
  BY ConcatAssociative

LEMMA FlattenEmpty == FlattenSeq(<<>>) = <<>>
  BY EmptySeq DEF FlattenSeq

LEMMA FlattenAppend ==
  ASSUME NEW T, NEW w \in Seq(Seq(T)), NEW b \in Seq(T)
  PROVE  FlattenSeq(Append(w, b)) = FlattenSeq(w) \o b
<1> DEFINE n == Len(w)
           r == Append(w, b)
<1>1. /\ n \in Nat /\ Len(r) = n + 1
      /\ \A i \in 1..n : r[i] = w[i]
      /\ r[n + 1] = b
  BY AppendProperties, LenProperties
<1> HIDE DEF n, r
<1>2. PICK g : /\ FlattenSeq(r) = g[n + 1]
               /\ \A i \in 1..(n + 1) : g[i] = FlatTurn(r, g, i)
  BY <1>1, FlattenUnfolds
<1>3. n + 1 \in 1..(n + 1)
  BY <1>1
<1>4. CASE n = 0
  <2>1. w = <<>>
    BY <1>4, EmptySeq DEF n
  <2>2. g[n + 1] = b
    BY <1>1, <1>2, <1>3, <1>4 DEF FlatTurn
  <2>3. <<>> \o b = b
    BY ConcatEmptySeq
  <2> QED
    BY <1>2, <2>1, <2>2, <2>3, FlattenEmpty DEF r
<1>5. CASE n # 0
  <2>1. PICK f : FlattenSeq(w) = f[n] /\ \A i \in 1..n : f[i] = FlatTurn(w, f, i)
    BY <1>1, <1>5, FlattenUnfolds DEF n
  <2> DEFINE S == {i \in Nat : i + 1 <= n => f[i + 1] = g[i + 1]}
  <2>2. 0 \in S
    <3>1. 0 + 1 = 1 /\ 1 \in 1..n /\ 1 \in 1..(n + 1)
      BY <1>1, <1>5
    <3>2. f[1] = w[1] /\ g[1] = r[1]
      BY <1>2, <2>1, <3>1 DEF FlatTurn
    <3> QED
      BY <1>1, <3>1, <3>2
  <2>3. ASSUME NEW i \in Nat, i \in S PROVE i + 1 \in S
    <3> SUFFICES ASSUME (i + 1) + 1 <= n PROVE f[(i + 1) + 1] = g[(i + 1) + 1]
      OBVIOUS
    <3>1. f[i + 1] = g[i + 1]
      BY <1>1, <2>3
    <3> DEFINE k == (i + 1) + 1
    <3>2. k \in 1..n /\ k \in 1..(n + 1) /\ k # 1 /\ k - 1 = i + 1
      BY <1>1
    <3> HIDE DEF k
    <3>3. f[k] = f[k - 1] \o w[k] /\ g[k] = g[k - 1] \o r[k]
      BY <1>2, <2>1, <3>2 DEF FlatTurn
    <3>4. f[k] = g[k]
      BY <1>1, <3>1, <3>2, <3>3
    <3> QED
      BY <3>4 DEF k
  <2> HIDE DEF S
  <2>4. n - 1 \in S /\ n - 1 + 1 = n
    BY <1>1, <1>5, <2>2, <2>3, Induction
  <2>5. f[n] = g[n]
    BY <1>1, <2>4 DEF S
  <2>6. n + 1 # 1 /\ (n + 1) - 1 = n
    BY <1>1, <1>5
  <2>7. g[n + 1] = g[n] \o r[n + 1]
    BY <1>2, <1>3, <2>6 DEF FlatTurn
  <2> QED
    BY <1>1, <1>2, <2>1, <2>5, <2>7 DEF r
<1> QED
  BY <1>4, <1>5

LEMMA FlattenIsSeq ==
  ASSUME NEW T, NEW w \in Seq(Seq(T))
  PROVE  FlattenSeq(w) \in Seq(T)
<1> DEFINE P == {v \in Seq(Seq(T)) : FlattenSeq(v) \in Seq(T)}
<1>1. <<>> \in P
  BY FlattenEmpty, EmptySeq
<1>2. ASSUME NEW v \in Seq(Seq(T)), NEW b \in Seq(T), v \in P PROVE Append(v, b) \in P
  <2>1. FlattenSeq(Append(v, b)) = FlattenSeq(v) \o b
    BY FlattenAppend
  <2>2. Append(v, b) \in Seq(Seq(T)) /\ FlattenSeq(v) \o b \in Seq(T)
    BY <1>2, AppendProperties, ConcatProperties
  <2> QED
    BY <2>1, <2>2
<1> HIDE DEF P
<1>3. w \in P
  BY <1>1, <1>2, SeqInduction
<1> QED
  BY <1>3 DEF P

(***************************************************************************)
(* What is on the wire begins with the first batch.                        *)
(***************************************************************************)
LEMMA FlattenHeadTail ==
  ASSUME NEW T
  PROVE  \A w \in Seq(Seq(T)) :
           w # <<>> => FlattenSeq(w) = Head(w) \o FlattenSeq(Tail(w))
<1> DEFINE Split(v) == v # <<>> => FlattenSeq(v) = Head(v) \o FlattenSeq(Tail(v))
           P == {v \in Seq(Seq(T)) : Split(v)}
<1>0. \A s, t, u \in Seq(T) : (s \o t) \o u = s \o (t \o u)
  BY Associative
<1>1. <<>> \in P
  BY EmptySeq
<1>2. ASSUME NEW v \in Seq(Seq(T)), NEW b \in Seq(T), v \in P PROVE Append(v, b) \in P
  <2> DEFINE r == Append(v, b)
  <2>1. r \in Seq(Seq(T)) /\ FlattenSeq(r) = FlattenSeq(v) \o b
    BY FlattenAppend, AppendProperties
  <2>2. /\ Head(r) = IF v = <<>> THEN b ELSE Head(v)
        /\ Tail(r) = IF v = <<>> THEN <<>> ELSE Append(Tail(v), b)
    BY HeadTailAppend
  <2> HIDE DEF r
  <2>3. CASE v = <<>>
    <3>1. <<>> \o b = b /\ b \o <<>> = b
      BY ConcatEmptySeq
    <3> QED
      BY <2>1, <2>2, <2>3, <3>1, FlattenEmpty DEF r
  <2>4. CASE v # <<>>
    <3>1. Head(v) \in Seq(T) /\ Tail(v) \in Seq(Seq(T))
      BY <2>4, HeadTailProperties
    <3>2. FlattenSeq(Append(Tail(v), b)) = FlattenSeq(Tail(v)) \o b
      BY <3>1, FlattenAppend
    <3>3. FlattenSeq(Tail(v)) \in Seq(T)
      BY <3>1, FlattenIsSeq
    <3>4. (Head(v) \o FlattenSeq(Tail(v))) \o b = Head(v) \o (FlattenSeq(Tail(v)) \o b)
      <4> DEFINE h == Head(v)
                 u == FlattenSeq(Tail(v))
      <4>1. h \in Seq(T) /\ u \in Seq(T)
        BY <3>1, <3>3
      <4> HIDE DEF h, u
      <4>2. (h \o u) \o b = h \o (u \o b)
        BY <4>1, <1>0, Zenon
      <4> QED
        BY <4>2 DEF h, u
    <3>5. FlattenSeq(v) = Head(v) \o FlattenSeq(Tail(v))
      BY <1>2, <2>4
    <3>6. Split(r)
      BY <2>1, <2>2, <2>4, <3>2, <3>4, <3>5
    <3> QED
      BY <2>1, <3>6 DEF r
  <2> QED
    BY <2>3, <2>4
<1> HIDE DEF P
<1>3. Seq(Seq(T)) \subseteq P
  BY <1>1, <1>2, SeqInduction
<1> QED
  BY <1>3 DEF P

-----------------------------------------------------------------------------
(* StoredAsWritten: the theorem *)

Log == Engines \X (Nat \ {0})

LEMMA LogsAssociate == \A s, t, u \in Seq(Log) : (s \o t) \o u = s \o (t \o u)
  BY Associative

\* The batches of a connection are its engine's, and so is the one being stored.
Owned == /\ \A e \in Engines : \A k \in 1..Len(wire[e]) : OwnedBy(e, wire[e][k])
         /\ \A e \in serving : OwnedBy(e, pending)

Whole(e, stream, w, n) == From(e, stream) \o FlattenSeq(w) = [k \in 1..n |-> <<e, k>>]

LEMMA WireTyped == TypeOK => \A e \in Engines : wire[e] \in Seq(Seq(Log))
<1> SUFFICES ASSUME TypeOK, NEW e \in Engines PROVE wire[e] \in Seq(Seq(Log))
  OBVIOUS
<1>1. wire[e] \in Seq(Batch \ {<<>>}) /\ Batch \ {<<>>} \subseteq Seq(Log)
  BY DEF TypeOK, Batch, Log
<1> QED
  BY <1>1, SeqMonotonic

LEMMA NumbersContinue ==
  ASSUME NEW e \in Engines, NEW m \in Nat, NEW size \in Nat
  PROVE  [k \in 1..m |-> <<e, k>>] \o [i \in 1..size |-> <<e, m + i>>] =
           [k \in 1..(m + size) |-> <<e, k>>]
<1> DEFINE s == [k \in 1..m |-> <<e, k>>]
           t == [i \in 1..size |-> <<e, m + i>>]
           r == [k \in 1..(m + size) |-> <<e, k>>]
<1>1. s \in [1..m -> Log] /\ t \in [1..size -> Log] /\ r \in [1..(m + size) -> Log]
  BY DEF Log
<1>2. s \in Seq(Log) /\ t \in Seq(Log) /\ r \in Seq(Log)
  BY <1>1, SeqDef
<1>3. Len(s) = m /\ Len(t) = size /\ Len(r) = m + size
  BY <1>1, <1>2, LenProperties
<1>4. /\ \A k \in 1..m : s[k] = <<e, k>>
      /\ \A i \in 1..size : t[i] = <<e, m + i>>
      /\ \A k \in 1..(m + size) : r[k] = <<e, k>>
  OBVIOUS
<1> HIDE DEF s, t, r
<1>5. /\ s \o t \in Seq(Log) /\ Len(s \o t) = Len(s) + Len(t)
      /\ \A i \in 1..(Len(s) + Len(t)) :
            (s \o t)[i] = IF i <= Len(s) THEN s[i] ELSE t[i - Len(s)]
  BY <1>2, ConcatProperties
<1>6. \A i \in 1..(m + size) : (s \o t)[i] = r[i]
  <2> SUFFICES ASSUME NEW i \in 1..(m + size) PROVE (s \o t)[i] = r[i]
    OBVIOUS
  <2>0. i \in 1..(Len(s) + Len(t))
    BY <1>3
  <2>1. CASE i <= m
    <3>1. i \in 1..m /\ (s \o t)[i] = s[i]
      BY <1>3, <1>5, <2>0, <2>1
    <3> QED
      BY <1>4, <3>1
  <2>2. CASE ~(i <= m)
    <3>1. i - m \in 1..size /\ m + (i - m) = i
      BY <2>2
    <3> QED
      BY <1>3, <1>4, <1>5, <2>2, <3>1
  <2> QED
    BY <2>1, <2>2
<1>7. s \o t = r
  BY <1>2, <1>3, <1>5, <1>6, SeqEqual
<1> QED
  BY <1>7 DEF s, t, r

\* An engine writes: its batch comes last.
LEMMA WholeGrows ==
  ASSUME NEW e \in Engines, NEW stream \in Seq(Log), NEW w \in Seq(Seq(Log)),
         NEW n \in Nat, NEW size \in Nat \ {0}, Whole(e, stream, w, n)
  PROVE  Whole(e, stream, Append(w, [i \in 1..size |-> <<e, n + i>>]), n + size)
<1> DEFINE b == [i \in 1..size |-> <<e, n + i>>]
           h == From(e, stream)
           f == FlattenSeq(w)
<1>1. b \in Seq(Log)
  BY BatchTyped DEF Batch, Log
<1>2. h \in Seq(Log) /\ f \in Seq(Log)
  BY FromIsSeq, FlattenIsSeq
<1>3. [k \in 1..n |-> <<e, k>>] \o b = [k \in 1..(n + size) |-> <<e, k>>]
  BY NumbersContinue
<1>4. h \o f = [k \in 1..n |-> <<e, k>>]
  BY DEF Whole
<1> HIDE DEF b, h, f
<1>5. FlattenSeq(Append(w, b)) = f \o b
  BY <1>1, FlattenAppend DEF f
<1>6. h \o (f \o b) = (h \o f) \o b
  BY <1>1, <1>2, LogsAssociate, Zenon
<1>7. h \o FlattenSeq(Append(w, b)) = [k \in 1..(n + size) |-> <<e, k>>]
  BY <1>3, <1>4, <1>5, <1>6
<1> QED
  BY <1>7 DEF Whole, h, b

\* The server reads a batch: for its engine the batch moves, for others nothing does.
LEMMA WholeMoves ==
  ASSUME NEW e, NEW stream \in Seq(Log), NEW w \in Seq(Seq(Log)), w # <<>>,
         NEW n, Whole(e, stream, w, n), OwnedBy(e, Head(w))
  PROVE  Whole(e, stream \o Head(w), Tail(w), n)
<1> DEFINE b == Head(w)
           f == FlattenSeq(Tail(w))
           h == From(e, stream)
<1>1. b \in Seq(Log) /\ Tail(w) \in Seq(Seq(Log))
  BY HeadTailProperties
<1>2. f \in Seq(Log) /\ h \in Seq(Log)
  BY <1>1, FromIsSeq, FlattenIsSeq
<1>3. FlattenSeq(w) = b \o f
  BY FlattenHeadTail
<1>4. OwnedBy(e, b)
  OBVIOUS
<1>5. h \o FlattenSeq(w) = [k \in 1..n |-> <<e, k>>]
  BY DEF Whole
<1> HIDE DEF b, f, h
<1>6. From(e, stream \o b) = h \o b
  <2>1. From(e, stream \o b) = IF e = e THEN From(e, stream) \o b ELSE From(e, stream)
    BY <1>1, <1>4, FromConcat
  <2> QED
    BY <2>1 DEF h
<1>7. (h \o b) \o f = h \o (b \o f)
  BY <1>1, <1>2, LogsAssociate, Zenon
<1>8. From(e, stream \o b) \o f = [k \in 1..n |-> <<e, k>>]
  BY <1>3, <1>5, <1>6, <1>7
<1> QED
  BY <1>8 DEF Whole, b, f

LEMMA WholeStays ==
  ASSUME NEW e, NEW o, e # o, NEW stream \in Seq(Log), NEW w, NEW n,
         NEW b \in Seq(Log), OwnedBy(o, b), Whole(e, stream, w, n)
  PROVE  Whole(e, stream \o b, w, n)
<1>1. From(e, stream \o b) = IF e = o THEN From(e, stream) \o b ELSE From(e, stream)
  BY FromConcat
<1> QED
  BY <1>1 DEF Whole

\* The connection of a broken engine is over.
StoredInv == /\ StoredAsWritten /\ Owned
             /\ \A e \in broken : engine[e] = "closed"

LEMMA StoredUnchanged ==
  ASSUME StoredInv, UNCHANGED <<wire, written, broken, pending, logs>>,
         serving' \subseteq serving,
         \A e \in broken : engine[e] = "closed" => engine'[e] = "closed"
  PROVE  StoredInv'
<1>1. StoredAsWritten'
  BY DEF StoredInv, StoredAsWritten
<1>2. Owned'
  BY DEF StoredInv, Owned
<1> QED
  BY <1>1, <1>2 DEF StoredInv

\* In terms of Whole, which hides what is done to the sequences.
LEMMA StoredIsWhole ==
  /\ StoredAsWritten <=> \A e \in Engines : \E n \in 0..written[e] :
       Whole(e, logs \o pending, wire[e], n) /\ (n = written[e] \/ e \in broken)
  /\ StoredAsWritten' <=> \A e \in Engines : \E n \in 0..written'[e] :
       Whole(e, logs' \o pending', wire'[e], n) /\ (n = written'[e] \/ e \in broken')
  BY DEF StoredAsWritten, Whole

\* Logs go from the wire to the storage.
LEMMA StoredMoves ==
  ASSUME StoredAsWritten, UNCHANGED <<written, broken>>,
         \A e \in Engines : \A n \in 0..written[e] :
           Whole(e, logs \o pending, wire[e], n) =>
             Whole(e, logs' \o pending', wire'[e], n)
  PROVE  StoredAsWritten'
<1> SUFFICES ASSUME NEW e \in Engines
             PROVE  \E n \in 0..written'[e] : /\ Whole(e, logs' \o pending', wire'[e], n)
                                              /\ n = written'[e] \/ e \in broken'
  BY StoredIsWhole, Zenon
<1>1. PICK n \in 0..written[e] : /\ Whole(e, logs \o pending, wire[e], n)
                                 /\ n = written[e] \/ e \in broken
  BY StoredIsWhole, Zenon
<1>2. Whole(e, logs' \o pending', wire'[e], n)
  BY <1>1, Zenon
<1> QED
  BY <1>1, <1>2, Zenon

\* What comes before the end of whole logs is whole.
LEMMA WholeBegins ==
  ASSUME NEW e \in Engines, NEW h \in Seq(Log), NEW f \in Seq(Log), NEW n \in Nat,
         h \o f = [k \in 1..n |-> <<e, k>>]
  PROVE  Len(h) \in 0..n /\ h = [k \in 1..Len(h) |-> <<e, k>>]
<1> DEFINE r == [k \in 1..n |-> <<e, k>>]
           m == Len(h)
           q == [k \in 1..m |-> <<e, k>>]
<1>1. m \in Nat
  BY LenProperties
<1>2. r \in [1..n -> Log] /\ q \in [1..m -> Log]
  BY <1>1 DEF Log
<1>3. r \in Seq(Log) /\ q \in Seq(Log) /\ Len(r) = n /\ Len(q) = m
  BY <1>1, <1>2, SeqDef, LenProperties
<1>4. (\A k \in 1..n : r[k] = <<e, k>>) /\ (\A k \in 1..m : q[k] = <<e, k>>)
  OBVIOUS
<1>5. h \o f = r
  OBVIOUS
<1> HIDE DEF r, q
<1>6. /\ Len(r) = m + Len(f) /\ Len(f) \in Nat
      /\ \A i \in 1..(m + Len(f)) : r[i] = IF i <= m THEN h[i] ELSE f[i - m]
  BY <1>5, ConcatProperties, LenProperties
<1> HIDE DEF m
<1>7. m <= n
  BY <1>1, <1>3, <1>6
<1>8. \A i \in 1..m : h[i] = q[i]
  <2> SUFFICES ASSUME NEW i \in 1..m PROVE h[i] = q[i]
    OBVIOUS
  <2>1. i \in 1..n /\ i \in 1..(m + Len(f)) /\ i <= m
    BY <1>1, <1>6, <1>7
  <2> QED
    BY <1>4, <1>6, <2>1
<1>9. h = q
  BY <1>3, <1>8, SeqEqual DEF m
<1> QED
  BY <1>1, <1>7, <1>9 DEF m, q

LEMMA StoredInit == Init => StoredInv
<1> SUFFICES ASSUME Init PROVE StoredInv
  OBVIOUS
<1>1. Len(<<>>) = 0 /\ <<>> \o <<>> = <<>>
  BY EmptySeq, ConcatEmptySeq
<1>2. ASSUME NEW e \in Engines
      PROVE  \E n \in 0..written[e] : /\ Whole(e, logs \o pending, wire[e], n)
                                      /\ n = written[e] \/ e \in broken
  <2>1. /\ logs \o pending = <<>> /\ wire[e] = <<>> /\ written[e] = 0
    BY <1>1 DEF Init
  <2>2. [k \in 1..0 |-> <<e, k>>] = <<>>
    OBVIOUS
  <2>3. Whole(e, logs \o pending, wire[e], 0)
    BY <1>1, <2>1, <2>2, FromEmpty, FlattenEmpty DEF Whole
  <2>4. 0 \in 0..written[e]
    BY <2>1
  <2> QED
    BY <2>1, <2>3, <2>4, Zenon
<1>3. Owned /\ broken = {}
  BY <1>1 DEF Init, Owned
<1> QED
  BY <1>2, <1>3, StoredIsWhole DEF StoredInv

LEMMA EngineStores ==
  ASSUME TypeOK, StoredInv, NEW e \in Engines,
         EngineConnects(e) \/ EngineWrites(e) \/ EngineCloses(e)
  PROVE  StoredInv'
<1>1. CASE EngineConnects(e) \/ EngineCloses(e)
  <2>1. UNCHANGED <<wire, written, broken, pending, logs, serving>>
    BY <1>1 DEF EngineConnects, EngineCloses, listenVars
  <2>2. \/ engine' = [engine EXCEPT ![e] = "open"] /\ engine[e] = "off"
        \/ engine' = [engine EXCEPT ![e] = "closed"]
    BY <1>1 DEF EngineConnects, EngineCloses
  <2>3. \A f \in broken : engine[f] = "closed" => engine'[f] = "closed"
    BY <2>2 DEF TypeOK
  <2> QED
    BY <2>1, <2>3, StoredUnchanged
<1>2. CASE EngineWrites(e)
  <2>1. PICK size \in 1..BatchLimit :
          /\ wire' = [wire EXCEPT ![e] =
                        Append(@, [i \in 1..size |-> <<e, written[e] + i>>])]
          /\ written' = [written EXCEPT ![e] = @ + size]
    BY <1>2 DEF EngineWrites
  <2> DEFINE b == [i \in 1..size |-> <<e, written[e] + i>>]
  <2>2. /\ size \in Nat \ {0} /\ written[e] \in Nat
        /\ wire \in [Engines -> Seq(Batch \ {<<>>})] /\ written \in [Engines -> Nat]
    BY ServerAssumption DEF TypeOK
  <2>3. UNCHANGED <<engine, broken, pending, logs, serving>> /\ engine[e] = "open"
    BY <1>2 DEF EngineWrites, listenVars
  <2>4. /\ wire'[e] = Append(wire[e], b) /\ written'[e] = written[e] + size
        /\ \A f \in Engines : f # e => wire'[f] = wire[f] /\ written'[f] = written[f]
    BY <2>1, <2>2
  <2>5. logs \o pending \in Seq(Log)
    BY ConcatProperties DEF TypeOK, Batch, Log
  <2>6. Whole(e, logs \o pending, wire[e], written[e])
    <3>1. e \notin broken
      BY <2>3 DEF StoredInv
    <3> QED
      BY <3>1, StoredIsWhole, Zenon DEF StoredInv
  <2>7. Whole(e, logs \o pending, Append(wire[e], b), written[e] + size)
    BY <2>2, <2>5, <2>6, WholeGrows, WireTyped
  <2>8. OwnedBy(e, b)
    <3>1. b \in Seq(Log) /\ DOMAIN b = 1..size
      BY <2>2, BatchTyped DEF Batch, Log
    <3>2. \A i \in 1..size : b[i][1] = e
      OBVIOUS
    <3> HIDE DEF b
    <3>3. DOMAIN b = 1..Len(b)
      BY <3>1, LenProperties
    <3> QED
      BY <3>1, <3>2, <3>3 DEF OwnedBy
  <2> HIDE DEF b
  <2>9. StoredAsWritten'
    <3> SUFFICES ASSUME NEW f \in Engines
                 PROVE  \E n \in 0..written'[f] :
                          /\ Whole(f, logs' \o pending', wire'[f], n)
                          /\ n = written'[f] \/ f \in broken'
      BY StoredIsWhole, Zenon
    <3>1. CASE f = e
      <4>1. written'[e] \in 0..written'[e]
        BY <2>2, <2>4
      <4>2. Whole(e, logs' \o pending', wire'[e], written'[e])
        BY <2>3, <2>4, <2>7
      <4> QED
        BY <3>1, <4>1, <4>2, Zenon
    <3>2. CASE f # e
      <4>1. PICK n \in 0..written[f] : /\ Whole(f, logs \o pending, wire[f], n)
                                       /\ n = written[f] \/ f \in broken
        BY StoredIsWhole, Zenon DEF StoredInv
      <4>2. wire'[f] = wire[f] /\ written'[f] = written[f]
        BY <2>4, <3>2
      <4>3. Whole(f, logs' \o pending', wire'[f], n)
        BY <2>3, <4>1, <4>2
      <4> QED
        BY <2>3, <4>1, <4>2, <4>3, Zenon
    <3> QED
      BY <3>1, <3>2
  <2>10. Owned'
    <3>1. \A k \in 1..Len(wire'[e]) : OwnedBy(e, wire'[e][k])
      <4>1. /\ Len(Append(wire[e], b)) = Len(wire[e]) + 1 /\ Len(wire[e]) \in Nat
            /\ \A k \in 1..Len(wire[e]) : Append(wire[e], b)[k] = wire[e][k]
            /\ Append(wire[e], b)[Len(wire[e]) + 1] = b
        BY <2>2, AppendProperties, LenProperties
      <4>2. \A k \in 1..(Len(wire[e]) + 1) : k \in 1..Len(wire[e]) \/ k = Len(wire[e]) + 1
        BY <4>1
      <4> QED
        BY <2>4, <2>8, <4>1, <4>2 DEF StoredInv, Owned
    <3>2. \A f \in Engines : f # e => \A k \in 1..Len(wire'[f]) : OwnedBy(f, wire'[f][k])
      BY <2>4 DEF StoredInv, Owned
    <3>3. \A f \in serving' : OwnedBy(f, pending')
      BY <2>3 DEF StoredInv, Owned
    <3> QED
      BY <3>1, <3>2, <3>3 DEF Owned
  <2> QED
    BY <2>3, <2>9, <2>10 DEF StoredInv
<1> QED
  BY <1>1, <1>2

LEMMA ListenerStores ==
  ASSUME TypeOK, Kept, StoredInv, ListenerStep
  PROVE  StoredInv'
<1>0. /\ logs \in Seq(Log) /\ pending \in Seq(Log)
      /\ wire \in [Engines -> Seq(Batch \ {<<>>})]
      /\ \A e \in Engines : wire[e] \in Seq(Seq(Log))
      /\ serving \subseteq Engines /\ \A e, f \in serving : e = f
  BY WireTyped DEF TypeOK, Batch, Log, Kept, OneAtATime
<1>1. CASE Accept
  <2>1. pending = <<>> /\ UNCHANGED <<engine, wire, written, broken, pending, logs>>
    BY <1>1 DEF Accept, TypeOK, engineVars
  <2>2. StoredAsWritten'
    BY <2>1 DEF StoredInv, StoredAsWritten
  <2>3. Len(<<>>) = 0
    BY EmptySeq
  <2>4. Owned'
    BY <2>1, <2>3 DEF StoredInv, Owned, OwnedBy
  <2> QED
    BY <2>1, <2>2, <2>4 DEF StoredInv
<1>2. CASE ReadBatch
  <2>1. PICK e \in serving : /\ wire[e] # <<>>
                             /\ pending' = Head(wire[e])
                             /\ wire' = [wire EXCEPT ![e] = Tail(@)]
    BY <1>2 DEF ReadBatch
  <2>2. /\ pending = <<>> /\ UNCHANGED <<engine, written, broken, logs, serving>>
    BY <1>2 DEF ReadBatch, TypeOK
  <2>3. e \in Engines /\ wire[e] \in Seq(Seq(Log))
    BY <1>0
  <2>4. /\ Head(wire[e]) \in Seq(Log) /\ Tail(wire[e]) \in Seq(Seq(Log))
        /\ Len(Tail(wire[e])) = Len(wire[e]) - 1
        /\ \A k \in 1..Len(Tail(wire[e])) : Tail(wire[e])[k] = wire[e][k + 1]
        /\ Head(wire[e]) = wire[e][1] /\ Len(wire[e]) \in Nat /\ Len(wire[e]) # 0
    BY <2>1, <2>3, HeadTailProperties, EmptySeq
  <2>5. OwnedBy(e, Head(wire[e]))
    <3>1. 1 \in 1..Len(wire[e])
      BY <2>4
    <3> QED
      BY <2>3, <2>4, <3>1 DEF StoredInv, Owned
  <2>6. /\ wire'[e] = Tail(wire[e])
        /\ \A f \in Engines : f # e => wire'[f] = wire[f]
    BY <1>0, <2>1, <2>3
  <2>7. logs \o pending = logs
    BY <1>0, <2>2, ConcatEmptySeq
  <2>8. \A n : Whole(e, logs, wire[e], n) =>
               Whole(e, logs \o Head(wire[e]), Tail(wire[e]), n)
    BY <1>0, <2>1, <2>3, <2>5, WholeMoves
  <2>9. \A f \in Engines : f # e =>
          \A n : Whole(f, logs, wire[f], n) => Whole(f, logs \o Head(wire[e]), wire[f], n)
    BY <1>0, <2>4, <2>5, WholeStays
  <2>10. \A f \in Engines : \A n \in 0..written[f] :
           Whole(f, logs \o pending, wire[f], n) =>
             Whole(f, logs' \o pending', wire'[f], n)
    BY <2>1, <2>2, <2>6, <2>7, <2>8, <2>9
  <2>11. StoredAsWritten'
    BY <2>2, <2>10, StoredMoves DEF StoredInv
  <2>12. Owned'
    <3>1. \A k \in 1..Len(wire'[e]) : OwnedBy(e, wire'[e][k])
      <4>1. \A k \in 1..(Len(wire[e]) - 1) : k + 1 \in 1..Len(wire[e])
        BY <2>4
      <4> QED
        BY <2>3, <2>4, <2>6, <4>1 DEF StoredInv, Owned
    <3>2. \A f \in Engines : f # e => \A k \in 1..Len(wire'[f]) : OwnedBy(f, wire'[f][k])
      BY <2>6 DEF StoredInv, Owned
    <3>3. \A f \in serving' : OwnedBy(f, pending')
      BY <1>0, <2>1, <2>2, <2>5
    <3> QED
      BY <3>1, <3>2, <3>3 DEF Owned
  <2> QED
    BY <2>2, <2>11, <2>12 DEF StoredInv
<1>3. CASE StoreLog
  <2>1. /\ logs' = Append(logs, Head(pending)) /\ pending' = Tail(pending)
        /\ UNCHANGED <<engine, wire, written, broken, serving>> /\ pending # <<>>
    BY <1>3 DEF StoreLog, engineVars, TypeOK
  <2>2. /\ Head(pending) \in Log /\ Tail(pending) \in Seq(Log)
        /\ Len(Tail(pending)) = Len(pending) - 1
        /\ \A i \in 1..Len(Tail(pending)) : Tail(pending)[i] = pending[i + 1]
        /\ Len(pending) \in Nat
    BY <1>0, <2>1, HeadTailProperties, LenProperties
  <2>3. logs' \o pending' = logs \o pending
    <3> DEFINE x == Head(pending)
               r == Tail(pending)
    <3>1. x \in Log /\ r \in Seq(Log) /\ <<x>> \in Seq(Log)
      BY <2>2
    <3>2. pending = <<x>> \o r
      BY <1>0, <2>1
    <3> HIDE DEF x, r
    <3>3. Append(logs, x) = logs \o <<x>>
      BY <1>0, <3>1, AppendIsConcat
    <3>4. (logs \o <<x>>) \o r = logs \o (<<x>> \o r)
      BY <1>0, <3>1, LogsAssociate, Zenon
    <3> QED
      BY <2>1, <3>2, <3>3, <3>4 DEF x, r
  <2>4. StoredAsWritten'
    BY <2>1, <2>3, StoredMoves DEF StoredInv
  <2>5. Owned'
    <3>1. \A i \in 1..(Len(pending) - 1) : i + 1 \in 1..Len(pending)
      BY <2>2
    <3>2. ASSUME NEW e \in serving PROVE OwnedBy(e, Tail(pending))
      BY <2>2, <3>1 DEF StoredInv, Owned, OwnedBy
    <3> QED
      BY <2>1, <3>2 DEF StoredInv, Owned
  <2> QED
    BY <2>1, <2>4, <2>5 DEF StoredInv
<1>4. CASE EngineGone \/ SaveCsv
  BY <1>4, StoredUnchanged DEF EngineGone, SaveCsv, engineVars
<1>5. CASE ConnectionFails
  <2>1. PICK e \in serving : /\ wire' = [wire EXCEPT ![e] = <<>>]
                             /\ engine' = [engine EXCEPT ![e] = "closed"]
                             /\ broken' = broken \cup {e}
    BY <1>5 DEF ConnectionFails
  <2>2. pending = <<>> /\ serving' = {} /\ UNCHANGED <<written, pending, logs>>
    BY <1>5 DEF ConnectionFails, TypeOK
  <2>3. /\ e \in Engines /\ wire'[e] = <<>> /\ engine'[e] = "closed" /\ e \in broken'
        /\ \A f \in Engines : f # e =>
             /\ wire'[f] = wire[f] /\ engine'[f] = engine[f]
             /\ f \in broken' <=> f \in broken
    BY <1>0, <2>1 DEF TypeOK
  <2>4. \E n \in 0..written'[e] : Whole(e, logs' \o pending', wire'[e], n)
    <3> DEFINE g == From(e, logs)
               f == FlattenSeq(wire[e])
    <3>1. PICK n \in 0..written[e] : Whole(e, logs \o pending, wire[e], n)
      BY <2>3, StoredIsWhole, Zenon DEF StoredInv
    <3>2. n \in Nat /\ written[e] \in Nat
      BY <2>3 DEF TypeOK
    <3>3. logs \o pending = logs /\ logs' \o pending' = logs
      BY <1>0, <2>2, ConcatEmptySeq
    <3>4. g \in Seq(Log) /\ f \in Seq(Log)
      BY <1>0, <2>3, FromIsSeq, FlattenIsSeq
    <3>5. g \o f = [k \in 1..n |-> <<e, k>>]
      BY <3>1, <3>3 DEF Whole
    <3> HIDE DEF g, f
    <3>6. Len(g) \in 0..n /\ g = [k \in 1..Len(g) |-> <<e, k>>]
      BY <2>3, <3>2, <3>4, <3>5, WholeBegins
    <3>7. g \o <<>> = g
      BY <3>4, ConcatEmptySeq
    <3>8. Whole(e, logs, <<>>, Len(g))
      BY <3>6, <3>7, FlattenEmpty DEF Whole, g
    <3>9. Len(g) \in 0..written'[e]
      BY <2>2, <3>2, <3>6
    <3> QED
      BY <2>3, <3>3, <3>8, <3>9, Zenon
  <2>5. StoredAsWritten'
    <3> SUFFICES ASSUME NEW f \in Engines
                 PROVE  \E n \in 0..written'[f] :
                          /\ Whole(f, logs' \o pending', wire'[f], n)
                          /\ n = written'[f] \/ f \in broken'
      BY StoredIsWhole, Zenon
    <3>1. CASE f = e
      BY <2>3, <2>4, <3>1, Zenon
    <3>2. CASE f # e
      <4>1. PICK n \in 0..written[f] : /\ Whole(f, logs \o pending, wire[f], n)
                                       /\ n = written[f] \/ f \in broken
        BY StoredIsWhole, Zenon DEF StoredInv
      <4>2. wire'[f] = wire[f] /\ (f \in broken' <=> f \in broken)
        BY <2>3, <3>2
      <4>3. Whole(f, logs' \o pending', wire'[f], n)
        BY <2>2, <4>1, <4>2
      <4> QED
        BY <2>2, <4>1, <4>2, <4>3, Zenon
    <3> QED
      BY <3>1, <3>2
  <2>6. Owned'
    <3>1. Len(<<>>) = 0
      BY EmptySeq
    <3>2. \A k \in 1..Len(wire'[e]) : OwnedBy(e, wire'[e][k])
      BY <2>3, <3>1
    <3>3. \A f \in Engines : f # e => \A k \in 1..Len(wire'[f]) : OwnedBy(f, wire'[f][k])
      BY <2>3 DEF StoredInv, Owned
    <3> QED
      BY <2>2, <3>2, <3>3 DEF Owned
  <2>7. \A f \in broken' : engine'[f] = "closed"
    BY <2>1, <2>3 DEF StoredInv, TypeOK
  <2> QED
    BY <2>5, <2>6, <2>7 DEF StoredInv
<1> QED
  BY <1>1, <1>2, <1>3, <1>4, <1>5 DEF ListenerStep

LEMMA ServerStores == Spec => []StoredInv
<1>1. TypeOK /\ Kept /\ StoredInv /\ [Next]_vars => StoredInv'
  <2> SUFFICES ASSUME TypeOK, Kept, StoredInv, [Next]_vars PROVE StoredInv'
    OBVIOUS
  <2>1. CASE (\E t \in Tuis : TuiConnects(t) \/ TuiLeaves(t) \/ TuiStep(t))
             \/ UNCHANGED vars
    <3>1. UNCHANGED <<engineVars, listenVars>>
      BY <2>1 DEF TuiConnects, TuiLeaves, TuiStep, TakeSnapshot, SendSnapshot, SendFails,
         Subscribe, Forward, Lag, TuiGoes, vars
    <3> QED
      BY <3>1, StoredUnchanged DEF engineVars, listenVars
  <2> QED
    BY <2>1, EngineStores, ListenerStores DEF Next
<1> QED
  BY <1>1, StoredInit, ServerTypes, ServerKeeps, PTL DEF Spec

(***************************************************************************)
(* The storage, the batch being stored and the wire together are what each *)
(* engine wrote: every log, once, in order; of an engine whose connection  *)
(* failed, what it wrote up to some point.                                 *)
(***************************************************************************)
THEOREM StorageKeepsAll == Spec => []StoredAsWritten
<1>1. StoredInv => StoredAsWritten
  BY DEF StoredInv
<1> QED
  BY <1>1, ServerStores, PTL

-----------------------------------------------------------------------------
(* The server is a log stream *)

\* What a subscribed TUI was not sent, though it came after, is overwritten.
KeptUp == \A t \in Tuis : tui[t] = "receive" =>
  \A m \in since[t] + 1 .. cursor[t] - 1 : m \in ToSet(got[t]) \/ m + Capacity <= Len(logs)

LEMMA TuiKeepsUp ==
  ASSUME TypeOK, SeesStorage, KeptUp, NEW t \in Tuis,
         TuiConnects(t) \/ TuiLeaves(t) \/ TuiStep(t)
  PROVE  KeptUp'
<1> DEFINE N == Len(logs)
<1>1. N \in Nat /\ logs' = logs
  BY LenProperties DEF TypeOK, Batch, TuiConnects, TuiLeaves, TuiStep, TakeSnapshot,
     SendSnapshot, SendFails, Subscribe, Forward, Lag, TuiGoes, listenVars
<1>2. /\ tui \in [Tuis -> TuiStates] /\ cursor \in [Tuis -> Nat \ {0}]
      /\ since \in [Tuis -> Nat] /\ got \in [Tuis -> Seq(Nat \ {0})]
  BY DEF TypeOK
<1>3. \A u \in Tuis \ {t} : /\ tui'[u] = tui[u] /\ cursor'[u] = cursor[u]
                            /\ since'[u] = since[u] /\ got'[u] = got[u]
  BY <1>2 DEF TuiConnects, TuiLeaves, TuiStep, TakeSnapshot, SendSnapshot, SendFails,
     Subscribe, Forward, Lag, TuiGoes
<1> SUFFICES ASSUME tui'[t] = "receive", NEW m \in since'[t] + 1 .. cursor'[t] - 1
             PROVE  m \in ToSet(got'[t]) \/ m + Capacity <= N
  BY <1>1, <1>3 DEF KeptUp
<1>4. tui[t] = "receive" =>
        \A k \in since[t] + 1 .. cursor[t] - 1 : k \in ToSet(got[t]) \/ k + Capacity <= N
  BY DEF KeptUp
<1>5. CASE TuiLeaves(t)
  BY <1>4, <1>5 DEF TuiLeaves
<1>6. CASE TuiConnects(t) \/ TakeSnapshot(t) \/ SendSnapshot(t) \/ SendFails(t)
  BY <1>2, <1>6 DEF TuiConnects, TakeSnapshot, SendSnapshot, SendFails, TuiGoes
<1>7. CASE Subscribe(t)
  <2>1. since'[t] = N /\ cursor'[t] = N + 1
    BY <1>2, <1>7 DEF Subscribe
  <2> QED
    BY <1>1, <2>1
<1>8. CASE Forward(t)
  <2>1. /\ tui[t] = "receive" /\ since'[t] = since[t] /\ cursor'[t] = cursor[t] + 1
        /\ got'[t] = Append(got[t], cursor[t])
    BY <1>2, <1>8 DEF Forward, TuiGoes
  <2>2. ToSet(got'[t]) = ToSet(got[t]) \cup {cursor[t]}
    BY <1>2, <2>1, ToSetAppend
  <2>3. m = cursor[t] \/ m \in since[t] + 1 .. cursor[t] - 1
    <3>1. cursor[t] \in Nat /\ since[t] \in Nat
      BY <1>2
    <3> QED
      BY <2>1, <3>1
  <2> QED
    BY <1>4, <2>1, <2>2, <2>3
<1>9. CASE Lag(t)
  <2>1. /\ tui[t] = "receive" /\ UNCHANGED <<since, got>> /\ cursor'[t] = Oldest
        /\ cursor[t] < Oldest
    BY <1>2, <1>9 DEF Lag, TuiGoes
  <2>2. Oldest = N - Capacity + 1 /\ Capacity \in Nat /\ cursor[t] \in Nat /\ since[t] \in Nat
    BY <1>1, <1>2, <2>1, ServerAssumption DEF Oldest
  <2>3. m \in since[t] + 1 .. cursor[t] - 1 \/ m + Capacity <= N
    BY <1>1, <2>1, <2>2
  <2> QED
    BY <1>4, <2>1, <2>3
<1> QED
  BY <1>5, <1>6, <1>7, <1>8, <1>9 DEF TuiStep

LEMMA ServerKeptUp == Spec => []KeptUp
<1>1. Init => KeptUp
  BY DEF Init, KeptUp
<1>2. TypeOK /\ SeesStorage /\ KeptUp /\ [Next]_vars => KeptUp'
  <2> SUFFICES ASSUME TypeOK, SeesStorage, KeptUp, [Next]_vars PROVE KeptUp'
    OBVIOUS
  <2>1. CASE \E t \in Tuis : TuiConnects(t) \/ TuiLeaves(t) \/ TuiStep(t)
    BY <2>1, TuiKeepsUp
  <2>2. CASE ~ \E t \in Tuis : TuiConnects(t) \/ TuiLeaves(t) \/ TuiStep(t)
    <3>1. UNCHANGED tuiVars /\ Len(logs) \in Nat /\ Len(logs') \in Nat
          /\ Len(logs) <= Len(logs')
      BY <2>2, LogsOnlyGrow
    <3>2. Capacity \in Nat /\ \A t \in Tuis : since[t] \in Nat /\ cursor[t] \in Nat
      BY ServerAssumption DEF TypeOK
    <3>3. \A m \in Nat : m + Capacity <= Len(logs) => m + Capacity <= Len(logs')
      BY <3>1, <3>2
    <3>4. \A t \in Tuis : \A m \in since[t] + 1 .. cursor[t] - 1 : m \in Nat
      BY <3>2
    <3> QED
      BY <3>1, <3>3, <3>4 DEF KeptUp, tuiVars
  <2> QED
    BY <2>1, <2>2
<1> QED
  BY <1>1, <1>2, ServerTypes, ServerSees, PTL DEF Spec

LEMMA FromIsShort ==
  ASSUME NEW s \in Seq(Log), NEW e
  PROVE  Len(From(e, s)) <= Len(s)
<1> DEFINE P == {r \in Seq(Log) : Len(From(e, r)) <= Len(r)}
<1>1. <<>> \in P
  BY FromEmpty, EmptySeq
<1>2. ASSUME NEW r \in Seq(Log), NEW y \in Log, r \in P PROVE Append(r, y) \in P
  <2> DEFINE h == From(e, r)
             u == Append(r, y)
  <2>1. h \in Seq(Log) /\ Len(h) \in Nat /\ Len(r) \in Nat
    BY FromIsSeq, LenProperties
  <2>2. From(e, u) = IF y[1] = e THEN Append(h, y) ELSE h
    BY FromAppend
  <2>3. u \in Seq(Log) /\ Len(u) = Len(r) + 1
    BY AppendProperties
  <2>4. Len(h) <= Len(r)
    BY <1>2
  <2> HIDE DEF h, u
  <2>5. Len(Append(h, y)) = Len(h) + 1
    BY <2>1, AppendProperties
  <2>6. Len(From(e, u)) <= Len(u)
    BY <2>1, <2>2, <2>3, <2>4, <2>5
  <2> QED
    BY <2>3, <2>6 DEF u
<1> HIDE DEF P
<1>3. s \in P
  BY <1>1, <1>2, SeqInduction
<1> QED
  BY <1>3 DEF P

LEMMA ContainsFrom ==
  ASSUME NEW s \in Seq(Log), NEW x \in Log
  PROVE  Contains(From(x[1], s), x) <=> Contains(s, x)
<1> DEFINE P == {r \in Seq(Log) : Contains(From(x[1], r), x) <=> Contains(r, x)}
<1>1. <<>> \in P
  BY FromEmpty, EmptySeq
<1>2. ASSUME NEW r \in Seq(Log), NEW y \in Log, r \in P PROVE Append(r, y) \in P
  <2> DEFINE h == From(x[1], r)
  <2>1. h \in Seq(Log) /\ Append(r, y) \in Seq(Log)
    BY FromIsSeq, AppendProperties
  <2>2. From(x[1], Append(r, y)) = IF y[1] = x[1] THEN Append(h, y) ELSE h
    BY FromAppend
  <2>3. Contains(Append(r, y), x) <=> Contains(r, x) \/ x = y
    BY ContainsAppend
  <2>4. Contains(h, x) <=> Contains(r, x)
    BY <1>2
  <2> HIDE DEF h
  <2>5. Contains(Append(h, y), x) <=> Contains(h, x) \/ x = y
    BY <2>1, ContainsAppend
  <2> QED
    BY <2>1, <2>2, <2>3, <2>4, <2>5
<1> HIDE DEF P
<1>3. s \in P
  BY <1>1, <1>2, SeqInduction
<1> QED
  BY <1>3 DEF P

\* The log about to be stored is the next one of its engine.
LEMMA NextOfItsEngine ==
  ASSUME TypeOK, StoredInv, pending # <<>>
  PROVE  \E e \in Engines, n \in 1 .. Len(logs) + 1 :
           /\ Head(pending) = <<e, n>>
           /\ n = 1 \/ Contains(logs, <<e, n - 1>>)
           /\ ~Contains(logs, <<e, n>>)
<1>1. /\ logs \in Seq(Log) /\ pending \in Seq(Log) /\ Head(pending) \in Log
      /\ pending[1] = Head(pending) /\ Len(pending) \in Nat \ {0}
  BY HeadTailProperties, EmptySeq DEF TypeOK, Batch, Log
<1>2. PICK e \in Engines, n \in Nat \ {0} : Head(pending) = <<e, n>>
  BY <1>1 DEF Log
<1> DEFINE h == From(e, logs)
           f == FlattenSeq(wire[e])
           k == Len(h)
<1>3. h \in Seq(Log) /\ f \in Seq(Log) /\ k \in Nat
  BY <1>1, FromIsSeq, FlattenIsSeq, WireTyped, LenProperties
<1>4. OwnedBy(e, pending)
  <2>1. PICK o \in serving : OwnedBy(o, pending)
    BY DEF TypeOK, StoredInv, Owned
  <2>2. 1 \in 1..Len(pending)
    BY <1>1
  <2>3. pending[1][1] = o /\ pending[1][1] = e
    BY <1>1, <1>2, <2>1, <2>2 DEF OwnedBy
  <2> QED
    BY <2>1, <2>3
<1>5. From(e, logs \o pending) = h \o pending
  <2>1. From(e, logs \o pending) = IF e = e THEN h \o pending ELSE h
    BY <1>1, <1>4, FromConcat
  <2> QED
    BY <2>1
<1>6. PICK last \in 0..written[e] :
        (h \o pending) \o f = [i \in 1..last |-> <<e, i>>]
  BY <1>5 DEF StoredInv, StoredAsWritten
<1> DEFINE r == [i \in 1..last |-> <<e, i>>]
<1>7. r \in Seq(Log) /\ Len(r) = last /\ \A i \in 1..Len(r) : r[i] = <<e, i>>
  <2>1. last \in Nat
    BY DEF TypeOK
  <2>2. r \in [1..last -> Log]
    BY <2>1 DEF Log
  <2>3. \A i \in 1..last : r[i] = <<e, i>>
    OBVIOUS
  <2> HIDE DEF r
  <2> QED
    BY <2>1, <2>2, <2>3, SeqDef, LenProperties
<1>8. (h \o pending) \o f = r
  BY <1>6
<1> HIDE DEF h, f, r
<1>9. /\ k + 1 <= Len(r) /\ r[k + 1] = pending[1]
      /\ \A i \in 1..k : i <= Len(r) /\ r[i] = h[i]
  <2> DEFINE g == h \o pending
  <2>1. /\ g \in Seq(Log) /\ Len(g) = k + Len(pending)
        /\ \A i \in 1..(k + Len(pending)) :
              g[i] = IF i <= k THEN h[i] ELSE pending[i - k]
    BY <1>1, <1>3, ConcatProperties
  <2>2. g \o f = r
    BY <1>8
  <2> HIDE DEF g
  <2>3. /\ Len(r) = Len(g) + Len(f) /\ Len(f) \in Nat
        /\ \A i \in 1..(Len(g) + Len(f)) : r[i] = IF i <= Len(g) THEN g[i] ELSE f[i - Len(g)]
    BY <1>3, <2>1, <2>2, ConcatProperties, LenProperties
  <2>4. \A i \in 1..(k + 1) : i \in 1..(k + Len(pending)) /\ i \in 1..(Len(g) + Len(f))
                             /\ i <= Len(g)
    BY <1>1, <1>3, <2>1, <2>3
  <2>5. \A i \in 1..(k + 1) : i <= Len(r) /\ r[i] = IF i <= k THEN h[i] ELSE pending[i - k]
    BY <1>3, <2>1, <2>3, <2>4
  <2>6. k + 1 \in 1..(k + 1) /\ ~(k + 1 <= k) /\ (k + 1) - k = 1
    BY <1>3
  <2>7. \A i \in 1..k : i \in 1..(k + 1) /\ i <= k
    BY <1>3
  <2> QED
    BY <2>5, <2>6, <2>7
<1>10. n = k + 1
  <2>1. k + 1 \in 1..Len(r)
    BY <1>3, <1>7, <1>9, LenProperties
  <2>2. <<e, n>> = <<e, k + 1>>
    BY <1>1, <1>2, <1>7, <1>9, <2>1
  <2> QED
    BY <2>2
<1>11. \A i \in 1..k : h[i] = <<e, i>>
  BY <1>3, <1>7, <1>9, LenProperties
<1>12. ASSUME NEW m \in Nat \ {0} PROVE Contains(logs, <<e, m>>) <=> m \in 1..k
  <2>1. <<e, m>> \in Log /\ <<e, m>>[1] = e
    BY DEF Log
  <2>2. Contains(h, <<e, m>>) <=> Contains(logs, <<e, m>>)
    BY <1>1, <2>1, ContainsFrom DEF h
  <2>3. Contains(h, <<e, m>>) <=> m \in 1..k
    BY <1>3, <1>11 DEF Contains
  <2> QED
    BY <2>2, <2>3
<1>13. n = 1 \/ Contains(logs, <<e, n - 1>>)
  BY <1>3, <1>10, <1>12
<1>14. ~Contains(logs, <<e, n>>)
  BY <1>3, <1>10, <1>12
<1>15. n \in 1 .. Len(logs) + 1
  BY <1>1, <1>3, <1>10, FromIsShort, LenProperties DEF h
<1> QED
  BY <1>2, <1>13, <1>14, <1>15

LEMMA SameHelpers == /\ \A q, x : Stream!Contains(q, x) <=> Contains(q, x)
                     /\ \A q : Stream!ToSet(q) = ToSet(q)
  BY DEF Contains, ToSet, Stream!Contains, Stream!ToSet

Reader == [t \in Tuis |-> Stage[tui[t]]]

\* A TUI's task goes from one state to another.
LEMMA ReaderGoes ==
  ASSUME TypeOK, NEW t \in Tuis, NEW from \in TuiStates, NEW to \in TuiStates,
         TuiGoes(t, from, to)
  PROVE  Reader[t] = Stage[from] /\ Reader' = [Reader EXCEPT ![t] = Stage[to]]
<1>1. tui \in [Tuis -> TuiStates] /\ tui[t] = from /\ tui' = [tui EXCEPT ![t] = to]
  BY DEF TypeOK, TuiGoes
<1>2. \A u \in Tuis : tui'[u] = IF u = t THEN to ELSE tui[u]
  BY <1>1
<1> QED
  BY <1>1, <1>2 DEF Reader

LEMMA TuiStreams ==
  ASSUME TypeOK, SeesStorage, KeptUp, NEW t \in Tuis,
         TuiConnects(t) \/ TuiLeaves(t) \/ TuiStep(t)
  PROVE  Stream!Next \/ UNCHANGED <<logs, Reader, since, got>>
<1> DEFINE N == Len(logs)
<1>1. N \in Nat /\ logs' = logs
  BY LenProperties DEF TypeOK, Batch, TuiConnects, TuiLeaves, TuiStep, TakeSnapshot,
     SendSnapshot, SendFails, Subscribe, Forward, Lag, TuiGoes, listenVars
<1>2. /\ snapshot \in [Tuis -> Nat] /\ cursor \in [Tuis -> Nat \ {0}]
      /\ since \in [Tuis -> Nat] /\ got \in [Tuis -> Seq(Nat \ {0})]
  BY DEF TypeOK
<1>3. /\ Stage["off"] = "new" /\ Stage["snapshot"] = "new" /\ Stage["send"] = "new"
      /\ Stage["subscribe"] = "replayed" /\ Stage["receive"] = "following"
      /\ Stage["over"] = "gone"
  BY DEF Stage
<1>4. {"off", "snapshot", "send", "subscribe", "receive", "over"} \subseteq TuiStates
  BY DEF TuiStates
<1>5. \A u \in Tuis : Sees(tui[u], snapshot[u], cursor[u], since[u], lagged[u], got[u], N)
  BY DEF SeesStorage
<1>6. Reader \in [Tuis -> {Reader[u] : u \in Tuis}]
  BY DEF Reader
<1>7. CASE TuiLeaves(t)
  BY <1>1, <1>7 DEF TuiLeaves, Reader
<1>8. CASE TuiConnects(t) \/ TakeSnapshot(t)
  <2>1. TuiGoes(t, "off", "snapshot") \/ TuiGoes(t, "snapshot", "send")
    BY <1>8 DEF TuiConnects, TakeSnapshot
  <2>2. Reader[t] = "new" /\ Reader' = [Reader EXCEPT ![t] = "new"]
    BY <1>3, <1>4, <2>1, ReaderGoes
  <2>3. Reader' = Reader
    BY <1>6, <2>2
  <2> QED
    BY <1>1, <1>8, <2>3 DEF TuiConnects, TakeSnapshot
<1>9. CASE Lag(t)
  <2>1. Reader[t] = "following" /\ Reader' = [Reader EXCEPT ![t] = "following"]
    BY <1>3, <1>4, <1>9, ReaderGoes DEF Lag
  <2>2. Reader' = Reader
    BY <1>6, <2>1
  <2> QED
    BY <1>1, <1>9, <2>2 DEF Lag
<1>10. CASE SendSnapshot(t)
  <2>1. Reader[t] = "new" /\ Reader' = [Reader EXCEPT ![t] = "replayed"]
    BY <1>3, <1>4, <1>10, ReaderGoes DEF SendSnapshot
  <2>2. snapshot[t] \in 0..N
    BY <1>1, <1>2, <1>5 DEF Sees
  <2>3. Stream!Replay(t)
    BY <1>1, <1>10, <2>1, <2>2 DEF SendSnapshot, Stream!Replay, Stream!Goes, Reader
  <2> QED
    BY <2>3 DEF Stream!Next
<1>11. CASE SendFails(t)
  <2>1. /\ Reader[t] = "new" \/ Reader[t] = "following"
        /\ Reader' = [Reader EXCEPT ![t] = "gone"]
    <3>1. TuiGoes(t, "send", "over") \/ TuiGoes(t, "receive", "over")
      BY <1>11 DEF SendFails
    <3> QED
      BY <1>3, <1>4, <3>1, ReaderGoes
  <2>2. Stream!Leave(t)
    BY <1>1, <1>11, <2>1 DEF SendFails, Stream!Leave, Stream!Goes, Reader
  <2> QED
    BY <2>2 DEF Stream!Next
<1>12. CASE Subscribe(t)
  <2>1. Reader[t] = "replayed" /\ Reader' = [Reader EXCEPT ![t] = "following"]
    BY <1>3, <1>4, <1>12, ReaderGoes DEF Subscribe
  <2>2. Stream!Follow(t)
    BY <1>1, <1>12, <2>1 DEF Subscribe, Stream!Follow, Stream!Goes, Reader
  <2> QED
    BY <2>2 DEF Stream!Next
<1>13. CASE Forward(t)
  <2> DEFINE c == cursor[t]
  <2>1. Reader[t] = "following" /\ Reader' = [Reader EXCEPT ![t] = "following"]
    BY <1>3, <1>4, <1>13, ReaderGoes DEF Forward
  <2>2. tui[t] = "receive" /\ c \in Oldest..N /\ got' = [got EXCEPT ![t] = Append(@, c)]
        /\ since' = since
    BY <1>13 DEF Forward, TuiGoes
  <2>3. c \in since[t] + 1 .. N /\ \A m \in ToSet(got[t]) : m < c
    BY <1>1, <1>2, <1>5, <2>2 DEF Sees
  <2>4. c + Capacity > N
    <3>1. Capacity \in Nat \ {0} /\ c \in Nat
      BY <1>2, ServerAssumption
    <3> QED
      BY <1>1, <2>2, <3>1 DEF Oldest
  <2>5. \A m \in since[t] + 1 .. c - 1 : m \in ToSet(got[t]) \/ m + Capacity <= N
    BY <2>2 DEF KeptUp
  <2> HIDE DEF c
  <2>6. Stream!Deliver(t)
    BY <1>1, <2>1, <2>2, <2>3, <2>4, <2>5, SameHelpers
       DEF Stream!Deliver, Stream!Goes, Reader
  <2> QED
    BY <2>6 DEF Stream!Next
<1> QED
  BY <1>7, <1>8, <1>9, <1>10, <1>11, <1>12, <1>13 DEF TuiStep

(***************************************************************************)
(* The server is a log stream for its TUIs, for any number of engines and  *)
(* TUIs and any capacity: StoreLog adds the next log of its engine, sends  *)
(* replay, subscriptions follow, and forwarding passes over a log only     *)
(* when the channel keeps it no more; all other steps the reader of the    *)
(* stream does not see.                                                    *)
(***************************************************************************)
THEOREM ServerImplementsStream == Spec => ImplementsStream
<1>1. Init => Stream!Init
  BY DEF Init, Stream!Init, Stage
<1>2. TypeOK /\ SeesStorage /\ KeptUp /\ StoredInv /\ [Next]_vars =>
        [Stream!Next]_(Stream!streamVars)
  <2> SUFFICES ASSUME TypeOK, SeesStorage, KeptUp, StoredInv, [Next]_vars
               PROVE  Stream!Next \/ UNCHANGED <<logs, Reader, since, got>>
    BY DEF Stream!streamVars, Reader
  <2>1. CASE \E t \in Tuis : TuiConnects(t) \/ TuiLeaves(t) \/ TuiStep(t)
    BY <2>1, TuiStreams
  <2>2. CASE ~ \E t \in Tuis : TuiConnects(t) \/ TuiLeaves(t) \/ TuiStep(t)
    <3>1. UNCHANGED tuiVars /\ (logs' = logs \/ StoreLog)
      BY <2>2, LogsOnlyGrow
    <3>2. UNCHANGED <<Reader, since, got>>
      BY <3>1 DEF tuiVars, Reader
    <3>3. CASE StoreLog
      <4>1. pending # <<>> /\ logs' = Append(logs, Head(pending))
        BY <3>3 DEF StoreLog, TypeOK
      <4>2. PICK e \in Engines, n \in 1 .. Len(logs) + 1 :
              /\ Head(pending) = <<e, n>>
              /\ n = 1 \/ Contains(logs, <<e, n - 1>>)
              /\ ~Contains(logs, <<e, n>>)
        BY <4>1, NextOfItsEngine
      <4>3. Stream!Store(e, n)
        BY <3>2, <4>1, <4>2, SameHelpers DEF Stream!Store, Reader
      <4> QED
        BY <4>3 DEF Stream!Next
    <3> QED
      BY <3>1, <3>2, <3>3
  <2> QED
    BY <2>1, <2>2
<1> QED
  BY <1>1, <1>2, ServerTypes, ServerSees, ServerKeptUp, ServerStores, PTL
     DEF Spec, ImplementsStream, Stream!Spec
=============================================================================

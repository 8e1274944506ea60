---------------------------- MODULE LoggerProofs ----------------------------
(***************************************************************************)
(* Theorems about logging::Logger, for any number of logging threads, pool *)
(* workers and messages.                                                   *)
(***************************************************************************)
EXTENDS Logger, FiniteSetTheorems, SequenceTheorems, TLAPS

\* An attempt is left as long as the logger is still connecting.
AttemptsLeft == owner \in {"none", "connecting"} => attempts < MaxAttempts

Typed == TypeOK /\ AttemptsLeft

LEMMA InitTyped == Init => Typed
<1> SUFFICES ASSUME Init PROVE Typed
  OBVIOUS
<1>1. /\ log_queue \in Seq(Nat \ {0}) /\ flushing \in Seq(Nat \ {0})
      /\ sent \in Seq(Nat \ {0}) /\ batch \in [Workers -> Seq(Nat \ {0})]
  BY EmptySeq DEF Init
<1>2. /\ producer \in [Producers -> ProducerStates]
      /\ worker \in [Workers -> WorkerStates]
      /\ owner \in OwnerStates
  BY DEF Init, ProducerStates, WorkerStates, OwnerStates
<1>3. attempts \in 0..MaxAttempts /\ AttemptsLeft
  BY LoggerAssumption DEF Init, AttemptsLeft
<1>4. drain_pending \in BOOLEAN /\ quiet \in BOOLEAN
  BY DEF Init
<1>5. /\ socket \in {"closed", "open", "torn", "broken"} /\ scheduled \in Nat
      /\ logged \in Nat /\ failed \subseteq Nat /\ skipped \subseteq Nat
  BY DEF Init
<1> QED
  BY <1>1, <1>2, <1>3, <1>4, <1>5 DEF Typed, TypeOK

LEMMA ElementsOfSeq ==
  ASSUME NEW s \in Seq(Nat \ {0}) PROVE Elements(s) \subseteq Nat
BY DEF Elements

LEMMA ProducerTyped ==
  ASSUME Typed, NEW p \in Producers,
         ReadInstance(p) \/ ProducerStep(p) \/ AbortAfterCritical(p)
  PROVE  Typed'
<1> USE DEF Typed, TypeOK, AttemptsLeft, ProducerStates, OwnerStates, queueVars,
            poolVars, netVars, ownerVars
<1>1. CASE Push(p)
  <2>1. log_queue' \in Seq(Nat \ {0})
    BY <1>1, AppendProperties DEF Push
  <2> QED
    BY <1>1, <2>1 DEF Push
<1>2. CASE ReadInstance(p)
  BY <1>2 DEF ReadInstance
<1>3. CASE Claim(p)
  BY <1>3 DEF Claim
<1>4. CASE Submit(p)
  BY <1>4 DEF Submit
<1>5. CASE AbortAfterCritical(p)
  BY <1>5 DEF AbortAfterCritical
<1> QED
  BY <1>1, <1>2, <1>3, <1>4, <1>5 DEF ProducerStep

LEMMA WorkerTyped ==
  ASSUME Typed, NEW w \in Workers, WorkerStep(w) PROVE Typed'
<1> USE DEF Typed, TypeOK, AttemptsLeft, WorkerStates, queueVars, netVars,
            ownerVars, WorkerGoes
<1>1. CASE StartDrain(w)
  BY <1>1 DEF StartDrain
<1>5. CASE Release(w)
  BY <1>5 DEF Release
<1>6. CASE Recheck(w)
  <2>1. worker' \in [Workers -> WorkerStates]
    BY <1>6 DEF Recheck
  <2>2. scheduled' \in Nat
    BY <1>6 DEF Recheck
  <2>3. drain_pending' \in BOOLEAN
    BY <1>6 DEF Recheck
  <2> QED
    BY <1>6, <2>1, <2>2, <2>3 DEF Recheck
<1>2. CASE Collect(w)
  <2>1. <<>> \in Seq(Nat \ {0}) /\ Elements(log_queue) \subseteq Nat
    BY ElementsOfSeq, EmptySeq
  <2> QED
    BY <1>2, <2>1 DEF Collect
<1>3. CASE WriteSucceeds(w)
  <2>1. <<>> \in Seq(Nat \ {0}) /\ sent \o batch[w] \in Seq(Nat \ {0})
    BY EmptySeq, ConcatProperties
  <2> QED
    BY <1>3, <2>1 DEF WriteSucceeds
<1>4. CASE WriteFails(w)
  <2>1. <<>> \in Seq(Nat \ {0}) /\ Elements(batch[w]) \subseteq Nat
    BY ElementsOfSeq, EmptySeq
  <2> QED
    BY <1>4, <2>1 DEF WriteFails, AfterFailure
<1> QED
  BY <1>1, <1>2, <1>3, <1>4, <1>5, <1>6 DEF WorkerStep

OwnerStep == Create \/ Connecting \/ PeerLeaves \/ BeginStop \/ Stopping

LEMMA OwnerTyped == ASSUME Typed, OwnerStep PROVE Typed'
<1> USE DEF Typed, TypeOK, AttemptsLeft, OwnerStates, queueVars, poolVars, netVars,
            ownerVars, OwnerGoes
<1>1. CASE Create
  BY <1>1 DEF Create
<1>4. CASE ConnectSucceeds
  BY <1>4, LoggerAssumption DEF ConnectSucceeds
<1>5. CASE ConnectFails
  <2>1. attempts' \in 0..MaxAttempts /\ owner' \in OwnerStates
    BY <1>5, LoggerAssumption DEF ConnectFails
  <2>2. owner' = "connecting" => attempts' < MaxAttempts
    BY <1>5, LoggerAssumption DEF ConnectFails
  <2> QED
    BY <1>5, <2>1, <2>2 DEF ConnectFails
<1>6. CASE PeerLeaves
  BY <1>6 DEF PeerLeaves
<1>7. CASE BeginStop \/ SpinEnds \/ ClearInstance
  BY <1>7 DEF BeginStop, SpinEnds, ClearInstance
<1>8. CASE CloseSocket
  BY <1>8 DEF CloseSocket
<1>2. CASE FlushCollect
  <2>1. <<>> \in Seq(Nat \ {0})
    BY EmptySeq
  <2> QED
    BY <1>2, <2>1 DEF FlushCollect
<1>3. CASE FlushSend
  <2>1. /\ <<>> \in Seq(Nat \ {0}) /\ sent \o flushing \in Seq(Nat \ {0})
        /\ Elements(flushing) \subseteq Nat
    BY EmptySeq, ConcatProperties, ElementsOfSeq
  <2> QED
    BY <1>3, <2>1 DEF FlushSend, AfterFailure
<1> QED
  BY <1>1, <1>2, <1>3, <1>4, <1>5, <1>6, <1>7, <1>8
     DEF OwnerStep, Connecting, Stopping

(***************************************************************************)
(* Every variable of the logger keeps its type; in particular the          *)
(* connection is tried at most MaxAttempts times.                          *)
(***************************************************************************)
THEOREM LoggerTypes == Spec => []TypeOK
<1>1. Typed /\ [Next]_vars => Typed'
  <2> SUFFICES ASSUME Typed, [Next]_vars PROVE Typed'
    OBVIOUS
  <2>1. CASE UNCHANGED vars
    BY <2>1 DEF vars, queueVars, poolVars, netVars, ownerVars, Typed, TypeOK,
       AttemptsLeft
  <2> QED
    BY <2>1, ProducerTyped, WorkerTyped, OwnerTyped DEF Next, OwnerStep, Terminated
<1> QED
  BY <1>1, InitTyped, PTL DEF Spec, Typed

-----------------------------------------------------------------------------
(* The drain slot *)

LEMMA FiniteHolders ==
  /\ IsFiniteSet(Submitting) /\ Cardinality(Submitting) \in Nat
  /\ IsFiniteSet(Draining) /\ Cardinality(Draining) \in Nat
<1>1. IsFiniteSet(Submitting) /\ IsFiniteSet(Draining)
  BY LoggerAssumption, FS_Subset DEF Submitting, Draining
<1> QED
  BY <1>1, FS_CardinalityType

(***************************************************************************)
(* The slot passes from the producer that claimed it to the pool, to one   *)
(* worker, and back to nobody; the second look of a worker claims it again *)
(* or leaves it alone.                                                     *)
(***************************************************************************)
LEMMA ProducerKeepsToken ==
  ASSUME TypeOK, SlotToken, NEW p \in Producers,
         ReadInstance(p) \/ ProducerStep(p) \/ AbortAfterCritical(p)
  PROVE  SlotToken'
<1> USE FiniteHolders DEF TypeOK, SlotToken, Holders, queueVars, poolVars, netVars,
                          ownerVars
<1>1. CASE ReadInstance(p) \/ Push(p) \/ AbortAfterCritical(p)
  <2>1. Submitting' = Submitting /\ Draining' = Draining
    BY <1>1 DEF ReadInstance, Push, AbortAfterCritical, Submitting, Draining
  <2> QED
    BY <1>1, <2>1 DEF ReadInstance, Push, AbortAfterCritical
<1>2. CASE Claim(p) /\ drain_pending
  <2>1. Submitting' = Submitting /\ Draining' = Draining
    BY <1>2 DEF Claim, Submitting, Draining
  <2> QED
    BY <1>2, <2>1 DEF Claim
<1>3. CASE Claim(p) /\ ~drain_pending
  <2>1. /\ Submitting' = Submitting \cup {p} /\ p \notin Submitting
        /\ Draining' = Draining
    BY <1>3 DEF Claim, Submitting, Draining
  <2>2. Cardinality(Submitting') = Cardinality(Submitting) + 1
    BY <2>1, FS_AddElement
  <2> QED
    BY <1>3, <2>1, <2>2 DEF Claim
<1>4. CASE Submit(p)
  <2>1. /\ Submitting' = Submitting \ {p} /\ p \in Submitting
        /\ Draining' = Draining
    BY <1>4 DEF Submit, Submitting, Draining
  <2>2. Cardinality(Submitting') = Cardinality(Submitting) - 1
    BY <2>1, FS_RemoveElement
  <2> QED
    BY <1>4, <2>1, <2>2 DEF Submit
<1> QED
  BY <1>1, <1>2, <1>3, <1>4 DEF ProducerStep

LEMMA WorkerKeepsToken ==
  ASSUME TypeOK, SlotToken, NEW w \in Workers, WorkerStep(w)
  PROVE  SlotToken'
<1> USE FiniteHolders DEF TypeOK, SlotToken, Holders, queueVars, poolVars, netVars,
                          ownerVars, WorkerGoes
<1>1. CASE StartDrain(w)
  <2>1. /\ Draining' = Draining \cup {w} /\ w \notin Draining
        /\ Submitting' = Submitting
    BY <1>1 DEF StartDrain, Submitting, Draining
  <2>2. Cardinality(Draining') = Cardinality(Draining) + 1
    BY <2>1, FS_AddElement
  <2> QED
    BY <1>1, <2>1, <2>2 DEF StartDrain
<1>2. CASE Collect(w) \/ WriteSucceeds(w) \/ WriteFails(w)
  <2>1. /\ Submitting' = Submitting /\ Draining' = Draining
        /\ UNCHANGED <<scheduled, drain_pending>>
    BY <1>2 DEF Collect, WriteSucceeds, WriteFails, Submitting, Draining
  <2> QED
    BY <2>1
<1>3. CASE Release(w)
  <2>1. /\ Draining' = Draining \ {w} /\ w \in Draining
        /\ Submitting' = Submitting
    BY <1>3 DEF Release, Submitting, Draining
  <2>2. Cardinality(Draining') = Cardinality(Draining) - 1
    BY <2>1, FS_RemoveElement
  <2>3. Cardinality(Draining) # 0
    BY <2>1, FS_EmptySet
  <2> QED
    BY <1>3, <2>1, <2>2, <2>3 DEF Release
<1>4. CASE Recheck(w)
  <2>1. Submitting' = Submitting /\ Draining' = Draining
    BY <1>4 DEF Recheck, Submitting, Draining
  <2> QED
    BY <1>4, <2>1 DEF Recheck
<1> QED
  BY <1>1, <1>2, <1>3, <1>4 DEF WorkerStep

(***************************************************************************)
(* drain_pending really is a token: one drain at most is queued, started   *)
(* or about to be queued, whatever the threads do and whenever the logger  *)
(* is stopped.                                                             *)
(***************************************************************************)
THEOREM OneDrainAtATime == Spec => []SlotToken
<1>1. Init => SlotToken
  <2> SUFFICES ASSUME Init PROVE SlotToken
    OBVIOUS
  <2>1. Submitting = {} /\ Draining = {}
    BY DEF Init, Submitting, Draining
  <2> QED
    BY <2>1, FS_EmptySet DEF Init, SlotToken, Holders
<1>2. TypeOK /\ SlotToken /\ [Next]_vars => SlotToken'
  <2> SUFFICES ASSUME TypeOK, SlotToken, [Next]_vars PROVE SlotToken'
    OBVIOUS
  <2>1. CASE OwnerStep \/ UNCHANGED vars
    <3>1. UNCHANGED <<producer, worker, scheduled, drain_pending>>
      BY <2>1 DEF OwnerStep, Create, Connecting, ConnectSucceeds, ConnectFails,
         PeerLeaves, BeginStop, Stopping, SpinEnds, FlushCollect, FlushSend,
         CloseSocket, ClearInstance, vars, queueVars, poolVars
    <3> QED
      BY <3>1 DEF SlotToken, Holders, Submitting, Draining
  <2> QED
    BY <2>1, ProducerKeepsToken, WorkerKeepsToken DEF Next, OwnerStep, Terminated
<1> QED
  BY <1>1, <1>2, LoggerTypes, PTL DEF Spec

-----------------------------------------------------------------------------
(* No message is stranded *)

Guarded == NoStrandedLog /\ (owner = "none" => log_queue = <<>>)

(***************************************************************************)
(* The double check of drain is enough: whenever messages wait and nobody  *)
(* holds the slot, somebody is about to claim it.                          *)
(***************************************************************************)
THEOREM NoLogIsStranded == Spec => []NoStrandedLog
<1>1. Init => Guarded
  BY DEF Init, Guarded, NoStrandedLog
<1>2. TypeOK /\ Guarded /\ [Next]_vars => Guarded'
  <2> SUFFICES ASSUME TypeOK, Guarded, [Next]_vars PROVE Guarded'
    OBVIOUS
  <2> USE DEF Guarded, NoStrandedLog, Alive, TypeOK, queueVars, poolVars, netVars,
              ownerVars
  <2>1. ASSUME NEW p \in Producers,
               ReadInstance(p) \/ ProducerStep(p) \/ AbortAfterCritical(p)
        PROVE  Guarded'
    BY <2>1 DEF ReadInstance, ProducerStep, Push, Claim, Submit, AbortAfterCritical
  <2>2. ASSUME NEW w \in Workers, WorkerStep(w) PROVE Guarded'
    BY <2>2 DEF WorkerStep, WorkerGoes, StartDrain, Collect, WriteSucceeds,
       WriteFails, Release, Recheck
  <2>3. CASE OwnerStep
    BY <2>3 DEF OwnerStep, OwnerGoes, Create, Connecting, ConnectSucceeds,
       ConnectFails, PeerLeaves, BeginStop, Stopping, SpinEnds, FlushCollect,
       FlushSend, CloseSocket, ClearInstance
  <2>4. CASE UNCHANGED vars
    BY <2>4 DEF vars
  <2> QED
    BY <2>1, <2>2, <2>3, <2>4 DEF Next, OwnerStep, Terminated
<1> QED
  BY <1>1, <1>2, LoggerTypes, PTL DEF Spec, Guarded

-----------------------------------------------------------------------------
(* Sequences of messages *)

LEMMA ElementsOfEmpty == Elements(<<>>) = {}
BY DEF Elements

LEMMA ElementsOfAppend ==
  ASSUME NEW S, NEW s \in Seq(S), NEW x \in S
  PROVE  Elements(Append(s, x)) = Elements(s) \cup {x}
<1> DEFINE r == Append(s, x)
<1>1. /\ Len(r) = Len(s) + 1 /\ Len(s) \in Nat
      /\ \A i \in 1..Len(s) : r[i] = s[i]
      /\ r[Len(s) + 1] = x
  BY AppendProperties, LenProperties
<1> HIDE DEF r
<1>2. \A y : y \in Elements(r) <=> \E i \in 1..Len(s) + 1 : r[i] = y
  BY <1>1 DEF Elements
<1>3. \A y : y \in Elements(s) <=> \E i \in 1..Len(s) : s[i] = y
  BY DEF Elements
<1>4. \A i : i \in 1..Len(s) + 1 <=> i \in 1..Len(s) \/ i = Len(s) + 1
  BY <1>1
<1>5. \A y : y \in Elements(r) <=> y \in Elements(s) \/ y = x
  BY <1>1, <1>2, <1>3, <1>4
<1> QED
  BY <1>5 DEF r

LEMMA ElementsOfConcat ==
  ASSUME NEW S, NEW s \in Seq(S), NEW t \in Seq(S)
  PROVE  Elements(s \o t) = Elements(s) \cup Elements(t)
<1> DEFINE r == s \o t
<1>1. /\ Len(r) = Len(s) + Len(t) /\ Len(s) \in Nat /\ Len(t) \in Nat
      /\ \A i \in 1..Len(s) + Len(t) : r[i] = IF i <= Len(s) THEN s[i] ELSE t[i - Len(s)]
  BY ConcatProperties, LenProperties
<1> HIDE DEF r
<1>2. ASSUME NEW y \in Elements(r)
      PROVE  y \in Elements(s) \cup Elements(t)
  <2>1. PICK i \in 1..Len(s) + Len(t) : r[i] = y
    BY <1>1 DEF Elements
  <2>2. CASE i <= Len(s)
    <3>1. i \in 1..Len(s) /\ s[i] = y
      BY <1>1, <2>1, <2>2
    <3> QED
      BY <3>1 DEF Elements
  <2>3. CASE ~(i <= Len(s))
    <3>1. i - Len(s) \in 1..Len(t) /\ t[i - Len(s)] = y
      BY <1>1, <2>1, <2>3
    <3> QED
      BY <3>1 DEF Elements
  <2> QED
    BY <2>2, <2>3
<1>3. ASSUME NEW y \in Elements(s)
      PROVE  y \in Elements(r)
  <2>1. PICK i \in 1..Len(s) : s[i] = y
    BY DEF Elements
  <2>2. i \in 1..Len(r) /\ r[i] = y
    BY <1>1, <2>1
  <2> QED
    BY <2>2 DEF Elements
<1>4. ASSUME NEW y \in Elements(t)
      PROVE  y \in Elements(r)
  <2>1. PICK i \in 1..Len(t) : t[i] = y
    BY DEF Elements
  <2>2. i + Len(s) \in 1..Len(s) + Len(t) /\ ~(i + Len(s) <= Len(s))
        /\ (i + Len(s)) - Len(s) = i
    BY <1>1
  <2>3. i + Len(s) \in 1..Len(r) /\ r[i + Len(s)] = y
    BY <1>1, <2>1, <2>2
  <2> QED
    BY <2>3 DEF Elements
<1>5. Elements(r) = Elements(s) \cup Elements(t)
  BY <1>2, <1>3, <1>4
<1> QED
  BY <1>5 DEF r

Below(A, B) == \A x \in A, y \in B : x < y

LEMMA BeforeMeans ==
  ASSUME NEW s, NEW t PROVE Before(s, t) <=> Below(Elements(s), Elements(t))
BY DEF Before, Below, Elements

LEMMA IncreasingAppend ==
  ASSUME NEW s \in Seq(Nat \ {0}), NEW x \in Nat \ {0}, Increasing(s),
         \A y \in Elements(s) : y < x
  PROVE  Increasing(Append(s, x))
<1> DEFINE r == Append(s, x)
<1>1. /\ Len(r) = Len(s) + 1 /\ Len(s) \in Nat
      /\ \A i \in 1..Len(s) : r[i] = s[i]
      /\ r[Len(s) + 1] = x
  BY AppendProperties, LenProperties
<1> HIDE DEF r
<1>2. \A i \in 1..Len(s) : s[i] < x
  BY DEF Elements
<1>3. Increasing(r)
  <2> SUFFICES ASSUME NEW i \in 1..Len(r), NEW j \in 1..Len(r), i < j
               PROVE  r[i] < r[j]
    BY DEF Increasing
  <2>1. i \in 1..Len(s) /\ (j \in 1..Len(s) \/ j = Len(s) + 1)
    BY <1>1
  <2> QED
    BY <1>1, <1>2, <2>1 DEF Increasing
<1> QED
  BY <1>3 DEF r

\* A batch of messages that are all newer than those sent.
LEMMA IncreasingConcat ==
  ASSUME NEW s \in Seq(Nat \ {0}), NEW t \in Seq(Nat \ {0}), Increasing(s), Increasing(t),
         Before(s, t)
  PROVE  Increasing(s \o t)
<1> DEFINE r == s \o t
<1>1. /\ Len(r) = Len(s) + Len(t) /\ Len(s) \in Nat /\ Len(t) \in Nat
      /\ \A i \in 1..Len(s) + Len(t) : r[i] = IF i <= Len(s) THEN s[i] ELSE t[i - Len(s)]
  BY ConcatProperties, LenProperties
<1> HIDE DEF r
<1>2. Increasing(r)
  <2> SUFFICES ASSUME NEW i \in 1..Len(r), NEW j \in 1..Len(r), i < j
               PROVE  r[i] < r[j]
    BY DEF Increasing
  <2>1. CASE j <= Len(s)
    <3>1. i \in 1..Len(s) /\ j \in 1..Len(s) /\ r[i] = s[i] /\ r[j] = s[j]
      BY <1>1, <2>1
    <3> QED
      BY <3>1 DEF Increasing
  <2>2. CASE i <= Len(s) /\ ~(j <= Len(s))
    <3>1. /\ i \in 1..Len(s) /\ j - Len(s) \in 1..Len(t)
          /\ r[i] = s[i] /\ r[j] = t[j - Len(s)]
      BY <1>1, <2>2
    <3> QED
      BY <3>1 DEF Before
  <2>3. CASE ~(i <= Len(s))
    <3>1. /\ i - Len(s) \in 1..Len(t) /\ j - Len(s) \in 1..Len(t)
          /\ i - Len(s) < j - Len(s)
          /\ r[i] = t[i - Len(s)] /\ r[j] = t[j - Len(s)]
      BY <1>1, <2>3
    <3> QED
      BY <3>1 DEF Increasing
  <2> QED
    BY <1>1, <2>1, <2>2, <2>3
<1> QED
  BY <1>2 DEF r

LEMMA DistinctConcat ==
  ASSUME NEW s \in Seq(Nat \ {0}), NEW t \in Seq(Nat \ {0}), Distinct(s), Increasing(t),
         Elements(s) \cap Elements(t) = {}
  PROVE  Distinct(s \o t)
<1> DEFINE r == s \o t
<1>1. /\ Len(r) = Len(s) + Len(t) /\ Len(s) \in Nat /\ Len(t) \in Nat
      /\ \A i \in 1..Len(s) + Len(t) : r[i] = IF i <= Len(s) THEN s[i] ELSE t[i - Len(s)]
  BY ConcatProperties, LenProperties
<1> HIDE DEF r
<1>2. \A i \in 1..Len(s), j \in 1..Len(t) : s[i] # t[j]
  BY DEF Elements
<1>3. \A i, j \in 1..Len(t) : i < j => t[i] < t[j] /\ t[i] \in Nat /\ t[j] \in Nat
  BY ElementOfSeq DEF Increasing
<1>4. ASSUME NEW i \in 1..Len(r), NEW j \in 1..Len(r), i < j
      PROVE  r[i] # r[j]
  <2>1. CASE j <= Len(s)
    <3>1. i \in 1..Len(s) /\ j \in 1..Len(s) /\ i # j /\ r[i] = s[i] /\ r[j] = s[j]
      BY <1>1, <1>4, <2>1
    <3> QED
      BY <3>1 DEF Distinct
  <2>2. CASE i <= Len(s) /\ ~(j <= Len(s))
    <3>1. /\ i \in 1..Len(s) /\ j - Len(s) \in 1..Len(t)
          /\ r[i] = s[i] /\ r[j] = t[j - Len(s)]
      BY <1>1, <2>2
    <3> QED
      BY <1>2, <3>1
  <2>3. CASE ~(i <= Len(s))
    <3>1. /\ i - Len(s) \in 1..Len(t) /\ j - Len(s) \in 1..Len(t)
          /\ i - Len(s) < j - Len(s)
          /\ r[i] = t[i - Len(s)] /\ r[j] = t[j - Len(s)]
      BY <1>1, <1>4, <2>3
    <3>2. r[i] < r[j] /\ r[i] \in Nat
      BY <1>3, <3>1
    <3> QED
      BY <3>2
  <2> QED
    BY <1>1, <1>4, <2>1, <2>2, <2>3
<1>5. Distinct(r)
  <2> SUFFICES ASSUME NEW i \in 1..Len(r), NEW j \in 1..Len(r), i # j
               PROVE  r[i] # r[j]
    BY DEF Distinct
  <2>1. i < j \/ j < i
    BY <1>1
  <2> QED
    BY <1>4, <2>1
<1> QED
  BY <1>5 DEF r

-----------------------------------------------------------------------------
(* Each message once, and in order *)

LEMMA OneDrainer ==
  ASSUME TypeOK, SlotToken, NEW v \in Draining, NEW w \in Draining
  PROVE  v = w /\ drain_pending
<1>1. Cardinality(Draining) <= 1 /\ (~drain_pending => Cardinality(Draining) = 0)
  BY FiniteHolders DEF TypeOK, SlotToken, Holders
<1>2. drain_pending
  BY <1>1, FiniteHolders, FS_EmptySet
<1>3. Draining \ {v} = {}
  <2>1. Cardinality(Draining \ {v}) = Cardinality(Draining) - 1 /\ IsFiniteSet(Draining \ {v})
    BY FiniteHolders, FS_RemoveElement
  <2>2. Cardinality(Draining \ {v}) \in Nat
    BY <2>1, FS_CardinalityType
  <2>3. Cardinality(Draining \ {v}) = 0
    BY <1>1, <2>1, <2>2, FiniteHolders
  <2> QED
    BY <2>1, <2>3, FS_EmptySet
<1> QED
  BY <1>2, <1>3

\* What is collected is still to be written, and is the worker's alone.
InHands == /\ \A w \in Workers : batch[w] # <<>> => worker[w] = "write"
           /\ flushing # <<>> => owner \in {"send", "aborted"}

Rising == /\ Increasing(log_queue) /\ Increasing(flushing)
          /\ \A w \in Workers : Increasing(batch[w])

\* flushSync and a last drain do not both have messages: nothing is logged any
\* more, and whichever comes first takes all there is.
QuietStop == quiet =>
  /\ owner \in {"spin", "flush", "send", "close", "clear", "gone"} =>
       \A p \in Producers : producer[p] = "idle"
  /\ owner \in {"flush", "send"} /\ Carried # {} => log_queue = <<>> /\ flushing = <<>>
  /\ owner = "send" /\ flushing # <<>> => log_queue = <<>>

Orderly == quiet \/ owner \in {"none", "connecting", "up", "spin"}

Ordered == Orderly =>
  /\ Increasing(sent)
  /\ Below(Elements(sent), Carried \cup Elements(flushing) \cup Elements(log_queue))
  /\ Below(Carried \cup Elements(flushing), Elements(log_queue))

LogsInv == InHands /\ Rising /\ QuietStop /\ Ordered /\ EachLogOnce

\* EachLogOnce with its places spelt out.
Once(N, A, B, C, D, E, F) ==
  /\ N = A \cup B \cup C \cup D \cup E \cup F
  /\ A \cap B = {} /\ A \cap C = {} /\ A \cap D = {} /\ A \cap E = {} /\ A \cap F = {}
  /\ B \cap C = {} /\ B \cap D = {} /\ B \cap E = {} /\ B \cap F = {}
  /\ C \cap D = {} /\ C \cap E = {} /\ C \cap F = {}
  /\ D \cap E = {} /\ D \cap F = {}
  /\ E \cap F = {}

LEMMA SixPlaces ==
  ASSUME NEW N, NEW A, NEW B, NEW C, NEW D, NEW E, NEW F
  PROVE  LET P == <<A, B, C, D, E, F>> IN
         (/\ N = UNION {P[k] : k \in 1..6}
          /\ \A k, l \in 1..6 : k # l => P[k] \cap P[l] = {})
         <=> Once(N, A, B, C, D, E, F)
<1> DEFINE P == <<A, B, C, D, E, F>>
<1>1. P[1] = A /\ P[2] = B /\ P[3] = C /\ P[4] = D /\ P[5] = E /\ P[6] = F
  OBVIOUS
<1> HIDE DEF P
<1>2. \A k : k \in 1..6 <=> k = 1 \/ k = 2 \/ k = 3 \/ k = 4 \/ k = 5 \/ k = 6
  OBVIOUS
<1>3. UNION {P[k] : k \in 1..6} = A \cup B \cup C \cup D \cup E \cup F
  <2>1. \A x : x \in UNION {P[k] : k \in 1..6} <=> \E k \in 1..6 : x \in P[k]
    OBVIOUS
  <2>2. \A x : (\E k \in 1..6 : x \in P[k]) <=>
                 x \in A \cup B \cup C \cup D \cup E \cup F
    BY <1>1, <1>2
  <2> HIDE DEF P
  <2> DEFINE U == UNION {P[k] : k \in 1..6}
  <2>3. \A x : x \in U <=> x \in A \cup B \cup C \cup D \cup E \cup F
    BY <2>1, <2>2
  <2> HIDE DEF U
  <2>4. U = A \cup B \cup C \cup D \cup E \cup F
    BY <2>3
  <2> QED
    BY <2>4 DEF U
<1>4. ASSUME \A k, l \in 1..6 : k # l => P[k] \cap P[l] = {},
             N = A \cup B \cup C \cup D \cup E \cup F
      PROVE  Once(N, A, B, C, D, E, F)
  <2>1. \A k, l \in 1..6 : k # l => P[k] \cap P[l] = {}
    BY <1>4
  <2>2. A \cap B = {} /\ A \cap C = {} /\ A \cap D = {} /\ A \cap E = {} /\ A \cap F = {}
    BY <1>1, <2>1
  <2>3. B \cap C = {} /\ B \cap D = {} /\ B \cap E = {} /\ B \cap F = {}
    BY <1>1, <2>1
  <2>4. C \cap D = {} /\ C \cap E = {} /\ C \cap F = {} /\ D \cap E = {} /\ D \cap F = {}
        /\ E \cap F = {}
    BY <1>1, <2>1
  <2> QED
    BY <1>4, <2>2, <2>3, <2>4 DEF Once
<1>5. ASSUME Once(N, A, B, C, D, E, F), NEW k \in 1..6, NEW l \in 1..6, k # l
      PROVE  P[k] \cap P[l] = {}
  BY <1>1, <1>2, <1>5 DEF Once
<1>6. Once(N, A, B, C, D, E, F) => N = A \cup B \cup C \cup D \cup E \cup F
  BY DEF Once
<1>7. (/\ N = UNION {P[k] : k \in 1..6}
       /\ \A k, l \in 1..6 : k # l => P[k] \cap P[l] = {})
      <=> Once(N, A, B, C, D, E, F)
  BY <1>3, <1>4, <1>5, <1>6
<1> QED
  BY <1>7 DEF P

LEMMA OnceMeans ==
  EachLogOnce <=> /\ Once(1..logged, Elements(log_queue), Carried, Elements(flushing),
                          Elements(sent), failed, skipped)
                  /\ Distinct(sent)
BY SixPlaces, Zenon DEF EachLogOnce, Places

LEMMA OnceMeansNext ==
  EachLogOnce' <=> /\ Once(1..logged', Elements(log_queue'), Carried', Elements(flushing'),
                           Elements(sent'), failed', skipped')
                   /\ Distinct(sent')
BY SixPlaces, Zenon DEF EachLogOnce, Places, Distinct, Elements

LEMMA CarriedMeans ==
  \A x : x \in Carried <=> \E w \in Workers : x \in Elements(batch[w])
BY DEF Carried

LEMMA OrderedMeans ==
  Ordered' <=> (Orderly' =>
    /\ Increasing(sent')
    /\ Below(Elements(sent'), Carried' \cup Elements(flushing') \cup Elements(log_queue'))
    /\ Below(Carried' \cup Elements(flushing'), Elements(log_queue')))
BY DEF Ordered, Increasing, Below, Elements

\* A worker that drains has all that is carried.
LEMMA OneCarries ==
  ASSUME TypeOK, SlotToken, InHands, NEW w \in Workers,
         worker[w] \in {"collect", "write", "release"}
  PROVE  /\ \A v \in Workers : v # w => batch[v] = <<>>
         /\ Carried = Elements(batch[w])
<1>1. \A v \in Workers : v # w => batch[v] = <<>>
  <2> SUFFICES ASSUME NEW v \in Workers, batch[v] # <<>>
               PROVE  v = w
    OBVIOUS
  <2>1. v \in Draining /\ w \in Draining
    BY DEF InHands, Draining
  <2> QED
    BY <2>1, OneDrainer
<1> QED
  BY <1>1, CarriedMeans, ElementsOfEmpty

\* Bookkeeping: steps that move no message.
LEMMA OthersMoveNoLog ==
  ASSUME LogsInv,
         UNCHANGED <<log_queue, batch, flushing, sent, failed, skipped, logged, quiet>>,
         InHands', QuietStop', Orderly' => Orderly
  PROVE  LogsInv'
<1>1. Carried' = Carried
  BY DEF Carried, Elements
<1>2. Rising' /\ Ordered'
  BY <1>1 DEF LogsInv, Rising, Ordered, Increasing, Below, Elements
<1>3. EachLogOnce'
  <2>1. Distinct(sent) /\ Once(1..logged, Elements(log_queue), Carried,
                              Elements(flushing), Elements(sent), failed, skipped)
    BY OnceMeans DEF LogsInv
  <2> QED
    BY <1>1, <2>1, OnceMeansNext
<1> QED
  BY <1>2, <1>3 DEF LogsInv

LEMMA PushKeepsLogs ==
  ASSUME TypeOK, LogsInv, NEW p \in Producers, Push(p)
  PROVE  LogsInv'
<1> DEFINE Q == Elements(log_queue)
           C == Carried
           F == Elements(flushing)
           S == Elements(sent)
           n == logged + 1
<1>1. /\ producer[p] = "push" /\ producer' = [producer EXCEPT ![p] = "claim"]
      /\ log_queue' = Append(log_queue, n) /\ logged' = n
      /\ UNCHANGED <<worker, batch, flushing, sent, failed, skipped, owner, quiet>>
      /\ owner \notin {"none", "gone", "aborted"}
  BY DEF Push, poolVars, netVars, ownerVars, Alive
<1>2. log_queue \in Seq(Nat \ {0}) /\ n \in Nat \ {0} /\ logged \in Nat
  BY DEF TypeOK
<1>3. Elements(log_queue') = Q \cup {n} /\ Carried' = C
  BY <1>1, <1>2, ElementsOfAppend DEF Carried, Elements
<1>4. /\ Once(1..logged, Q, C, F, S, failed, skipped) /\ Distinct(sent)
  BY OnceMeans DEF LogsInv
<1>5. 1..n = 1..logged \cup {n} /\ \A x \in 1..logged : x < n
  BY <1>2
<1>6. \A x \in Q \cup C \cup F \cup S \cup failed \cup skipped : x < n /\ x # n
  BY <1>2, <1>4, <1>5 DEF Once
<1> HIDE DEF Q, C, F, S, n
<1>7. Once(1..n, Q \cup {n}, C, F, S, failed, skipped)
  BY <1>4, <1>5, <1>6 DEF Once
<1>8. EachLogOnce'
  BY <1>1, <1>3, <1>4, <1>7, OnceMeansNext DEF F, S
<1>9. InHands'
  BY <1>1 DEF LogsInv, InHands
<1>10. Rising'
  <2>1. Increasing(log_queue')
    BY <1>1, <1>2, <1>6, IncreasingAppend DEF LogsInv, Rising, Q
  <2> QED
    BY <1>1, <2>1 DEF LogsInv, Rising, Increasing
<1>11. QuietStop'
  BY <1>1 DEF LogsInv, QuietStop
<1>12. Ordered'
  <2> SUFFICES ASSUME Orderly'
               PROVE  /\ Increasing(sent)
                      /\ Below(S, C \cup F \cup (Q \cup {n}))
                      /\ Below(C \cup F, Q \cup {n})
    <3>1. Elements(flushing') = F /\ Elements(sent') = S
      BY <1>1 DEF F, S
    <3>2. Increasing(sent) => Increasing(sent')
      BY <1>1
    <3> QED
      BY <1>3, <3>1, <3>2, OrderedMeans
  <2>1. /\ Increasing(sent) /\ Below(S, C \cup F \cup Q) /\ Below(C \cup F, Q)
    BY <1>1 DEF LogsInv, Ordered, Orderly, C, F, S, Q
  <2> QED
    BY <1>6, <2>1 DEF Below
<1> QED
  BY <1>8, <1>9, <1>10, <1>11, <1>12 DEF LogsInv

LEMMA CollectKeepsLogs ==
  ASSUME TypeOK, SlotToken, LogsInv, NEW w \in Workers, Collect(w)
  PROVE  LogsInv'
<1> DEFINE Q == Elements(log_queue)
           F == Elements(flushing)
           S == Elements(sent)
<1>1. /\ worker[w] = "collect"
      /\ worker' = [worker EXCEPT ![w] = IF log_queue # <<>> /\ socket # "closed"
                                         THEN "write" ELSE "release"]
      /\ log_queue' = <<>>
      /\ UNCHANGED <<logged, producer, flushing, sent, failed, owner, quiet>>
      /\ IF socket # "closed"
         THEN batch' = [batch EXCEPT ![w] = log_queue] /\ skipped' = skipped
         ELSE skipped' = skipped \cup Q /\ batch' = batch
      /\ owner \notin {"none", "gone", "aborted"}
  BY DEF Collect, WorkerGoes, ownerVars, Alive
<1>2. batch \in [Workers -> Seq(Nat \ {0})] /\ worker \in [Workers -> WorkerStates]
  BY DEF TypeOK
<1>3. /\ \A v \in Workers : batch[v] = <<>>
      /\ Carried = {}
  <2>1. batch[w] = <<>>
    BY <1>1 DEF LogsInv, InHands
  <2> QED
    BY <1>1, <2>1, OneCarries, ElementsOfEmpty DEF LogsInv
<1>4. Elements(log_queue') = {} /\ (log_queue = <<>> => Q = {})
  BY <1>1, ElementsOfEmpty
<1>5. Carried' = IF socket # "closed" THEN Q ELSE {}
  <2>1. \A x : x \in Carried' <=> \E v \in Workers : x \in Elements(batch'[v])
    BY DEF Carried, Elements
  <2>2. CASE socket # "closed"
    <3>1. /\ \A v \in Workers : v # w => batch'[v] = <<>>
          /\ batch'[w] = log_queue
      BY <1>1, <1>2, <1>3, <2>2
    <3> QED
      BY <2>1, <2>2, <3>1, ElementsOfEmpty
  <2>3. CASE ~(socket # "closed")
    BY <1>1, <1>3, <2>1, <2>3, ElementsOfEmpty
  <2> QED
    BY <2>2, <2>3
<1>6. InHands'
  <2> SUFFICES ASSUME NEW v \in Workers, batch'[v] # <<>>
               PROVE  worker'[v] = "write"
    BY <1>1 DEF LogsInv, InHands
  <2>1. v = w /\ log_queue # <<>> /\ socket # "closed"
    BY <1>1, <1>2, <1>3
  <2> QED
    BY <1>1, <1>2, <2>1
<1>7. Rising'
  <2>1. Increasing(log_queue')
    BY <1>1 DEF Increasing
  <2>2. \A v \in Workers : Increasing(batch'[v])
    BY <1>1, <1>2 DEF LogsInv, Rising, Increasing
  <2> QED
    BY <1>1, <2>1, <2>2 DEF LogsInv, Rising, Increasing
<1>8. EachLogOnce'
  <2>1. Once(1..logged, Q, {}, F, S, failed, skipped) /\ Distinct(sent)
    BY <1>3, OnceMeans DEF LogsInv
  <2> HIDE DEF Q, F, S
  <2>2. /\ Once(1..logged, {}, Q, F, S, failed, skipped)
        /\ Once(1..logged, {}, {}, F, S, failed, skipped \cup Q)
    BY <2>1 DEF Once
  <2> QED
    BY <1>1, <1>4, <1>5, <2>1, <2>2, OnceMeansNext DEF F, S
<1>9. QuietStop'
  <2> SUFFICES ASSUME quiet, owner \in {"flush", "send"}, Carried' # {}
               PROVE  flushing = <<>>
    BY <1>1 DEF LogsInv, QuietStop
  <2>1. log_queue # <<>>
    BY <1>4, <1>5
  <2> QED
    BY <2>1 DEF LogsInv, QuietStop, InHands
<1>10. Ordered'
  <2> SUFFICES ASSUME Orderly'
               PROVE  /\ Increasing(sent)
                      /\ Below(S, Carried' \cup F \cup {})
                      /\ Below(Carried' \cup F, {})
    BY <1>1, <1>4 DEF Ordered, Increasing, Below, Elements
  <2>1. /\ Increasing(sent) /\ Below(S, Carried \cup F \cup Q)
    BY <1>1 DEF LogsInv, Ordered, Orderly
  <2> QED
    BY <1>5, <2>1 DEF Below
<1> QED
  BY <1>6, <1>7, <1>8, <1>9, <1>10 DEF LogsInv

LEMMA WriteKeepsLogs ==
  ASSUME TypeOK, SlotToken, LogsInv, NEW w \in Workers, WriteSucceeds(w) \/ WriteFails(w)
  PROVE  LogsInv'
<1> DEFINE Q == Elements(log_queue)
           C == Elements(batch[w])
           F == Elements(flushing)
           S == Elements(sent)
<1>1. /\ worker[w] = "write" /\ worker' = [worker EXCEPT ![w] = "release"]
      /\ batch' = [batch EXCEPT ![w] = <<>>]
      /\ UNCHANGED <<log_queue, logged, producer, flushing, owner, quiet, skipped>>
      /\ \/ sent' = sent \o batch[w] /\ failed' = failed
         \/ failed' = failed \cup C /\ sent' = sent
      /\ owner \notin {"none", "gone", "aborted"}
  BY DEF WriteSucceeds, WriteFails, WorkerGoes, ownerVars, queueVars, Alive
<1>2. /\ batch \in [Workers -> Seq(Nat \ {0})] /\ worker \in [Workers -> WorkerStates]
      /\ batch[w] \in Seq(Nat \ {0}) /\ sent \in Seq(Nat \ {0})
  BY DEF TypeOK
<1>3. /\ \A v \in Workers : v # w => batch[v] = <<>>
      /\ Carried = C
  BY <1>1, OneCarries DEF LogsInv
<1>4. \A v \in Workers : batch'[v] = <<>>
  BY <1>1, <1>2, <1>3
<1>5. Carried' = {}
  <2>1. \A x : x \in Carried' <=> \E v \in Workers : x \in Elements(batch'[v])
    BY DEF Carried, Elements
  <2> QED
    BY <1>4, <2>1, ElementsOfEmpty
<1>6. Elements(sent \o batch[w]) = S \cup C
  BY <1>2, ElementsOfConcat
<1>7. InHands' /\ Rising'
  <2>1. \A v \in Workers : Increasing(batch'[v])
    BY <1>4 DEF Increasing
  <2> QED
    BY <1>1, <1>4, <2>1 DEF LogsInv, InHands, Rising, Increasing
<1>8. QuietStop'
  BY <1>1, <1>5 DEF LogsInv, QuietStop
<1>9. EachLogOnce'
  <2>1. Once(1..logged, Q, C, F, S, failed, skipped) /\ Distinct(sent)
    BY <1>3, OnceMeans DEF LogsInv
  <2>2. S \cap C = {}
    BY <2>1 DEF Once
  <2>3. Distinct(sent \o batch[w])
    BY <1>2, <2>1, <2>2, DistinctConcat DEF LogsInv, Rising
  <2> HIDE DEF Q, C, F, S
  <2>4. /\ Once(1..logged, Q, {}, F, S \cup C, failed, skipped)
        /\ Once(1..logged, Q, {}, F, S, failed \cup C, skipped)
    BY <2>1 DEF Once
  <2>5. /\ Elements(log_queue') = Q /\ Elements(flushing') = F /\ logged' = logged
        /\ skipped' = skipped
    BY <1>1 DEF Q, F
  <2>6. CASE sent' = sent \o batch[w] /\ failed' = failed
    BY <1>5, <1>6, <2>3, <2>4, <2>5, <2>6, OnceMeansNext
  <2>7. CASE failed' = failed \cup C /\ sent' = sent
    BY <1>5, <2>1, <2>4, <2>5, <2>7, OnceMeansNext DEF S
  <2> QED
    BY <1>1, <2>6, <2>7
<1>10. Ordered'
  <2> SUFFICES ASSUME Orderly'
               PROVE  /\ Increasing(sent')
                      /\ Below(Elements(sent'), F \cup Q)
                      /\ Below(F, Q)
    BY <1>1, <1>5 DEF Ordered, Increasing, Below, Elements
  <2>1. /\ Increasing(sent) /\ Below(S, C \cup F \cup Q) /\ Below(C \cup F, Q)
    BY <1>1, <1>3 DEF LogsInv, Ordered, Orderly
  <2>2. Below(S, F \cup Q) /\ Below(F, Q)
    BY <2>1 DEF Below
  <2>3. CASE sent' = sent \o batch[w]
    <3>1. Before(sent, batch[w])
      BY <2>1, BeforeMeans DEF Below
    <3>2. Increasing(sent')
      BY <1>2, <2>1, <2>3, <3>1, IncreasingConcat DEF LogsInv, Rising
    \* When flushSync has messages no worker has any.
    <3>3. Below(C, F)
      <4>1. CASE flushing = <<>>
        BY <4>1, ElementsOfEmpty DEF Below
      <4>2. CASE flushing # <<>>
        <5>1. owner = "send"
          BY <1>1, <4>2 DEF LogsInv, InHands
        <5>2. quiet
          BY <1>1, <5>1 DEF Orderly
        <5>3. Carried = {}
          BY <4>2, <5>1, <5>2 DEF LogsInv, QuietStop
        <5> QED
          BY <1>3, <5>3 DEF Below
      <4> QED
        BY <4>1, <4>2
    <3>4. Below(S \cup C, F \cup Q)
      BY <2>1, <3>3 DEF Below
    <3> QED
      BY <1>6, <2>2, <2>3, <3>2, <3>4
  <2>4. CASE sent' = sent
    BY <2>1, <2>2, <2>4
  <2> QED
    BY <1>1, <2>3, <2>4
<1> QED
  BY <1>7, <1>8, <1>9, <1>10 DEF LogsInv

LEMMA FlushKeepsLogs ==
  ASSUME TypeOK, LogsInv, FlushCollect \/ FlushSend
  PROVE  LogsInv'
<1> DEFINE Q == Elements(log_queue)
           C == Carried
           F == Elements(flushing)
           S == Elements(sent)
<1>1. /\ log_queue \in Seq(Nat \ {0}) /\ flushing \in Seq(Nat \ {0})
      /\ sent \in Seq(Nat \ {0})
  BY DEF TypeOK
<1>2. UNCHANGED <<worker, batch, producer, quiet, logged, failed>> /\ Carried' = C
  <2>1. UNCHANGED <<worker, batch, producer, quiet, logged, failed>>
    BY DEF FlushCollect, FlushSend, OwnerGoes, poolVars, queueVars, netVars
  <2> QED
    BY <2>1 DEF Carried, Elements
<1>3. Once(1..logged, Q, C, F, S, failed, skipped) /\ Distinct(sent)
  BY OnceMeans DEF LogsInv
<1>4. CASE FlushCollect
  <2>1. /\ owner = "flush" /\ owner' = "send" /\ flushing' = log_queue
        /\ log_queue' = <<>> /\ UNCHANGED <<sent, skipped>>
    BY <1>4 DEF FlushCollect, OwnerGoes, netVars
  <2>2. flushing = <<>> /\ F = {}
    BY <2>1, ElementsOfEmpty DEF LogsInv, InHands
  <2>3. Elements(log_queue') = {} /\ Elements(flushing') = Q /\ Elements(sent') = S
    BY <2>1, ElementsOfEmpty
  <2>4. InHands' /\ Rising'
    BY <1>2, <2>1 DEF LogsInv, InHands, Rising, Increasing
  <2>5. QuietStop'
    BY <1>2, <2>1 DEF LogsInv, QuietStop
  <2>6. Ordered'
    <3> SUFFICES ASSUME Orderly'
                 PROVE  /\ Increasing(sent)
                        /\ Below(S, C \cup Q \cup {})
                        /\ Below(C \cup Q, {})
      BY <1>2, <2>1, <2>3 DEF Ordered, Increasing
    <3>1. Increasing(sent) /\ Below(S, C \cup F \cup Q)
      BY <1>2, <2>1 DEF LogsInv, Ordered, Orderly
    <3> QED
      BY <3>1 DEF Below
  <2>7. EachLogOnce'
    <3> HIDE DEF Q, C, F, S
    <3>1. Once(1..logged, {}, C, Q, S, failed, skipped)
      BY <1>3, <2>2 DEF Once
    <3> QED
      BY <1>2, <1>3, <2>1, <2>3, <3>1, OnceMeansNext
  <2> QED
    BY <2>4, <2>5, <2>6, <2>7 DEF LogsInv
<1>5. CASE FlushSend
  <2>1. /\ owner = "send" /\ owner' = "close" /\ flushing' = <<>>
        /\ log_queue' = log_queue
        /\ \/ sent' = sent \o flushing /\ skipped' = skipped
           \/ skipped' = skipped \cup F /\ sent' = sent
    <3>1. flushing = <<>> => F = {}
      BY ElementsOfEmpty
    <3> QED
      BY <1>5, <3>1 DEF FlushSend, OwnerGoes, queueVars
  <2>2. Elements(flushing') = {} /\ Elements(sent \o flushing) = S \cup F
    BY <1>1, <2>1, ElementsOfEmpty, ElementsOfConcat
  <2>3. InHands' /\ Rising'
    BY <1>2, <2>1 DEF LogsInv, InHands, Rising, Increasing
  <2>4. QuietStop'
    BY <1>2, <2>1 DEF LogsInv, QuietStop
  <2>5. Ordered'
    <3> SUFFICES ASSUME Orderly'
                 PROVE  /\ Increasing(sent')
                        /\ Below(Elements(sent'), C \cup Q)
                        /\ Below(C, Q)
      BY <1>2, <2>1, <2>2 DEF Ordered, Increasing, Below
    <3>1. /\ Increasing(sent) /\ Below(S, C \cup F \cup Q) /\ Below(C \cup F, Q) /\ quiet
      BY <1>2, <2>1 DEF LogsInv, Ordered, Orderly
    <3>2. Below(S, C \cup Q) /\ Below(C, Q)
      BY <3>1 DEF Below
    <3>3. CASE sent' = sent \o flushing
      <4>1. Before(sent, flushing)
        BY <3>1, BeforeMeans DEF Below
      <4>2. Increasing(sent')
        BY <1>1, <3>1, <3>3, <4>1, IncreasingConcat DEF LogsInv, Rising
      <4>3. Below(F, C)
        <5>1. flushing = <<>> \/ C = {}
          BY <2>1, <3>1 DEF LogsInv, QuietStop
        <5> QED
          BY <5>1, ElementsOfEmpty DEF Below
      <4>4. Below(S \cup F, C \cup Q)
        BY <3>1, <4>3 DEF Below
      <4> QED
        BY <2>2, <3>2, <3>3, <4>2, <4>4
    <3>4. CASE sent' = sent
      BY <3>1, <3>2, <3>4
    <3> QED
      BY <2>1, <3>3, <3>4
  <2>6. EachLogOnce'
    <3>1. S \cap F = {}
      BY <1>3 DEF Once
    <3>2. Distinct(sent \o flushing)
      BY <1>1, <1>3, <3>1, DistinctConcat DEF LogsInv, Rising
    <3> HIDE DEF Q, C, F, S
    <3>3. /\ Once(1..logged, Q, C, {}, S \cup F, failed, skipped)
          /\ Once(1..logged, Q, C, {}, S, failed, skipped \cup F)
      BY <1>3 DEF Once
    <3>4. Elements(log_queue') = Q
      BY <2>1 DEF Q
    <3>5. CASE sent' = sent \o flushing /\ skipped' = skipped
      BY <1>2, <2>2, <3>2, <3>3, <3>4, <3>5, OnceMeansNext
    <3>6. CASE skipped' = skipped \cup F /\ sent' = sent
      BY <1>2, <1>3, <2>2, <3>3, <3>4, <3>6, OnceMeansNext DEF S
    <3> QED
      BY <2>1, <3>5, <3>6
  <2> QED
    BY <2>3, <2>4, <2>5, <2>6 DEF LogsInv
<1> QED
  BY <1>4, <1>5

\* SpinEnds: a drain that still had messages would hold the slot.
LEMMA NothingCarried ==
  ASSUME TypeOK, SlotToken, InHands, ~drain_pending
  PROVE  Carried = {}
<1>1. \A w \in Workers : batch[w] = <<>>
  <2> SUFFICES ASSUME NEW w \in Workers, batch[w] # <<>>
               PROVE  FALSE
    OBVIOUS
  <2>1. w \in Draining
    BY DEF InHands, Draining
  <2> QED
    BY <2>1, OneDrainer
<1> QED
  BY <1>1, CarriedMeans, ElementsOfEmpty

LEMMA ProducerKeepsLogs ==
  ASSUME TypeOK, LogsInv, NEW p \in Producers,
         ReadInstance(p) \/ ProducerStep(p) \/ AbortAfterCritical(p)
  PROVE  LogsInv'
<1>1. CASE Push(p)
  BY <1>1, PushKeepsLogs
<1>2. CASE ReadInstance(p) \/ Claim(p) \/ Submit(p) \/ AbortAfterCritical(p)
  <2>1. UNCHANGED <<log_queue, batch, flushing, sent, failed, skipped, logged, quiet,
                    worker>>
    BY <1>2 DEF ReadInstance, Claim, Submit, AbortAfterCritical, queueVars, poolVars,
       netVars, ownerVars
  <2>2. owner' \in {owner, "aborted"}
    BY <1>2 DEF ReadInstance, Claim, Submit, AbortAfterCritical, ownerVars
  <2>3. InHands'
    BY <2>1, <2>2 DEF LogsInv, InHands
  <2>4. Carried' = Carried
    BY <2>1 DEF Carried, Elements
  <2>5. QuietStop'
    <3>1. ASSUME quiet, owner' \in {"spin", "flush", "send", "close", "clear", "gone"},
                 NEW r \in Producers
          PROVE  producer'[r] = "idle"
      <4>1. owner' = owner /\ producer[r] = "idle" /\ producer[p] = "idle"
        BY <2>2, <3>1 DEF LogsInv, QuietStop
      <4> QED
        BY <1>2, <3>1, <4>1 DEF ReadInstance, MayLog, Claim, Submit, AbortAfterCritical
    <3> QED
      BY <2>1, <2>2, <2>4, <3>1 DEF LogsInv, QuietStop
  <2>6. Orderly' => Orderly
    BY <2>1, <2>2 DEF Orderly
  <2> QED
    BY <2>1, <2>3, <2>5, <2>6, OthersMoveNoLog
<1> QED
  BY <1>1, <1>2 DEF ProducerStep

LEMMA WorkerKeepsLogs ==
  ASSUME TypeOK, SlotToken, LogsInv, NEW w \in Workers, WorkerStep(w)
  PROVE  LogsInv'
<1>1. CASE Collect(w)
  BY <1>1, CollectKeepsLogs
<1>2. CASE WriteSucceeds(w) \/ WriteFails(w)
  BY <1>2, WriteKeepsLogs
<1>3. CASE StartDrain(w) \/ Release(w) \/ Recheck(w)
  <2>1. UNCHANGED <<log_queue, batch, flushing, sent, failed, skipped, logged, quiet,
                    producer, owner>>
    BY <1>3 DEF StartDrain, Release, Recheck, queueVars, netVars, ownerVars
  <2>2. \A v \in Workers : worker[v] = "write" => worker'[v] = "write"
    BY <1>3 DEF StartDrain, Release, Recheck, WorkerGoes, TypeOK
  <2>3. InHands'
    BY <2>1, <2>2 DEF LogsInv, InHands
  <2>4. Carried' = Carried
    BY <2>1 DEF Carried, Elements
  <2>5. QuietStop' /\ (Orderly' => Orderly)
    BY <2>1, <2>4 DEF LogsInv, QuietStop, Orderly
  <2> QED
    BY <2>1, <2>3, <2>5, OthersMoveNoLog
<1> QED
  BY <1>1, <1>2, <1>3 DEF WorkerStep

LEMMA OwnerKeepsLogs ==
  ASSUME TypeOK, SlotToken, LogsInv, OwnerStep
  PROVE  LogsInv'
<1>1. CASE FlushCollect \/ FlushSend
  BY <1>1, FlushKeepsLogs
<1> DEFINE Quiescent == Create \/ Connecting \/ PeerLeaves \/ CloseSocket \/ ClearInstance
<1>2. CASE Quiescent \/ BeginStop \/ SpinEnds
  <2> USE DEF Quiescent, OwnerGoes, Create, Connecting, ConnectSucceeds, ConnectFails,
              PeerLeaves, BeginStop, SpinEnds, CloseSocket, ClearInstance
  <2>1. UNCHANGED <<log_queue, batch, flushing, sent, failed, skipped, logged, quiet,
                    worker, producer>>
    BY <1>2 DEF queueVars, poolVars, netVars, ownerVars
  <2>2. /\ owner' = "send" => owner = "send"
        /\ owner = "send" => owner' = "send"
        /\ owner = "aborted" => owner' = "aborted"
    BY <1>2 DEF ownerVars
  <2>3. InHands'
    BY <2>1, <2>2 DEF LogsInv, InHands
  <2>4. Orderly' => Orderly
    BY <1>2 DEF Orderly, ownerVars
  <2>5. Carried' = Carried
    BY <2>1 DEF Carried, Elements
  <2>6. ASSUME quiet, owner' \in {"spin", "flush", "send", "close", "clear", "gone"}
        PROVE  \A p \in Producers : producer'[p] = "idle"
    BY <1>2, <2>1, <2>6 DEF LogsInv, QuietStop, ownerVars
  <2>7. ASSUME owner' = "flush", Carried # {}
        PROVE  owner = "flush"
    <3>1. drain_pending
      BY <2>7, NothingCarried DEF LogsInv
    <3> QED
      BY <1>2, <2>7, <3>1 DEF ownerVars
  <2> HIDE DEF Quiescent, OwnerGoes, Create, Connecting, ConnectSucceeds, ConnectFails,
               PeerLeaves, BeginStop, SpinEnds, CloseSocket, ClearInstance
  <2>8. QuietStop'
    BY <2>1, <2>2, <2>5, <2>6, <2>7 DEF LogsInv, QuietStop
  <2> QED
    BY <2>1, <2>3, <2>4, <2>8, OthersMoveNoLog
<1> QED
  BY <1>1, <1>2 DEF OwnerStep, Stopping

LEMMA InitLogs == Init => LogsInv
<1> SUFFICES ASSUME Init PROVE LogsInv
  OBVIOUS
<1>1. /\ log_queue = <<>> /\ flushing = <<>> /\ sent = <<>> /\ owner = "none"
      /\ \A w \in Workers : batch[w] = <<>>
      /\ logged = 0 /\ failed = {} /\ skipped = {}
  BY DEF Init
<1>2. /\ Elements(log_queue) = {} /\ Elements(flushing) = {} /\ Elements(sent) = {}
      /\ Carried = {} /\ 1..logged = {}
  BY <1>1, ElementsOfEmpty, CarriedMeans
<1>3. InHands /\ Rising /\ QuietStop /\ Increasing(sent) /\ Distinct(sent)
  BY <1>1 DEF InHands, Rising, QuietStop, Increasing, Distinct
<1>4. Ordered
  BY <1>2, <1>3 DEF Ordered, Below
<1>5. EachLogOnce
  BY <1>1, <1>2, <1>3, OnceMeans DEF Once
<1> QED
  BY <1>3, <1>4, <1>5 DEF LogsInv

\* The drains, the flush and the producers keep the messages apart and in order.
LEMMA LoggerKeepsLogs == Spec => []LogsInv
<1>1. TypeOK /\ SlotToken /\ LogsInv /\ [Next]_vars => LogsInv'
  <2> SUFFICES ASSUME TypeOK, SlotToken, LogsInv, [Next]_vars PROVE LogsInv'
    OBVIOUS
  <2>1. CASE UNCHANGED vars
    <3>1. UNCHANGED <<log_queue, batch, flushing, sent, failed, skipped, logged, quiet,
                      worker, producer, owner>>
      BY <2>1 DEF vars, queueVars, poolVars, netVars, ownerVars
    <3>2. Carried' = Carried
      BY <3>1 DEF Carried, Elements
    <3>3. InHands' /\ QuietStop' /\ (Orderly' => Orderly)
      BY <3>1, <3>2 DEF LogsInv, InHands, QuietStop, Orderly
    <3> QED
      BY <3>1, <3>3, OthersMoveNoLog
  <2> QED
    BY <2>1, ProducerKeepsLogs, WorkerKeepsLogs, OwnerKeepsLogs
       DEF Next, OwnerStep, Terminated
<1> QED
  BY <1>1, InitLogs, LoggerTypes, OneDrainAtATime, PTL DEF Spec

(***************************************************************************)
(* However many workers take turns to drain, messages reach the socket in  *)
(* the order they were logged, the flush of a quiet shutdown included.     *)
(***************************************************************************)
THEOREM MessagesKeepOrder == Spec => []KeepsOrder
<1>1. LogsInv => KeepsOrder
  <2> SUFFICES ASSUME LogsInv, quiet \/ owner \in {"connecting", "up", "spin"}
               PROVE  /\ Increasing(sent)
                      /\ Before(sent, log_queue)
                      /\ \A b \in Batches : Before(sent, b) /\ Before(b, log_queue)
    BY DEF KeepsOrder
  <2>1. /\ Increasing(sent)
        /\ Below(Elements(sent), Carried \cup Elements(flushing) \cup Elements(log_queue))
        /\ Below(Carried \cup Elements(flushing), Elements(log_queue))
    BY DEF LogsInv, Ordered, Orderly
  <2>2. \A b \in Batches : Elements(b) \subseteq Carried \cup Elements(flushing)
    BY CarriedMeans DEF Batches
  <2>3. Below(Elements(sent), Elements(log_queue))
    BY <2>1 DEF Below
  <2>4. ASSUME NEW b \in Batches
        PROVE  Below(Elements(sent), Elements(b)) /\ Below(Elements(b), Elements(log_queue))
    BY <2>1, <2>2 DEF Below
  <2> QED
    BY <2>1, <2>3, <2>4, BeforeMeans
<1> QED
  BY <1>1, LoggerKeepsLogs, PTL

(***************************************************************************)
(* Each message that was logged is in exactly one place, at any moment and *)
(* for any interleaving of the loggers, the drains, the shutdown and the   *)
(* peer: none is lost on the way from one thread to another, and none is   *)
(* written twice.                                                          *)
(***************************************************************************)
THEOREM EachMessageOnce == Spec => []EachLogOnce
BY LoggerKeepsLogs, PTL DEF LogsInv
=============================================================================

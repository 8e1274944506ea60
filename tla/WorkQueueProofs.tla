--------------------------- MODULE WorkQueueProofs ---------------------------
(***************************************************************************)
(* The promises of the abstract work queue, for any set of slots and any   *)
(* number of jobs.                                                         *)
(***************************************************************************)
EXTENDS WorkQueue, SequenceTheorems, TLAPS

Promise == TypeOK /\ FifoStart /\ ExactlyOnce

(***************************************************************************)
(* Accepting a job numbers it after all others (queueJob's emplace).       *)
(***************************************************************************)
LEMMA AcceptKeepsPromise == ASSUME Promise, Accept PROVE Promise'
<1> USE DEF Promise, TypeOK, NoJob, Accept
<1>1. TypeOK'
  OBVIOUS
<1>2. /\ Len(pending') = Len(pending) + 1
      /\ \A i \in 1..Len(pending) : pending'[i] = pending[i]
      /\ pending'[Len(pending) + 1] = accepted + 1
  OBVIOUS
<1>3. Started' = Started /\ Started \in Nat
  BY <1>2 DEF Started, FifoStart
<1>4. FifoStart'
  BY <1>2, <1>3 DEF FifoStart, Started
<1>5. ExactlyOnce'
  BY <1>3 DEF ExactlyOnce
<1> QED
  BY <1>1, <1>4, <1>5

(***************************************************************************)
(* Starting the oldest job moves it from the queue to a free slot (the pop *)
(* of threadLoop).                                                         *)
(***************************************************************************)
LEMMA StartKeepsPromise ==
  ASSUME Promise, NEW s \in Slots, Start(s) PROVE Promise'
<1> USE DEF Promise, TypeOK, NoJob, Start
<1>1. /\ Len(pending) \in Nat \ {0}
      /\ Head(pending) = pending[1]
      /\ Len(pending') = Len(pending) - 1
      /\ \A i \in 1..Len(pending') : pending'[i] = pending[i + 1]
  OBVIOUS
<1>2. TypeOK'
  BY <1>1
<1>3. /\ Started \in Nat
      /\ Started' = Started + 1
      /\ Head(pending) = Started + 1
  BY <1>1 DEF Started, FifoStart
<1>4. FifoStart'
  BY <1>1, <1>3 DEF FifoStart, Started
<1>5. 1..Started' = (1..Started) \cup {Started + 1} /\ Started + 1 \notin 1..Started
  BY <1>3
<1>6. running'[s] = Started + 1 /\ \A t \in Slots \ {s} : running'[t] = running[t]
  BY <1>3
<1>7. ExactlyOnce'
  <2>1. \A j \in 1..Started' : j \in finished' \/ \E t \in Slots : running'[t] = j
    <3> SUFFICES ASSUME NEW j \in 1..Started', j \notin finished
                 PROVE \E t \in Slots : running'[t] = j
      OBVIOUS
    <3>1. CASE j = Started + 1
      BY <3>1, <1>6
    <3>2. CASE j \in 1..Started
      <4>1. PICK t \in Slots : running[t] = j
        BY <3>2 DEF ExactlyOnce
      <4>2. t # s
        BY <4>1, <3>2
      <4> QED
        BY <4>1, <4>2, <1>6
    <3> QED
      BY <3>1, <3>2, <1>5
  <2>2. finished' \subseteq 1..Started'
    BY <1>5 DEF ExactlyOnce
  <2>3. ASSUME NEW t \in Slots, running'[t] # NoJob
        PROVE /\ running'[t] \in (1..Started') \ finished'
              /\ \A u \in Slots : running'[u] = running'[t] => u = t
    <3>1. CASE t = s
      <4>1. \A u \in Slots \ {s} : running'[u] # Started + 1
        BY <1>3, <1>5, <1>6 DEF ExactlyOnce
      <4> QED
        BY <3>1, <4>1, <1>5, <1>6 DEF ExactlyOnce
    <3>2. CASE t # s
      BY <3>2, <2>3, <1>5, <1>6 DEF ExactlyOnce
    <3> QED
      BY <3>1, <3>2
  <2> QED
    BY <2>1, <2>2, <2>3 DEF ExactlyOnce
<1> QED
  BY <1>2, <1>4, <1>7

(***************************************************************************)
(* A job that returns leaves its slot and never comes back.                *)
(***************************************************************************)
LEMMA FinishKeepsPromise ==
  ASSUME Promise, NEW s \in Slots, Finish(s) PROVE Promise'
<1> USE DEF Promise, TypeOK, NoJob, Finish
<1>1. TypeOK' /\ FifoStart' /\ Started' = Started
  BY DEF FifoStart, Started
<1>2. running'[s] = NoJob /\ \A t \in Slots \ {s} : running'[t] = running[t]
  OBVIOUS
<1>3. running[s] \in (1..Started) \ finished
  BY DEF ExactlyOnce
<1>4. ExactlyOnce'
  <2>1. \A j \in 1..Started' : j \in finished' \/ \E t \in Slots : running'[t] = j
    BY <1>1, <1>2 DEF ExactlyOnce
  <2>2. finished' \subseteq 1..Started'
    BY <1>1, <1>3 DEF ExactlyOnce
  <2>3. ASSUME NEW t \in Slots, running'[t] # NoJob
        PROVE /\ running'[t] \in (1..Started') \ finished'
              /\ \A u \in Slots : running'[u] = running'[t] => u = t
    BY <2>3, <1>1, <1>2, <1>3 DEF ExactlyOnce
  <2> QED
    BY <2>1, <2>2, <2>3 DEF ExactlyOnce
<1> QED
  BY <1>1, <1>4

(***************************************************************************)
(* Every behaviour of the abstract work queue starts the jobs in the order *)
(* they were accepted and executes each exactly once.                      *)
(***************************************************************************)
THEOREM WorkQueueKeepsItsPromise == Spec => []Promise
<1>1. Init => Promise
  <2> SUFFICES ASSUME Init PROVE Promise
    OBVIOUS
  <2>1. TypeOK
    BY EmptySeq DEF Init, TypeOK, NoJob
  <2>0. Len(<<>>) = 0
    BY EmptySeq, Zenon
  <2>2. Len(pending) = 0 /\ accepted = 0
    BY <2>0, Zenon DEF Init
  <2>3. Started = 0 /\ 1..0 = {}
    BY <2>2 DEF Started
  <2>4. FifoStart
    BY <2>2, <2>3 DEF FifoStart
  <2>5. ExactlyOnce
    BY <2>3 DEF Init, ExactlyOnce, NoJob
  <2> QED
    BY <2>1, <2>4, <2>5 DEF Promise
<1>2. Promise /\ [Next]_vars => Promise'
  <2> SUFFICES ASSUME Promise, [Next]_vars PROVE Promise'
    OBVIOUS
  <2>1. CASE Accept
    BY <2>1, AcceptKeepsPromise
  <2>2. ASSUME NEW s \in Slots, Start(s) PROVE Promise'
    BY <2>2, StartKeepsPromise
  <2>3. ASSUME NEW s \in Slots, Finish(s) PROVE Promise'
    BY <2>3, FinishKeepsPromise
  <2>4. CASE Close \/ UNCHANGED vars
    BY <2>4 DEF Close, vars, Promise, TypeOK, FifoStart, ExactlyOnce, Started
  <2> QED
    BY <2>1, <2>2, <2>3, <2>4 DEF Next
<1> QED
  BY <1>1, <1>2, PTL DEF Spec
=============================================================================

-------------------------- MODULE EngineLoopProofs --------------------------
(***************************************************************************)
(* Theorems about the event queue and about the main loop, for any         *)
(* threads, events, windows and layers.  The first part speaks of          *)
(* EventQueue alone.  The loop is an event queue with a window and an      *)
(* application, so that all of the first part holds of it: the second part *)
(* begins with that.                                                       *)
(***************************************************************************)
EXTENDS EngineLoop, SequenceTheorems, TLAPS

(* PART ONE: EventQueue *)

\* A thread is inside send exactly while it holds pool_mutex.
MutexHeld == \A s \in Senders : (sender[s] # "idle") <=> (pool_mutex = s)

\* An event under construction is the newest one, in the pool that receives.
Constructing == \A s \in Senders : sender[s] = "construct" =>
  /\ target[s] = index
  /\ sent > 0
  /\ queue[index] # <<>>

\* The poller swaps and iterates only while it is not inside send.
PollerApart == poller \in {"swap", "iterate"} => sender[Poller] = "idle"

\* The pool that does not receive is being walked, or is empty.
PoolsApart == IF Polling THEN /\ idx = 1 - index
                              /\ pos <= Len(queue[idx]) + 1
                              /\ poller = "callback" => pos <= Len(queue[idx])
              ELSE queue[1 - index] = <<>>

\* How many events were dispatched or are in the hands of the poller.
Taken == IF Polling THEN Len(dispatched) + (Len(queue[idx]) + 1 - pos)
         ELSE Len(dispatched)

\* The events of each pool continue the numbering of what was dispatched.
Numbered ==
  /\ sent = Taken + Len(queue[index])
  /\ \A i \in 1..Len(dispatched) : dispatched[i] = i
  /\ \A i \in 1..Len(queue[index]) : queue[index][i] = Taken + i
  /\ Polling => \A i \in pos..Len(queue[idx]) :
                   queue[idx][i] = Len(dispatched) + (i + 1 - pos)

\* Every event sent and not dispatched is built, but for the newest while it
\* is being constructed.
Built == \A n \in 1..sent :
  n > Len(dispatched) => \/ n \in built
                         \/ n = sent /\ \E s \in Senders : sender[s] = "construct"

\* The events of this poll and of earlier ones were sent before it.
BeforeSwap == IF Polling THEN Taken = horizon ELSE Len(dispatched) <= horizon

IInv == /\ TypeOK /\ MutexHeld /\ Constructing /\ PollerApart /\ PoolsApart
        /\ Numbered /\ Built /\ BeforeSwap

LEMMA PoolsAreTwo == /\ Pools = {0, 1}
                     /\ \A i \in Pools : 1 - i \in Pools /\ i # 1 - i
                     /\ \A i, j \in Pools : i # j => j = 1 - i
BY DEF Pools

LEMMA InitInv == Init => IInv
<1> SUFFICES ASSUME Init PROVE IInv
  OBVIOUS
<1>1. ~Polling
  BY DEF Init, Polling
<1>2. /\ queue \in [Pools -> Seq(Nat \ {0})] /\ dispatched \in Seq(Nat \ {0})
      /\ Len(dispatched) = 0 /\ \A i \in Pools : queue[i] = <<>> /\ Len(queue[i]) = 0
  BY EmptySeq DEF Init
<1>3. TypeOK
  BY <1>2, QueueAssumption DEF Init, TypeOK, Pools, SenderStates, PollerStates
<1>4. MutexHeld /\ Constructing /\ PollerApart
  BY QueueAssumption DEF Init, MutexHeld, Constructing, PollerApart
<1>5. PoolsApart /\ Numbered /\ Built /\ BeforeSwap
  BY <1>1, <1>2, PoolsAreTwo
     DEF Init, PoolsApart, Numbered, Built, BeforeSwap, Taken, Pools
<1> QED
  BY <1>3, <1>4, <1>5 DEF IInv

(***************************************************************************)
(* The steps of a sender.                                                  *)
(***************************************************************************)
LEMMA LockKeepsInv ==
  ASSUME IInv, NEW s \in Senders, Lock(s) PROVE IInv'
<1> USE DEF IInv, TypeOK
<1>1. TypeOK'
  BY DEF Lock, pollVars, SenderStates
<1>2. MutexHeld'
  BY QueueAssumption DEF Lock, MutexHeld
<1>3. /\ UNCHANGED <<target, sent, index, poller, idx, pos, dispatched, horizon,
                     queue, built>>
      /\ \A r \in Senders : sender'[r] = "construct" <=> sender[r] = "construct"
  BY DEF Lock, pollVars
<1>4. Constructing' /\ Built'
  BY <1>3 DEF Constructing, Built
<1>5. PollerApart'
  BY QueueAssumption DEF Lock, MaySend, PollerApart, pollVars
<1>6. PoolsApart' /\ Numbered' /\ BeforeSwap'
  BY <1>3 DEF PoolsApart, Numbered, BeforeSwap, Taken, Polling
<1> QED
  BY <1>1, <1>2, <1>4, <1>5, <1>6

LEMMA AllocateKeepsInv ==
  ASSUME IInv, NEW s \in Senders, Allocate(s) PROVE IInv'
<1> USE DEF IInv, TypeOK
<1>1. /\ sent' = sent + 1
      /\ queue' = [queue EXCEPT ![index] = Append(@, sent + 1)]
      /\ target' = [target EXCEPT ![s] = index]
      /\ sender' = [sender EXCEPT ![s] = "construct"]
      /\ sender[s] = "allocate"
      /\ UNCHANGED <<pool_mutex, index, poller, idx, pos, dispatched, horizon, built>>
  BY DEF Allocate, pollVars
<1>2. /\ queue'[index] = Append(queue[index], sent + 1)
      /\ queue'[index] \in Seq(Nat \ {0})
      /\ Len(queue'[index]) = Len(queue[index]) + 1
      /\ queue'[index][Len(queue[index]) + 1] = sent + 1
      /\ \A i \in 1..Len(queue[index]) : queue'[index][i] = queue[index][i]
      /\ queue'[index] # <<>>
      /\ queue'[1 - index] = queue[1 - index]
      /\ queue' \in [Pools -> Seq(Nat \ {0})]
  <2>1. sent + 1 \in Nat \ {0} /\ queue[index] \in Seq(Nat \ {0})
    OBVIOUS
  <2>2. /\ Append(queue[index], sent + 1) \in Seq(Nat \ {0})
        /\ Len(Append(queue[index], sent + 1)) = Len(queue[index]) + 1
        /\ Append(queue[index], sent + 1)[Len(queue[index]) + 1] = sent + 1
        /\ \A i \in 1..Len(queue[index]) :
              Append(queue[index], sent + 1)[i] = queue[index][i]
    BY <2>1, AppendProperties
  <2>3. queue'[index] = Append(queue[index], sent + 1)
    BY <1>1
  <2>4. Len(queue'[index]) # 0
    BY <2>1, <2>2, <2>3, LenProperties
  <2> QED
    BY <1>1, <2>2, <2>3, <2>4, PoolsAreTwo, EmptySeq
<1>3. TypeOK'
  BY <1>1, <1>2 DEF SenderStates
<1>4. MutexHeld' /\ PollerApart'
  BY <1>1 DEF MutexHeld, PollerApart
<1>5. Constructing'
  <2> SUFFICES ASSUME NEW r \in Senders, sender'[r] = "construct"
               PROVE  target'[r] = index' /\ sent' > 0 /\ queue'[index'] # <<>>
    BY DEF Constructing
  <2>1. r = s
    BY <1>1 DEF MutexHeld
  <2> QED
    BY <1>1, <1>2, <2>1
<1>6. /\ Polling' <=> Polling
      /\ Polling => queue'[idx'] = queue[idx]
      /\ Taken' = Taken
  BY <1>1, <1>2 DEF Polling, Taken, PoolsApart
<1>7. PoolsApart' /\ BeforeSwap'
  BY <1>1, <1>2, <1>6 DEF PoolsApart, BeforeSwap, Polling
<1>8. Taken \in Nat
  BY LenProperties DEF Taken, PoolsApart
<1>9. Numbered'
  <2>1. sent' = Taken' + Len(queue'[index'])
    BY <1>1, <1>2, <1>6, <1>8, LenProperties DEF Numbered
  <2>2. \A i \in 1..Len(queue'[index']) : queue'[index'][i] = Taken' + i
    <3> TAKE i \in 1..Len(queue'[index'])
    <3>1. CASE i \in 1..Len(queue[index])
      BY <1>1, <1>2, <1>6, <3>1 DEF Numbered
    <3>2. CASE i = Len(queue[index]) + 1
      BY <1>1, <1>2, <1>6, <1>8, <3>2, LenProperties DEF Numbered
    <3> QED
      BY <1>1, <1>2, <3>1, <3>2, LenProperties
  <2>3. Polling' => \A i \in pos'..Len(queue'[idx']) :
                      queue'[idx'][i] = Len(dispatched') + (i + 1 - pos')
    BY <1>1, <1>6 DEF Numbered
  <2> QED
    BY <1>1, <2>1, <2>2, <2>3 DEF Numbered
<1>10. Built'
  <2> SUFFICES ASSUME NEW n \in 1..sent', n > Len(dispatched')
               PROVE  \/ n \in built'
                      \/ n = sent' /\ \E r \in Senders : sender'[r] = "construct"
    BY DEF Built
  <2>1. CASE n = sent'
    BY <1>1, <2>1
  <2>2. CASE n \in 1..sent
    <3>1. \A r \in Senders : sender[r] # "construct"
      BY <1>1 DEF MutexHeld
    <3> QED
      BY <1>1, <2>2, <3>1 DEF Built
  <2> QED
    BY <1>1, <2>1, <2>2
<1> QED
  BY <1>3, <1>4, <1>5, <1>7, <1>9, <1>10

LEMMA ConstructKeepsInv ==
  ASSUME IInv, NEW s \in Senders, Construct(s) PROVE IInv'
<1> USE DEF IInv, TypeOK
<1>1. /\ built' = built \cup {sent}
      /\ pool_mutex' = Free
      /\ sender' = [sender EXCEPT ![s] = "idle"]
      /\ sender[s] = "construct"
      /\ UNCHANGED <<target, sent, index, poller, idx, pos, dispatched, horizon, queue>>
  BY DEF Construct, pollVars
<1>2. TypeOK'
  BY <1>1 DEF SenderStates
<1>3. \A r \in Senders : sender'[r] = "idle"
  BY <1>1 DEF MutexHeld
<1>4. MutexHeld' /\ Constructing' /\ PollerApart'
  BY <1>1, <1>3, QueueAssumption DEF MutexHeld, Constructing, PollerApart
<1>5. PoolsApart' /\ Numbered' /\ BeforeSwap'
  BY <1>1 DEF PoolsApart, Numbered, BeforeSwap, Taken, Polling
<1>6. Built'
  BY <1>1 DEF Built
<1> QED
  BY <1>2, <1>4, <1>5, <1>6

(***************************************************************************)
(* The steps of the poller.                                                *)
(***************************************************************************)
LEMMA BeginPollKeepsInv ==
  ASSUME IInv, BeginPoll PROVE IInv'
<1> USE DEF IInv, TypeOK
<1>1. /\ UNCHANGED <<senderVars, index, idx, pos, dispatched, horizon, queue, built>>
      /\ ~Polling /\ ~Polling' /\ poller' = "swap"
  BY DEF BeginPoll, Polling
<1>2. UNCHANGED <<pool_mutex, sender, target, sent>>
  BY <1>1 DEF senderVars
<1>3. TypeOK' /\ MutexHeld' /\ Constructing' /\ Built'
  BY <1>1, <1>2 DEF PollerStates, MutexHeld, Constructing, Built
<1>4. PollerApart'
  BY <1>1, <1>2 DEF BeginPoll, PollerFree, PollerApart
<1>5. PoolsApart' /\ Numbered' /\ BeforeSwap'
  BY <1>1, <1>2 DEF PoolsApart, Numbered, BeforeSwap, Taken
<1> QED
  BY <1>3, <1>4, <1>5

LEMMA SwapKeepsInv ==
  ASSUME IInv, Swap PROVE IInv'
<1> USE DEF IInv, TypeOK
<1>1. /\ idx' = index /\ index' = 1 - index /\ pos' = 1 /\ horizon' = sent
      /\ poller' = "iterate" /\ poller = "swap" /\ pool_mutex = Free
      /\ UNCHANGED <<pool_mutex, sender, target, sent, dispatched, queue, built>>
      /\ ~Polling /\ Polling'
  BY DEF Swap, TakePool, senderVars, Polling
<1>2. \A s \in Senders : sender[s] = "idle"
  BY <1>1, QueueAssumption DEF MutexHeld
<1>3. /\ index' \in Pools /\ queue'[index'] = <<>> /\ Len(queue'[index']) = 0
      /\ queue'[idx'] = queue[index] /\ idx' = 1 - index'
      /\ Len(queue[index]) \in Nat /\ Len(dispatched) \in Nat
  BY <1>1, PoolsAreTwo, LenProperties DEF PoolsApart, Pools
<1>4. TypeOK'
  BY <1>1, <1>3 DEF PollerStates
<1>5. MutexHeld' /\ Constructing' /\ PollerApart'
  BY <1>1, <1>2, QueueAssumption DEF MutexHeld, Constructing, PollerApart
<1>6. PoolsApart'
  BY <1>1, <1>3 DEF PoolsApart
<1>7. /\ Taken = Len(dispatched)
      /\ Taken' = Len(dispatched) + Len(queue[index])
      /\ Taken' = sent
  BY <1>1, <1>3 DEF Taken, Numbered
<1>8. Numbered' /\ Built' /\ BeforeSwap'
  BY <1>1, <1>2, <1>3, <1>7 DEF Numbered, Built, BeforeSwap
<1> QED
  BY <1>4, <1>5, <1>6, <1>8

LEMMA NotifyKeepsInv ==
  ASSUME IInv, Notify PROVE IInv'
<1> USE DEF IInv, TypeOK
<1>1. /\ UNCHANGED <<pool_mutex, sender, target, sent, index, idx, pos, dispatched,
                     horizon, queue, built>>
      /\ Polling /\ Polling' /\ poller' = "callback" /\ pos <= Len(queue[idx])
  BY DEF Notify, Polling, senderVars
<1>2. TypeOK' /\ MutexHeld' /\ Constructing' /\ Built' /\ PollerApart'
  BY <1>1 DEF PollerStates, MutexHeld, Constructing, Built, PollerApart
<1>3. PoolsApart' /\ Numbered' /\ BeforeSwap'
  BY <1>1 DEF PoolsApart, Numbered, BeforeSwap, Taken
<1> QED
  BY <1>2, <1>3

LEMMA DestroyKeepsInv ==
  ASSUME IInv, Destroy PROVE IInv'
<1> USE DEF IInv, TypeOK
<1> DEFINE e == queue[idx][pos]
<1>1. /\ dispatched' = Append(dispatched, e) /\ built' = built \ {e}
      /\ pos' = pos + 1 /\ poller = "callback" /\ poller' = "iterate"
      /\ sender[Poller] = "idle"
      /\ UNCHANGED <<pool_mutex, sender, target, sent, index, idx, horizon, queue>>
      /\ Polling /\ Polling'
  BY DEF Destroy, PollerFree, senderVars, Polling
<1>2. /\ queue[idx] \in Seq(Nat \ {0}) /\ Len(queue[idx]) \in Nat
      /\ Len(dispatched) \in Nat /\ Len(queue[index]) \in Nat
      /\ pos \in 1..Len(queue[idx])
  BY <1>1, LenProperties DEF PoolsApart
<1>3. e \in Nat \ {0} /\ e = Len(dispatched) + 1
  BY <1>1, <1>2, ElementOfSeq DEF Numbered
<1>4. /\ dispatched' \in Seq(Nat \ {0})
      /\ Len(dispatched') = Len(dispatched) + 1
      /\ \A i \in 1..Len(dispatched) : dispatched'[i] = dispatched[i]
      /\ dispatched'[Len(dispatched) + 1] = e
  BY <1>1, <1>3, AppendProperties
<1> HIDE DEF e
<1>5. TypeOK'
  <2>1. pos' \in Nat \ {0} /\ poller' \in PollerStates
    BY <1>1 DEF PollerStates
  <2>2. built' \subseteq Nat
    <3>1. built \subseteq Nat
      OBVIOUS
    <3>2. built' = built \ {e}
      BY <1>1
    <3> QED
      BY <3>1, <3>2, Zenon
  <2> QED
    BY <1>1, <1>4, <2>1, <2>2
<1>6. MutexHeld' /\ Constructing' /\ PollerApart'
  BY <1>1 DEF MutexHeld, Constructing, PollerApart
<1>7. PoolsApart'
  BY <1>1, <1>2 DEF PoolsApart
<1>8. Taken' = Taken
  BY <1>1, <1>2, <1>4 DEF Taken
<1>9. BeforeSwap'
  BY <1>1, <1>8 DEF BeforeSwap
<1>10. Numbered'
  <2>1. \A i \in 1..Len(dispatched') : dispatched'[i] = i
    <3> TAKE i \in 1..Len(dispatched')
    <3>1. CASE i \in 1..Len(dispatched)
      BY <1>4, <3>1 DEF Numbered
    <3>2. CASE i = Len(dispatched) + 1
      BY <1>3, <1>4, <3>2
    <3> QED
      BY <1>2, <1>4, <3>1, <3>2
  <2>2. \A i \in pos'..Len(queue'[idx']) :
           queue'[idx'][i] = Len(dispatched') + (i + 1 - pos')
    BY <1>1, <1>2, <1>4 DEF Numbered
  <2> QED
    BY <1>1, <1>8, <2>1, <2>2 DEF Numbered
<1>11. Built'
  BY <1>1, <1>2, <1>3, <1>4 DEF Built
<1> QED
  BY <1>5, <1>6, <1>7, <1>9, <1>10, <1>11

LEMMA ResetKeepsInv ==
  ASSUME IInv, Reset PROVE IInv'
<1> USE DEF IInv, TypeOK
<1>1. /\ queue' = [queue EXCEPT ![idx] = <<>>]
      /\ poller = "iterate" /\ poller' = "idle" /\ pos > Len(queue[idx])
      /\ UNCHANGED <<pool_mutex, sender, target, sent, index, idx, pos, dispatched,
                     horizon, built>>
      /\ Polling /\ ~Polling'
  BY DEF Reset, senderVars, Polling
<1>2. /\ idx = 1 - index /\ idx # index /\ pos = Len(queue[idx]) + 1
      /\ Len(queue[idx]) \in Nat /\ Len(dispatched) \in Nat
  <2>1. Len(queue[idx]) \in Nat /\ Len(dispatched) \in Nat
    BY LenProperties
  <2>2. idx = 1 - index /\ pos <= Len(queue[idx]) + 1
    BY <1>1 DEF PoolsApart
  <2> QED
    BY <1>1, <2>1, <2>2, PoolsAreTwo
<1>3. /\ queue' \in [Pools -> Seq(Nat \ {0})]
      /\ queue'[index] = queue[index] /\ queue'[1 - index] = <<>>
  BY <1>1, <1>2, EmptySeq, PoolsAreTwo
<1>4. TypeOK'
  BY <1>1, <1>3 DEF PollerStates
<1>5. MutexHeld' /\ Constructing' /\ PollerApart' /\ Built' /\ PoolsApart'
  BY <1>1, <1>3 DEF MutexHeld, Constructing, PollerApart, Built, PoolsApart
<1>6. Taken = Len(dispatched) /\ Taken' = Len(dispatched)
  BY <1>1, <1>2 DEF Taken
<1>7. Numbered' /\ BeforeSwap'
  BY <1>1, <1>2, <1>3, <1>6 DEF Numbered, BeforeSwap
<1> QED
  BY <1>4, <1>5, <1>7

LEMMA NextKeepsInv == IInv /\ [Next]_vars => IInv'
<1> SUFFICES ASSUME IInv, [Next]_vars PROVE IInv'
  OBVIOUS
<1>1. ASSUME NEW s \in Senders, Lock(s) \/ SendStep(s) PROVE IInv'
  BY <1>1, LockKeepsInv, AllocateKeepsInv, ConstructKeepsInv DEF SendStep
<1>2. CASE PollStep
  BY <1>2, BeginPollKeepsInv, SwapKeepsInv, NotifyKeepsInv, DestroyKeepsInv,
     ResetKeepsInv DEF PollStep
<1>3. CASE UNCHANGED vars
  BY <1>3 DEF vars, senderVars, pollVars, IInv, TypeOK, MutexHeld, Constructing,
     PollerApart, PoolsApart, Numbered, Built, BeforeSwap, Taken, Polling
<1> QED
  BY <1>1, <1>2, <1>3 DEF Next

LEMMA InvHolds == Spec => []IInv
<1> QED
  BY InitInv, NextKeepsInv, PTL DEF Spec

(***************************************************************************)
(* The variables of the queue keep their types: the index is always one of *)
(* the two pools.                                                          *)
(***************************************************************************)
THEOREM EventQueueTypes == Spec => []TypeOK
<1>1. IInv => TypeOK
  BY DEF IInv
<1> QED
  BY <1>1, InvHolds, PTL

(***************************************************************************)
(* The pool the poller walks without pool_mutex is not touched by a sender *)
(* and the event whose callbacks run is constructed (event::pollEvents).   *)
(***************************************************************************)
LEMMA InvPoolsDontMeet == IInv => PoolsDontMeet
<1> SUFFICES ASSUME IInv, Polling PROVE PoolsDontMeet
  BY DEF PoolsDontMeet
<1> USE DEF IInv, TypeOK
<1>1. index # idx
  BY PoolsAreTwo DEF PoolsApart
<1>2. \A s \in Senders : sender[s] = "construct" => target[s] # idx
  BY <1>1 DEF Constructing
<1>3. ASSUME poller = "callback" PROVE queue[idx][pos] \in built
  <2>1. /\ Len(queue[idx]) \in Nat /\ Len(queue[index]) \in Nat
        /\ Len(dispatched) \in Nat /\ pos \in 1..Len(queue[idx])
    BY <1>3, LenProperties DEF PoolsApart
  <2>2. queue[idx][pos] = Len(dispatched) + 1
    BY <2>1 DEF Numbered
  <2>3. sent = Len(dispatched) + (Len(queue[idx]) + 1 - pos) + Len(queue[index])
    BY DEF Numbered, Taken
  <2>4. Len(dispatched) + 1 \in built \/
        (sent = Len(dispatched) + 1 /\ \E s \in Senders : sender[s] = "construct")
    <3>1. Len(dispatched) + 1 \in 1..sent /\ Len(dispatched) + 1 > Len(dispatched)
      BY <2>1, <2>3
    <3> QED
      BY <2>1, <3>1 DEF Built
  <2>5. ASSUME NEW s \in Senders, sender[s] = "construct" PROVE sent > Len(dispatched) + 1
    <3>1. Len(queue[index]) # 0
      BY <2>5, EmptySeq, LenProperties DEF Constructing
    <3> QED
      BY <2>1, <2>3, <3>1
  <2> QED
    BY <2>1, <2>2, <2>4, <2>5
<1> QED
  BY <1>1, <1>2, <1>3 DEF PoolsDontMeet

\* While the poller walks its pool without the mutex, no sender is in that pool.
THEOREM PollerIsAlone == Spec => []PoolsDontMeet
BY InvPoolsDontMeet, InvHolds, PTL

\* What was dispatched, what the poller has and what waits are 1 .. sent.
LEMMA InvSentInOrder == IInv => SentInOrder
<1> SUFFICES ASSUME IInv PROVE SentInOrder
  OBVIOUS
<1> USE DEF IInv, TypeOK
<1> DEFINE r == Remaining
           q == queue[index]
           d == dispatched
<1>1. q \in Seq(Nat \ {0}) /\ d \in Seq(Nat \ {0}) /\ queue[idx] \in Seq(Nat \ {0})
      /\ Len(q) \in Nat /\ Len(d) \in Nat /\ Len(queue[idx]) \in Nat
  BY LenProperties
<1>2. /\ r \in Seq(Nat \ {0})
      /\ Len(r) \in Nat
      /\ Taken = Len(d) + Len(r)
      /\ \A i \in 1..Len(r) : r[i] = Len(d) + i
  <2>1. CASE Polling
    <3>1. r = SubSeq(queue[idx], pos, Len(queue[idx]))
      BY <2>1 DEF Remaining
    <3>2. pos <= Len(queue[idx]) + 1
      BY <2>1 DEF PoolsApart
    <3>3. /\ r \in Seq(Nat \ {0})
          /\ Len(r) = Len(queue[idx]) + 1 - pos
          /\ \A i \in 1..Len(r) : r[i] = queue[idx][pos + i - 1]
      BY <1>1, <3>1, <3>2, SubSeqProperties
    <3>4. \A i \in 1..Len(r) : r[i] = Len(d) + i
      <4> TAKE i \in 1..Len(r)
      <4>1. pos + i - 1 \in pos..Len(queue[idx])
        BY <1>1, <3>2, <3>3
      <4> QED
        BY <1>1, <2>1, <3>3, <4>1 DEF Numbered
    <3> HIDE DEF r
    <3> QED
      BY <1>1, <2>1, <3>2, <3>3, <3>4 DEF Taken
  <2>2. CASE ~Polling
    BY <1>1, <2>2, EmptySeq DEF Remaining, Taken
  <2> QED
    BY <2>1, <2>2
<1>3. sent = Len(d) + Len(r) + Len(q)
  BY <1>2 DEF Numbered
<1>4. /\ \A i \in 1..Len(d) : d[i] = i
      /\ \A i \in 1..Len(q) : q[i] = Len(d) + Len(r) + i
  BY <1>2 DEF Numbered
<1> HIDE DEF r, q, d
<1> DEFINE dr == d \o r
<1>5. /\ dr \in Seq(Nat \ {0}) /\ Len(dr) = Len(d) + Len(r)
      /\ \A i \in 1..Len(dr) : dr[i] = i
  BY <1>1, <1>2, <1>4, ConcatProperties
<1> HIDE DEF dr
<1>6. /\ dr \o q \in Seq(Nat \ {0}) /\ Len(dr \o q) = sent
      /\ \A i \in 1..sent : (dr \o q)[i] = i
  <2>1. /\ dr \o q \in Seq(Nat \ {0}) /\ Len(dr \o q) = Len(dr) + Len(q)
        /\ \A i \in 1..Len(dr) + Len(q) :
              (dr \o q)[i] = IF i <= Len(dr) THEN dr[i] ELSE q[i - Len(dr)]
    BY <1>1, <1>5, ConcatProperties
  <2>2. Len(dr) \in Nat /\ Len(q) \in Nat /\ Len(dr) + Len(q) = sent
    BY <1>1, <1>2, <1>3, <1>5
  <2>3. ASSUME NEW i \in 1..sent PROVE (dr \o q)[i] = i
    <3>1. CASE i <= Len(dr)
      BY <1>5, <2>1, <2>2, <3>1
    <3>2. CASE i > Len(dr)
      <4>1. i - Len(dr) \in 1..Len(q)
        BY <2>2, <3>2
      <4>2. q[i - Len(dr)] = Len(d) + Len(r) + (i - Len(dr))
        BY <1>4, <4>1
      <4> QED
        BY <1>1, <1>2, <1>5, <2>1, <2>2, <3>2, <4>2
    <3> QED
      BY <2>2, <3>1, <3>2
  <2> QED
    BY <2>1, <2>2, <2>3
<1>7. dr \o q = [n \in 1..sent |-> n]
  BY <1>6, LenProperties
<1> QED
  BY <1>7 DEF dr, d, r, q, SentInOrder

(***************************************************************************)
(* Every event is dispatched at most once and in the order of sending, and *)
(* none is lost between the two pools.                                     *)
(***************************************************************************)
THEOREM EventsInOrder == Spec => []SentInOrder
BY InvSentInOrder, InvHolds, PTL

(***************************************************************************)
(* No event is dispatched by the poll during which it was sent.            *)
(***************************************************************************)
THEOREM PollsDefer == Spec => []DeferredToNextPoll
<1>1. IInv => DeferredToNextPoll
  <2> SUFFICES ASSUME IInv, NEW i \in 1..Len(dispatched)
               PROVE  dispatched[i] <= horizon
    BY DEF DeferredToNextPoll
  <2>1. dispatched[i] = i
    BY DEF IInv, Numbered
  <2>2. Len(dispatched) \in Nat /\ horizon \in Nat /\ Len(queue[idx]) \in Nat
    BY LenProperties DEF IInv, TypeOK
  <2>3. Len(dispatched) <= horizon
    BY <2>2 DEF IInv, TypeOK, BeforeSwap, Taken, PoolsApart
  <2> QED
    BY <2>1, <2>2, <2>3
<1> QED
  BY <1>1, InvHolds, PTL

-----------------------------------------------------------------------------
(* The queue implements the bus *)

LEMMA AllocateIsSend ==
  ASSUME IInv, NEW s \in Senders, Allocate(s) PROVE Bus!Send
<1> USE DEF IInv, TypeOK
<1>1. /\ sent' = sent + 1 /\ UNCHANGED <<index, poller, idx, pos, dispatched>>
      /\ queue' = [queue EXCEPT ![index] = Append(@, sent + 1)]
  BY DEF Allocate, pollVars
<1>2. queue'[index'] = Append(queue[index], sent + 1)
  BY <1>1
<1>3. Polling' = Polling
  BY <1>1 DEF Polling
<1>4. Remaining' = Remaining
  <2>1. CASE Polling
    <3>1. idx # index
      BY <2>1, PoolsAreTwo DEF PoolsApart
    <3>2. queue'[idx'] = queue[idx]
      BY <1>1, <3>1
    <3> QED
      BY <1>1, <1>3, <3>2 DEF Remaining
  <2> QED
    BY <1>3, <2>1 DEF Remaining
<1> QED
  BY <1>1, <1>2, <1>3, <1>4 DEF Bus!Send

LEMMA SwapIsBeginPoll ==
  ASSUME IInv, Swap PROVE Bus!BeginPoll
<1> USE DEF IInv, TypeOK
<1>1. /\ idx' = index /\ index' = 1 - index /\ pos' = 1
      /\ UNCHANGED <<sent, dispatched, queue>>
      /\ ~Polling /\ Polling'
  BY DEF Swap, TakePool, senderVars, Polling
<1>2. queue'[index'] = <<>>
  BY <1>1 DEF PoolsApart
<1>3. queue[index] \in Seq(Nat \ {0})
  OBVIOUS
<1>4. SubSeq(queue[index], 1, Len(queue[index])) = queue[index]
  BY <1>3, SubSeqProperties, LenProperties
<1>5. Remaining' = queue[index]
  BY <1>1, <1>4 DEF Remaining
<1> QED
  BY <1>1, <1>2, <1>5 DEF Bus!BeginPoll

LEMMA DestroyIsDispatch ==
  ASSUME IInv, Destroy PROVE Bus!Dispatch
<1> USE DEF IInv, TypeOK
<1> DEFINE q == queue[idx]
           r == SubSeq(q, pos, Len(q))
           t == SubSeq(q, pos + 1, Len(q))
<1>1. /\ dispatched' = Append(dispatched, q[pos])
      /\ pos' = pos + 1 /\ UNCHANGED <<sent, queue, idx, index>>
      /\ Polling /\ Polling'
      /\ pos \in Nat \ {0} /\ pos <= Len(q)
  BY DEF Destroy, senderVars, Polling, PoolsApart
<1>2. q \in Seq(Nat \ {0}) /\ Len(q) \in Nat
  BY LenProperties
<1>3. Remaining = r /\ Remaining' = t
  BY <1>1 DEF Remaining
<1> HIDE DEF q
<1>4. /\ r \in Seq(Nat \ {0}) /\ Len(r) = Len(q) + 1 - pos
      /\ \A i \in 1..Len(r) : r[i] = q[pos + i - 1]
  BY <1>1, <1>2, SubSeqProperties
<1>5. /\ t \in Seq(Nat \ {0}) /\ Len(t) = Len(q) - pos
      /\ \A i \in 1..Len(t) : t[i] = q[pos + i]
  BY <1>1, <1>2, SubSeqProperties
<1> HIDE DEF r, t
<1>6. r # <<>> /\ Head(r) = q[pos]
  <2>1. Len(r) # 0
    BY <1>1, <1>2, <1>4
  <2>2. 1 \in 1..Len(r)
    BY <1>1, <1>2, <1>4
  <2>3. Head(r) = r[1]
    BY <1>4, <2>1, HeadTailProperties, EmptySeq
  <2>4. r # <<>>
    BY <2>1, EmptySeq
  <2>5. r[1] = q[pos + 1 - 1]
    BY <1>4, <2>2
  <2> QED
    BY <1>1, <2>3, <2>4, <2>5
<1>7. /\ Tail(r) \in Seq(Nat \ {0}) /\ Len(Tail(r)) = Len(r) - 1
      /\ \A i \in 1..Len(Tail(r)) : Tail(r)[i] = r[i + 1]
  BY <1>4, <1>6, HeadTailProperties
<1>8. t = Tail(r)
  <2>1. Len(t) = Len(Tail(r))
    BY <1>1, <1>2, <1>4, <1>5, <1>7
  <2>2. ASSUME NEW i \in 1..Len(t) PROVE t[i] = Tail(r)[i]
    <3>1. i \in 1..Len(Tail(r)) /\ i + 1 \in 1..Len(r)
      BY <1>1, <1>2, <1>4, <1>7, <2>1
    <3>2. Tail(r)[i] = q[pos + (i + 1) - 1]
      BY <1>4, <1>7, <3>1
    <3>3. pos + (i + 1) - 1 = pos + i
      BY <1>1, <1>2, <1>5
    <3> QED
      BY <1>5, <3>2, <3>3
  <2> QED
    BY <1>5, <1>7, <2>1, <2>2, SeqEqual
<1> QED
  BY <1>1, <1>3, <1>6, <1>8 DEF Bus!Dispatch

LEMMA ResetIsEndPoll ==
  ASSUME IInv, Reset PROVE Bus!EndPoll
<1> USE DEF IInv, TypeOK
<1>1. /\ queue' = [queue EXCEPT ![idx] = <<>>] /\ pos > Len(queue[idx])
      /\ UNCHANGED <<sent, index, idx, pos, dispatched>>
      /\ Polling /\ ~Polling'
  BY DEF Reset, senderVars, Polling
<1>2. idx # index
  BY <1>1, PoolsAreTwo DEF PoolsApart
<1>3. queue'[index'] = queue[index]
  BY <1>1, <1>2
<1>4. Remaining = <<>> /\ Remaining' = <<>>
  <2>1. queue[idx] \in Seq(Nat \ {0}) /\ Len(queue[idx]) \in Nat /\ pos <= Len(queue[idx]) + 1
    BY <1>1, LenProperties DEF PoolsApart
  <2>2. Len(SubSeq(queue[idx], pos, Len(queue[idx]))) = 0
    BY <1>1, <2>1, SubSeqProperties
  <2>3. SubSeq(queue[idx], pos, Len(queue[idx])) \in Seq(Nat \ {0})
    BY <1>1, <2>1, SubSeqProperties
  <2> QED
    BY <1>1, <2>2, <2>3, EmptySeq DEF Remaining
<1> QED
  BY <1>1, <1>3, <1>4 DEF Bus!EndPoll

\* Locking, constructing and entering a callback are invisible.
LEMMA OthersStutter ==
  ASSUME UNCHANGED <<sent, index, queue, idx, pos, dispatched>>, Polling' = Polling
  PROVE  UNCHANGED Bus!busVars
<1>1. Remaining' = Remaining
  BY DEF Remaining
<1> QED
  BY <1>1 DEF Bus!busVars

(***************************************************************************)
(* Two pools, a mutex held for the swap only and callbacks that send: what *)
(* users of event::send and pollEvents see is the bus of EventBus.         *)
(***************************************************************************)
THEOREM QueueImplementsBus == Spec => ImplementsBus
<1>1. Init => Bus!Init
  BY EmptySeq DEF Init, Bus!Init, Polling, Remaining, Pools
<1>2. IInv /\ [Next]_vars => [Bus!Next]_(Bus!busVars)
  <2> SUFFICES ASSUME IInv, [Next]_vars PROVE Bus!Next \/ UNCHANGED Bus!busVars
    OBVIOUS
  <2>1. ASSUME NEW s \in Senders, Lock(s) \/ Construct(s) PROVE UNCHANGED Bus!busVars
    <3>1. UNCHANGED <<sent, index, queue, idx, pos, dispatched>> /\ Polling' = Polling
      BY <2>1 DEF Lock, Construct, pollVars, Polling
    <3> QED
      BY <3>1, OthersStutter
  <2>2. ASSUME BeginPoll \/ Notify \/ UNCHANGED vars PROVE UNCHANGED Bus!busVars
    <3>1. UNCHANGED <<sent, index, queue, idx, pos, dispatched>> /\ Polling' = Polling
      BY <2>2 DEF BeginPoll, Notify, vars, senderVars, pollVars, Polling
    <3> QED
      BY <3>1, OthersStutter
  <2> QED
    BY <2>1, <2>2, AllocateIsSend, SwapIsBeginPoll, DestroyIsDispatch, ResetIsEndPoll
       DEF Next, SendStep, PollStep, Bus!Next
<1> QED
  BY <1>1, <1>2, InvHolds, PTL DEF Spec, ImplementsBus, Bus!Spec

-----------------------------------------------------------------------------
(* PART TWO: EngineLoop *)

(***************************************************************************)
(* Every step of the engine is a step of the event queue, or none.         *)
(***************************************************************************)
LEMMA EngineStepIsQueueStep == [EngineNext]_engineVars => [Next]_vars
<1> SUFFICES ASSUME [EngineNext]_engineVars PROVE Next \/ UNCHANGED vars
  OBVIOUS
<1>1. CASE Tick
  BY <1>1 DEF Tick, Next, PollStep
<1>2. CASE Poll
  BY <1>2 DEF Poll, Next, PollStep
<1>3. CASE PumpSends
  BY <1>3, QueueAssumption DEF PumpSends, Next
<1>4. CASE PumpEnds
  BY <1>4 DEF PumpEnds, Next, PollStep
<1>5. ASSUME NEW s \in Senders, SendBegins(s) \/ SendGoesOn(s) PROVE Next
  BY <1>5 DEF SendBegins, SendGoesOn, Next, SendStep
<1>6. CASE \/ Create \/ HostDestroys \/ PumpDrops \/ CallReturns
           \/ \E made \in BOOLEAN : OpenWindow(made)
           \/ \E app \in Apps \cup {NoApp} : PushLayer(app)
           \/ \E e \in SdlEvents : SdlEvent(e)
           \/ Terminated \/ UNCHANGED engineVars
  BY <1>6 DEF Create, HostDestroys, PumpDrops, CallReturns, OpenWindow, PushLayer,
     SdlEvent, Terminated, engineVars
<1> QED
  BY <1>1, <1>2, <1>3, <1>4, <1>5, <1>6, QueueAssumption DEF EngineNext, MainStep

(***************************************************************************)
(* The engine's behaviours are behaviours of the event queue: what is      *)
(* proved of the queue holds while the loop pumps, polls and ticks.        *)
(***************************************************************************)
THEOREM EngineIsAQueue == EngineSpec => Spec
<1>1. EngineInit => Init
  BY DEF EngineInit
<1> QED
  BY <1>1, EngineStepIsQueueStep, PTL DEF EngineSpec, Spec

\* What users of the event system rely on, in the whole engine.
THEOREM EngineUsesTheBus == EngineSpec => ImplementsBus
BY EngineIsAQueue, QueueImplementsBus, PTL

(***************************************************************************)
(* In the engine, with its window, its layers and other threads that send, *)
(* nobody writes into the pool that is walked, events are dispatched once  *)
(* and in order, and what is sent during a poll waits for the next one.    *)
(***************************************************************************)
THEOREM EngineKeepsTheQueue ==
  EngineSpec => [](PoolsDontMeet /\ SentInOrder /\ DeferredToNextPoll)
BY EngineIsAQueue, PollerIsAlone, EventsInOrder, PollsDefer, PTL

-----------------------------------------------------------------------------
(* Layers *)

Frames == [function : {"begin", "tick", "destroy"}, app : Apps \cup {NoApp}]

\* Only the innermost call can be a destroy, as destroy itself pushes nothing.
LayerInv == /\ active \in Apps \cup {NoApp}
            /\ calls \in Seq(Frames)
            /\ \A i \in 2..Len(calls) : calls[i].function # "destroy"
            /\ LayersInStep

LEMMA HandsOverAtHead ==
  ASSUME LayerInv
  PROVE  HandingOver <=> (calls # <<>> /\ Head(calls).function = "destroy")
<1>1. calls \in Seq(Frames) /\ Len(calls) \in Nat
  BY LenProperties DEF LayerInv
<1>2. CASE calls = <<>>
  BY <1>1, <1>2, EmptySeq DEF HandingOver
<1>3. CASE calls # <<>>
  <2>1. Len(calls) >= 1 /\ Head(calls) = calls[1]
    BY <1>1, <1>3, EmptySeq, HeadTailProperties
  <2> QED
    BY <1>1, <1>3, <2>1 DEF HandingOver, LayerInv
<1> QED
  BY <1>2, <1>3

\* What a call stack with one more call on it looks like.
LEMMA CallOnTop ==
  ASSUME NEW stack \in Seq(Frames), NEW f \in Frames
  PROVE  LET s == <<f>> \o stack IN
         /\ s \in Seq(Frames)
         /\ Len(s) = Len(stack) + 1
         /\ s[1] = f
         /\ \A i \in 2..Len(s) : s[i] = stack[i - 1] /\ i - 1 \in 1..Len(stack)
<1> DEFINE s == <<f>> \o stack
<1>1. <<f>> \in Seq(Frames) /\ Len(<<f>>) = 1 /\ <<f>>[1] = f /\ Len(stack) \in Nat
  BY LenProperties
<1>2. /\ s \in Seq(Frames) /\ Len(s) = Len(<<f>>) + Len(stack)
      /\ \A i \in 1..Len(<<f>>) + Len(stack) :
            s[i] = IF i <= Len(<<f>>) THEN <<f>>[i] ELSE stack[i - Len(<<f>>)]
  BY <1>1, ConcatProperties
<1> QED
  BY <1>1, <1>2

(***************************************************************************)
(* The end of a push: the new layer is begun on a stack without destroys.  *)
(***************************************************************************)
LEMMA ActivateKeepsStep ==
  ASSUME NEW app \in Apps \cup {NoApp}, NEW stack \in Seq(Frames),
         \A i \in 1..Len(stack) : stack[i].function # "destroy",
         live \subseteq {app} \ {NoApp}, Activate(app, stack)
  PROVE  LayerInv'
<1>1. active' = app /\ live' = {app} \ {NoApp}
  BY DEF Activate
<1>2. CASE app = NoApp
  <2>1. calls' = stack
    BY <1>2 DEF Activate
  <2>2. ~HandingOver'
    BY <2>1 DEF HandingOver
  <2>3. \A i \in 2..Len(calls') : calls'[i].function # "destroy"
    BY <2>1, LenProperties
  <2> QED
    BY <1>1, <2>1, <2>2, <2>3 DEF LayerInv, LayersInStep
<1>3. CASE app # NoApp
  <2> DEFINE f == Frame("begin", app)
  <2>1. calls' = <<f>> \o stack /\ f \in Frames /\ f.function = "begin"
    BY <1>3 DEF Activate, Frame, Frames
  <2>2. /\ calls' \in Seq(Frames) /\ Len(calls') = Len(stack) + 1 /\ calls'[1] = f
        /\ \A i \in 2..Len(calls') : /\ calls'[i] = stack[i - 1]
                                     /\ i - 1 \in 1..Len(stack)
    BY <2>1, CallOnTop
  <2> HIDE DEF f
  <2>3. \A i \in 2..Len(calls') : calls'[i].function # "destroy"
    BY <2>2
  <2>4. ~HandingOver'
    BY <2>1, <2>2, <2>3, LenProperties DEF HandingOver
  <2> QED
    BY <1>1, <2>2, <2>3, <2>4 DEF LayerInv, LayersInStep
<1> QED
  BY <1>2, <1>3

LEMMA PushKeepsStep ==
  ASSUME LayerInv, NEW app \in Apps \cup {NoApp}, PushFrom(app), ~HandingOver
  PROVE  LayerInv'
<1> USE DEF LayerInv
<1>1. live = {active} \ {NoApp} /\ calls \in Seq(Frames)
      /\ \A i \in 1..Len(calls) : calls[i].function # "destroy"
  BY DEF LayersInStep, HandingOver
<1>2. CASE active \in {NoApp, app}
  BY <1>1, <1>2, ActivateKeepsStep DEF PushFrom
<1>3. CASE active \notin {NoApp, app}
  <2> DEFINE f == Frame("destroy", app)
  <2>1. /\ calls' = <<f>> \o calls /\ f \in Frames /\ f.function = "destroy"
        /\ live' = {} /\ active' = active
    BY <1>1, <1>3 DEF PushFrom, Frame, Frames
  <2>2. /\ calls' \in Seq(Frames) /\ Len(calls') = Len(calls) + 1 /\ calls'[1] = f
        /\ \A i \in 2..Len(calls') : /\ calls'[i] = calls[i - 1]
                                     /\ i - 1 \in 1..Len(calls)
    BY <1>1, <2>1, CallOnTop
  <2> HIDE DEF f
  <2>3. \A i \in 2..Len(calls') : calls'[i].function # "destroy"
    BY <1>1, <2>2
  <2>4. HandingOver'
    BY <2>1, <2>2, LenProperties DEF HandingOver
  <2> QED
    BY <2>1, <2>2, <2>3, <2>4 DEF LayersInStep
<1> QED
  BY <1>2, <1>3

LEMMA ReturnKeepsStep ==
  ASSUME LayerInv, CallReturns
  PROVE  LayerInv'
<1> USE DEF LayerInv
<1>1. /\ calls \in Seq(Frames) /\ calls # <<>> /\ Len(calls) \in Nat
      /\ Head(calls) \in Frames /\ Tail(calls) \in Seq(Frames)
      /\ Len(Tail(calls)) = Len(calls) - 1
      /\ \A i \in 1..Len(Tail(calls)) : Tail(calls)[i] = calls[i + 1]
  BY HeadTailProperties, LenProperties DEF CallReturns
<1>2. \A i \in 1..Len(Tail(calls)) : Tail(calls)[i].function # "destroy"
  <2> TAKE i \in 1..Len(Tail(calls))
  <2>1. i + 1 \in 2..Len(calls)
    BY <1>1
  <2> QED
    BY <1>1, <2>1
<1>3. CASE Head(calls).function = "destroy"
  <2>1. live = {}
    BY <1>1, <1>3, HandsOverAtHead DEF LayersInStep
  <2>2. Head(calls).app \in Apps \cup {NoApp}
    BY <1>1 DEF Frames
  <2>3. Activate(Head(calls).app, Tail(calls))
    BY <1>3 DEF CallReturns
  <2> QED
    BY <1>1, <1>2, <2>1, <2>2, <2>3, ActivateKeepsStep
<1>4. CASE Head(calls).function # "destroy"
  <2>1. calls' = Tail(calls) /\ active' = active /\ live' = live
    BY <1>4 DEF CallReturns
  <2>2. ~HandingOver
    BY <1>1, <1>4, HandsOverAtHead
  <2>3. ~HandingOver'
    BY <1>2, <2>1 DEF HandingOver
  <2>4. \A i \in 2..Len(calls') : calls'[i].function # "destroy"
    BY <1>1, <1>2, <2>1
  <2> QED
    BY <1>1, <2>1, <2>2, <2>3, <2>4 DEF LayersInStep
<1> QED
  BY <1>3, <1>4

\* The last step of a poll: the application is ticked.
LEMMA PollKeepsStep ==
  ASSUME LayerInv, Poll PROVE LayerInv'
<1> USE DEF LayerInv
<1>1. calls = <<>> /\ active' = active /\ live' = live
  BY DEF Poll
<1>2. ~HandingOver
  BY <1>1, EmptySeq DEF HandingOver
<1>3. CASE calls' = calls
  <2>1. HandingOver' <=> HandingOver
    BY <1>3 DEF HandingOver
  <2> QED
    BY <1>1, <1>3, <2>1 DEF LayersInStep
<1>4. CASE active # NoApp /\ calls' = <<Frame("tick", active)>>
  <2>1. calls' \in Seq(Frames) /\ Len(calls') = 1 /\ calls'[1].function = "tick"
    BY <1>4 DEF Frame, Frames
  <2>2. ~HandingOver'
    BY <2>1 DEF HandingOver
  <2> QED
    BY <1>1, <1>2, <2>1, <2>2 DEF LayersInStep
<1> QED
  BY <1>3, <1>4 DEF Poll, TickApplication

(***************************************************************************)
(* pushApplicationLayer, from wherever it is called but destroy: the layer *)
(* begun and not destroyed is the active one.                              *)
(***************************************************************************)
THEOREM LayersHandOver == ~DestroyMayPush => (EngineSpec => []LayersInStep)
<1> SUFFICES ASSUME ~DestroyMayPush PROVE EngineSpec => []LayersInStep
  OBVIOUS
<1>1. EngineInit => LayerInv
  <2> SUFFICES ASSUME EngineInit PROVE LayerInv
    OBVIOUS
  <2>1. calls = <<>> /\ calls \in Seq(Frames) /\ Len(calls) = 0
    BY EmptySeq DEF EngineInit
  <2> QED
    BY <2>1 DEF EngineInit, LayerInv, LayersInStep, HandingOver
<1>2. LayerInv /\ [EngineNext]_engineVars => LayerInv'
  <2> SUFFICES ASSUME LayerInv, [EngineNext]_engineVars PROVE LayerInv'
    OBVIOUS
  <2>1. ASSUME NEW app \in Apps \cup {NoApp}, PushLayer(app) PROVE LayerInv'
    <3>1. ~HandingOver
      BY <2>1, HandsOverAtHead DEF PushLayer
    <3> QED
      BY <2>1, <3>1, PushKeepsStep DEF PushLayer
  <2>2. ASSUME UNCHANGED <<active, calls, live>> PROVE LayerInv'
    BY <2>2 DEF LayerInv, LayersInStep, HandingOver
  <2>3. ASSUME NEW s \in Senders, SendBegins(s) \/ SendGoesOn(s) PROVE LayerInv'
    BY <2>2, <2>3 DEF SendBegins, SendGoesOn, layerVars
  <2>4. CASE \/ Create \/ HostDestroys \/ Tick \/ PumpDrops \/ PumpSends \/ PumpEnds
             \/ \E made \in BOOLEAN : OpenWindow(made)
             \/ \E e \in SdlEvents : SdlEvent(e)
             \/ Terminated \/ UNCHANGED engineVars
    BY <2>2, <2>4 DEF Create, HostDestroys, Tick, PumpDrops, PumpSends, PumpEnds,
       OpenWindow, SdlEvent, Terminated, engineVars, layerVars
  <2> QED
    BY <2>1, <2>3, <2>4, ReturnKeepsStep, PollKeepsStep, QueueAssumption
       DEF EngineNext, MainStep
<1>3. LayerInv => LayersInStep
  BY DEF LayerInv
<1> QED
  BY <1>1, <1>2, <1>3, PTL DEF EngineSpec

-----------------------------------------------------------------------------
(* Frames *)

\* The main thread is inside a poll only at that place of a tick.
PollPlace == at = "poll" <=> poller # "idle"

\* What was pumped is taken by the poll that follows.
PumpedIsTaken == /\ pumped \in Nat
                 /\ pumped <= sent
                 /\ Polling => pumped <= horizon

FrameInv == PollPlace /\ PumpedIsTaken /\ FrameSeesItsInput

\* A poll that ends has dispatched everything sent before its swap.
LEMMA PollEndsAtHorizon ==
  ASSUME IInv, Reset PROVE horizon = Len(dispatched)
<1>1. Polling /\ pos > Len(queue[idx])
  BY DEF Reset, Polling
<1>2. pos <= Len(queue[idx]) + 1 /\ Taken = horizon
  BY <1>1 DEF IInv, PoolsApart, BeforeSwap
<1>3. /\ Len(queue[idx]) \in Nat /\ Len(dispatched) \in Nat /\ pos \in Nat
      /\ horizon \in Nat
  BY LenProperties DEF IInv, TypeOK
<1> QED
  BY <1>1, <1>2, <1>3 DEF Taken

LEMMA PollKeepsFrame ==
  ASSUME IInv, FrameInv, Poll PROVE FrameInv'
<1> USE DEF FrameInv, PollPlace, PumpedIsTaken, FrameSeesItsInput
<1>1. at = "poll" /\ pumped' = pumped /\ poller # "idle"
  BY DEF Poll, sdlVars
<1>2. CASE Swap /\ at' = at
  BY <1>1, <1>2 DEF Swap, TakePool, senderVars, Polling
<1>3. CASE Notify /\ at' = at
  BY <1>1, <1>3 DEF Notify, senderVars, Polling
<1>4. CASE Destroy /\ at' = at
  BY <1>1, <1>4 DEF Destroy, senderVars, Polling
<1>5. CASE Reset /\ TickApplication
  <2>1. at' \in {"host", "app"} /\ at' # "poll"
    BY <1>5 DEF TickApplication
  <2>2. /\ poller' = "idle" /\ Polling /\ ~Polling'
        /\ UNCHANGED <<sent, dispatched>>
    BY <1>5 DEF Reset, Polling, senderVars
  <2> QED
    BY <1>1, <1>5, <2>1, <2>2, PollEndsAtHorizon
<1> QED
  BY <1>2, <1>3, <1>4, <1>5 DEF Poll

LEMMA SendKeepsFrame ==
  ASSUME IInv, FrameInv, NEW s \in Senders, SendBegins(s) \/ SendGoesOn(s)
  PROVE  FrameInv'
<1> USE DEF FrameInv, PollPlace, PumpedIsTaken, FrameSeesItsInput
<1>1. sent \in Nat
  BY DEF IInv, TypeOK
<1>2. CASE SendBegins(s)
  BY <1>2 DEF SendBegins, Lock, pollVars, sdlVars, Polling
<1>3. CASE SendGoesOn(s) /\ Allocate(s)
  <2>1. /\ sent' = sent + 1 /\ at' = at
        /\ UNCHANGED <<poller, dispatched, horizon>>
        /\ pumped' = pumped \/ (at = "pump" /\ pumped' = sent + 1)
    BY <1>3 DEF SendGoesOn, Allocate, Construct, Pumping, pollVars
  <2>2. at = "pump" => ~Polling
    BY DEF Polling
  <2> QED
    BY <1>1, <2>1, <2>2 DEF Polling
<1>4. CASE SendGoesOn(s) /\ ~Allocate(s)
  BY <1>4 DEF SendGoesOn, Construct, pollVars, Polling
<1> QED
  BY <1>2, <1>3, <1>4

\* A poll begins where the pump ends, or where a tick without a window does.
LEMMA OthersKeepFrame ==
  ASSUME IInv, FrameInv,
         \/ Tick \/ PumpEnds \/ PumpDrops \/ CallReturns \/ Create \/ HostDestroys
         \/ \E made \in BOOLEAN : OpenWindow(made)
         \/ \E app \in Apps \cup {NoApp} : PushLayer(app)
         \/ \E e \in SdlEvents : SdlEvent(e)
         \/ Terminated \/ UNCHANGED engineVars
  PROVE  FrameInv'
<1> USE DEF FrameInv, PollPlace, PumpedIsTaken, FrameSeesItsInput, InHost, Polling
<1>1. CASE Tick
  <2>1. CASE at' = "poll" /\ BeginPoll
    BY <1>1, <2>1 DEF Tick, BeginPoll, senderVars, sdlVars
  <2>2. CASE at' \in {"closed", "pump", "crashed"} /\ UNCHANGED vars
    BY <1>1, <2>2 DEF Tick, vars, senderVars, pollVars, sdlVars
  <2> QED
    BY <1>1, <2>1, <2>2 DEF Tick
<1>2. CASE PumpEnds
  BY <1>2 DEF PumpEnds, BeginPoll, senderVars, sdlVars
<1>3. CASE \/ PumpDrops \/ Create \/ HostDestroys
           \/ \E made \in BOOLEAN : OpenWindow(made)
           \/ \E app \in Apps \cup {NoApp} : PushLayer(app)
           \/ \E e \in SdlEvents : SdlEvent(e)
           \/ Terminated \/ UNCHANGED engineVars
  BY <1>3 DEF PumpDrops, Create, HostDestroys, OpenWindow, PushLayer, SdlEvent,
     Terminated, engineVars, vars, senderVars, pollVars, sdlVars
<1>4. CASE CallReturns
  BY <1>4 DEF CallReturns, vars, senderVars, pollVars, sdlVars
<1> QED
  BY <1>1, <1>2, <1>3, <1>4

(***************************************************************************)
(* Engine::tick: whatever other threads send while it pumps and polls,     *)
(* when the application is ticked all input of this frame was dispatched.  *)
(***************************************************************************)
THEOREM NoInputIsLate == EngineSpec => []FrameSeesItsInput
<1>1. EngineInit => FrameInv
  BY DEF EngineInit, Init, FrameInv, PollPlace, PumpedIsTaken, FrameSeesItsInput, Polling
<1>2. IInv /\ FrameInv /\ [EngineNext]_engineVars => FrameInv'
  <2> SUFFICES ASSUME IInv, FrameInv, [EngineNext]_engineVars PROVE FrameInv'
    OBVIOUS
  <2>1. CASE PumpSends
    BY <2>1 DEF PumpSends, Lock, pollVars, sdlVars, FrameInv, PollPlace, PumpedIsTaken,
       FrameSeesItsInput, Polling
  <2> QED
    BY <2>1, PollKeepsFrame, SendKeepsFrame, OthersKeepFrame, QueueAssumption
       DEF EngineNext, MainStep
<1>3. FrameInv => FrameSeesItsInput
  BY DEF FrameInv
<1> QED
  BY <1>1, <1>2, <1>3, EngineIsAQueue, InvHolds, PTL DEF EngineSpec

-----------------------------------------------------------------------------
(* Types *)

\* Between calls of the host and after them, the main thread is not in send.
SendPlace == sender[Poller] # "idle" => at = "pump" \/ UserCode

\* The SDL event that is being sent stays at the head of SDL's queue.
PumpingHead == Pumping(Poller) /\ sender[Poller] # "idle" =>
                 sdl # <<>> /\ IsSent(Head(sdl))

\* No function of the application runs before the engine is created, nor while
\* the window is pumped.
PumpAlone == at \in {"none", "pump"} => calls = <<>>

Sent == AppEvents \cup {Event(Translation[t], n) : t \in DOMAIN Translation, n \in Nat}

HostTypes == /\ at \in Places /\ closing \in BOOLEAN
             /\ opened \in Nat /\ happened \in Nat /\ pumped \in Nat /\ pushes \in Nat
             /\ window \in Nat \cup {NoWindow}
             /\ active \in Apps \cup {NoApp} /\ live \subseteq Apps
             /\ calls \in Seq(Frames)
             /\ sdl \in Seq(SdlEvents)
             /\ payload \in Seq(Sent) /\ Len(payload) = sent

EngineInv == HostTypes /\ PollPlace /\ SendPlace /\ PumpingHead /\ PumpAlone

LEMMA EngineInvTypes == IInv /\ EngineInv => EngineTypeOK
BY DEF IInv, EngineInv, HostTypes, PollPlace, EngineTypeOK, Frames

LEMMA FrameIsTyped ==
  \A f \in {"begin", "tick", "destroy"}, app \in Apps \cup {NoApp} :
    /\ <<Frame(f, app)>> \in Seq(Frames)
    /\ \A stack \in Seq(Frames) : <<Frame(f, app)>> \o stack \in Seq(Frames)
BY ConcatProperties DEF Frame, Frames

\* Pushing and returning.
LEMMA LayerTypes ==
  ASSUME HostTypes,
         (\E app \in Apps \cup {NoApp} : PushLayer(app)) \/ CallReturns
  PROVE  /\ active' \in Apps \cup {NoApp} /\ live' \subseteq Apps
         /\ calls' \in Seq(Frames) /\ pushes' \in Nat
<1> USE DEF HostTypes
<1>1. ASSUME NEW app \in Apps \cup {NoApp}, NEW stack \in Seq(Frames),
             Activate(app, stack)
      PROVE  /\ active' \in Apps \cup {NoApp} /\ live' \subseteq Apps
             /\ calls' \in Seq(Frames)
  BY <1>1, FrameIsTyped DEF Activate
<1>2. ASSUME NEW app \in Apps \cup {NoApp}, PushLayer(app)
      PROVE  /\ active' \in Apps \cup {NoApp} /\ live' \subseteq Apps
             /\ calls' \in Seq(Frames) /\ pushes' \in Nat
  <2>1. pushes' \in Nat /\ PushFrom(app)
    BY <1>2 DEF PushLayer
  <2>2. CASE active \in {NoApp, app}
    BY <1>1, <2>1, <2>2 DEF PushFrom
  <2>3. CASE active \notin {NoApp, app}
    BY <2>1, <2>3, FrameIsTyped DEF PushFrom
  <2> QED
    BY <2>1, <2>2, <2>3
<1>3. CASE CallReturns
  <2>1. Head(calls) \in Frames /\ Tail(calls) \in Seq(Frames) /\ pushes' = pushes
    BY <1>3, HeadTailProperties DEF CallReturns
  <2>2. Head(calls).app \in Apps \cup {NoApp}
    BY <2>1 DEF Frames
  <2> QED
    BY <1>1, <1>3, <2>1, <2>2 DEF CallReturns
<1> QED
  BY <1>2, <1>3

LEMMA SendTypes ==
  ASSUME IInv, EngineInv, NEW s \in Senders, SendGoesOn(s)
  PROVE  EngineInv'
<1> USE DEF EngineInv, HostTypes
<1>1. /\ UNCHANGED <<at, closing, opened, happened, pushes, window, active, live, calls>>
      /\ UNCHANGED <<poller>>
  BY DEF SendGoesOn, Allocate, Construct, windowVars, layerVars, pollVars
<1>2. PollPlace' /\ PumpAlone'
  BY <1>1 DEF PollPlace, PumpAlone
<1>3. sent \in Nat /\ sender \in [Senders -> SenderStates] /\ MutexHeld
  BY DEF IInv, TypeOK
<1>4. CASE /\ Allocate(s)
           /\ IF Pumping(s)
              THEN /\ payload' = Append(payload, Event(Translation[Head(sdl).type],
                                                       Head(sdl).windowID))
                   /\ pumped' = sent + 1
              ELSE /\ \E e \in AppEvents : payload' = Append(payload, e)
                   /\ UNCHANGED pumped
           /\ UNCHANGED <<at, windowVars, sdl, happened, layerVars>>
  <2>1. /\ sent' = sent + 1 /\ sender[s] = "allocate"
        /\ sender' = [sender EXCEPT ![s] = "construct"] /\ pumped' \in Nat
    BY <1>3, <1>4 DEF Allocate
  <2>2. \E e \in Sent : payload' = Append(payload, e)
    <3>1. CASE Pumping(s)
      <4>1. sdl # <<>> /\ IsSent(Head(sdl)) /\ Head(sdl) \in SdlEvents
        BY <2>1, <3>1, HeadTailProperties DEF PumpingHead, Pumping
      <4>2. Head(sdl).windowID \in Nat /\ Head(sdl).type \in DOMAIN Translation
        BY <4>1, EngineAssumption DEF IsSent
      <4>3. Event(Translation[Head(sdl).type], Head(sdl).windowID) \in Sent
        BY <4>2 DEF Sent
      <4> QED
        BY <1>4, <3>1, <4>3
    <3>2. CASE ~Pumping(s)
      BY <1>4, <3>2 DEF Sent
    <3> QED
      BY <3>1, <3>2
  <2>3. payload' \in Seq(Sent) /\ Len(payload') = sent'
    BY <1>3, <2>1, <2>2, AppendProperties
  <2>4. SendPlace' /\ PumpingHead'
    <3>1. (sender'[Poller] # "idle") <=> (sender[Poller] # "idle")
      BY <1>3, <2>1, QueueAssumption
    <3> QED
      BY <1>1, <1>4, <3>1 DEF SendPlace, PumpingHead, Pumping, UserCode, IsSent, windowVars
  <2> QED
    BY <1>1, <1>2, <1>4, <2>1, <2>3, <2>4
<1>5. CASE /\ Construct(s)
           /\ sdl' = IF Pumping(s) THEN Tail(sdl) ELSE sdl
           /\ UNCHANGED <<at, windowVars, happened, payload, pumped, layerVars>>
  <2>1. /\ sender' = [sender EXCEPT ![s] = "idle"] /\ sent' = sent
        /\ sender[s] = "construct"
    BY <1>5 DEF Construct
  <2>2. sdl' \in Seq(SdlEvents)
    <3>1. Pumping(s) => sdl # <<>>
      BY <2>1 DEF PumpingHead, Pumping
    <3> QED
      BY <1>5, <3>1, HeadTailProperties
  <2>3. SendPlace' /\ PumpingHead'
    <3>1. sender'[Poller] = "idle"
      BY <1>3, <2>1, QueueAssumption DEF MutexHeld
    <3> QED
      BY <3>1 DEF SendPlace, PumpingHead
  <2> QED
    BY <1>1, <1>2, <1>5, <2>1, <2>2, <2>3
<1> QED
  BY <1>4, <1>5 DEF SendGoesOn

LEMMA LockTypes ==
  ASSUME IInv, EngineInv, PumpSends \/ \E s \in Senders : SendBegins(s)
  PROVE  EngineInv'
<1> USE DEF EngineInv
<1>1. at = "pump" => ~UserCode
  BY DEF PollPlace, PumpAlone, UserCode
<1>2. PICK s \in Senders :
        /\ Lock(s)
        /\ s = Poller => (at = "pump" /\ sdl # <<>> /\ IsSent(Head(sdl)))
                          \/ (UserCode /\ at # "pump")
  <2>1. CASE PumpSends
    BY <2>1, QueueAssumption DEF PumpSends
  <2>2. ASSUME NEW s \in Senders, SendBegins(s)
        PROVE  Lock(s) /\ (s = Poller => UserCode)
    BY <2>2 DEF SendBegins
  <2> QED
    BY <1>1, <2>1, <2>2
<1>3. UNCHANGED <<at, windowVars, sdlVars, payload, layerVars>>
  BY DEF PumpSends, SendBegins
<1>4. /\ UNCHANGED <<sent, poller>> /\ sender \in [Senders -> SenderStates]
      /\ sender' = [sender EXCEPT ![s] = "allocate"]
  BY <1>2 DEF Lock, pollVars, IInv, TypeOK
<1>5. HostTypes' /\ PollPlace' /\ PumpAlone'
  BY <1>3, <1>4 DEF HostTypes, PollPlace, PumpAlone, windowVars, sdlVars, layerVars
<1>6. SendPlace' /\ PumpingHead'
  <2>1. CASE s = Poller
    BY <1>2, <1>3, <1>4, <2>1
       DEF SendPlace, PumpingHead, Pumping, UserCode, IsSent, windowVars, sdlVars, layerVars
  <2>2. CASE s # Poller
    <3>1. sender'[Poller] = sender[Poller]
      BY <1>4, <2>2, QueueAssumption
    <3> QED
      BY <1>3, <1>4, <3>1
         DEF SendPlace, PumpingHead, Pumping, UserCode, IsSent, windowVars, sdlVars, layerVars
  <2> QED
    BY <2>1, <2>2
<1> QED
  BY <1>5, <1>6

LEMMA PollTypes ==
  ASSUME IInv, EngineInv, Poll PROVE EngineInv'
<1> USE DEF EngineInv
<1>1. /\ at = "poll" /\ calls = <<>> /\ poller # "idle"
      /\ UNCHANGED <<window, opened, sdl, happened, pumped, payload, active, live, pushes>>
  BY DEF Poll, sdlVars, PollPlace
<1>2. /\ sent' = sent /\ sender' = sender
      /\ \/ at' = at /\ calls' = calls /\ poller' # "idle"
         \/ TickApplication /\ poller' = "idle"
      /\ PollerFree \/ (poller = "iterate" /\ poller' = "callback") \/ poller = "swap"
                    \/ poller = "iterate"
  BY DEF Poll, Swap, TakePool, Notify, Destroy, Reset, senderVars
<1>3. PollerFree
  BY <1>2 DEF IInv, PollerApart, PollerFree
<1>4. closing' \in BOOLEAN
  BY DEF Poll, WindowHears, HostTypes
<1>5. /\ at' \in {"host", "app", "poll"} /\ calls' \in Seq(Frames)
      /\ at' = "poll" <=> poller' # "idle"
  BY <1>1, <1>2, FrameIsTyped DEF TickApplication, HostTypes, Places
<1>6. HostTypes' /\ PollPlace' /\ PumpAlone'
  BY <1>1, <1>2, <1>4, <1>5 DEF HostTypes, PollPlace, PumpAlone, Places
<1>7. SendPlace' /\ PumpingHead'
  BY <1>2, <1>3 DEF SendPlace, PumpingHead, PollerFree
<1> QED
  BY <1>6, <1>7

\* What happens outside send and pollEvents.
LEMMA HostSteps ==
  ASSUME IInv, EngineInv,
         \/ Tick \/ PumpEnds \/ PumpDrops \/ CallReturns \/ Create \/ HostDestroys
         \/ \E made \in BOOLEAN : OpenWindow(made)
         \/ \E app \in Apps \cup {NoApp} : PushLayer(app)
         \/ \E e \in SdlEvents : SdlEvent(e)
         \/ Terminated \/ UNCHANGED engineVars
  PROVE  EngineInv'
<1> USE DEF EngineInv
<1>1. UNCHANGED <<sent, sender>>
  BY DEF Tick, PumpEnds, BeginPoll, PumpDrops, CallReturns, Create, HostDestroys,
     OpenWindow, PushLayer, SdlEvent, Terminated, engineVars, vars, senderVars
<1>2. CASE Tick
  <2>1. /\ calls = <<>> /\ poller # "callback"
        /\ \/ at' \in {"closed", "pump", "crashed"} /\ poller' = poller
           \/ at' = "poll" /\ poller' = "swap"
        /\ UNCHANGED <<windowVars, sdlVars, payload, layerVars>>
    BY <1>2 DEF Tick, InHost, BeginPoll, vars, pollVars, PollPlace
  <2>2. PollerFree /\ poller = "idle"
    BY <1>2, <2>1 DEF Tick, InHost, SendPlace, PollPlace, UserCode, PollerFree
  <2> QED
    BY <1>1, <1>2, <2>1, <2>2
       DEF HostTypes, PollPlace, SendPlace, PumpingHead, PumpAlone, Places, PollerFree,
           windowVars, sdlVars, layerVars
<1>3. CASE PumpEnds
  BY <1>1, <1>3
     DEF PumpEnds, BeginPoll, HostTypes, PollPlace, SendPlace, PumpingHead, PumpAlone,
         Places, PollerFree, windowVars, sdlVars, layerVars
<1>4. CASE PumpDrops
  <2>1. sdl' \in Seq(SdlEvents) /\ PollerFree
    BY <1>4, HeadTailProperties DEF PumpDrops, HostTypes
  <2>2. UNCHANGED <<poller, at, windowVars, happened, pumped, payload, layerVars>>
    BY <1>4 DEF PumpDrops, vars, pollVars
  <2> QED
    BY <1>1, <2>1, <2>2
       DEF HostTypes, PollPlace, SendPlace, PumpingHead, PumpAlone, PollerFree,
           windowVars, layerVars
<1>5. CASE CallReturns \/ \E app \in Apps \cup {NoApp} : PushLayer(app)
  <2>1. /\ active' \in Apps \cup {NoApp} /\ live' \subseteq Apps
        /\ calls' \in Seq(Frames) /\ pushes' \in Nat
    BY <1>5, LayerTypes
  <2>2. /\ PollerFree /\ at \notin {"none", "pump"}
        /\ UNCHANGED <<poller, windowVars, sdlVars, payload>>
        /\ at' = at \/ (at = "app" /\ at' = "host")
    BY <1>5 DEF CallReturns, PushLayer, vars, pollVars, PumpAlone, PollPlace, UserCode
  <2> QED
    BY <1>1, <2>1, <2>2
       DEF HostTypes, PollPlace, SendPlace, PumpingHead, PumpAlone, PollerFree, Places,
           windowVars, sdlVars
<1>6. ASSUME NEW e \in SdlEvents, SdlEvent(e) PROVE EngineInv'
  <2>1. /\ sdl' = Append(sdl, e) /\ happened' \in Nat
        /\ UNCHANGED <<poller, at, windowVars, payload, pumped, layerVars>>
    BY <1>6 DEF SdlEvent, vars, pollVars, HostTypes
  <2>2. /\ sdl' \in Seq(SdlEvents)
        /\ sdl # <<>> => sdl' # <<>> /\ Head(sdl') = Head(sdl)
    BY <2>1, AppendProperties, HeadTailProperties, EmptySeq, LenProperties DEF HostTypes
  <2> QED
    BY <1>1, <2>1, <2>2
       DEF HostTypes, PollPlace, SendPlace, PumpingHead, Pumping, IsSent, PumpAlone,
           UserCode, windowVars, layerVars
<1>7. CASE Create \/ HostDestroys
  <2>1. /\ UNCHANGED <<poller, windowVars, sdlVars, payload, layerVars>>
        /\ at \in {"none", "host"} /\ at' \in {"host", "destroyed"}
        /\ calls = <<>>
    BY <1>7 DEF Create, HostDestroys, InHost, vars, pollVars, PumpAlone
  <2>2. PollerFree
    BY <2>1 DEF SendPlace, PollPlace, UserCode, PollerFree
  <2> QED
    BY <1>1, <2>1, <2>2
       DEF HostTypes, PollPlace, SendPlace, PumpingHead, PumpAlone, PollerFree, Places,
           windowVars, sdlVars, layerVars
<1>8. ASSUME NEW made \in BOOLEAN, OpenWindow(made) PROVE EngineInv'
  <2>1. /\ UNCHANGED <<poller, at, sdlVars, payload, layerVars>>
        /\ PollerFree
    BY <1>8 DEF OpenWindow, vars, pollVars
  <2>2. window' \in Nat \cup {NoWindow} /\ closing' \in BOOLEAN /\ opened' \in Nat
    <3>1. opened \in Nat /\ 0 \in Nat
      BY DEF HostTypes
    <3>2. opened' = opened + 1 /\ closing' = FALSE
      BY <1>8 DEF OpenWindow
    <3>3. window' = opened + 1 \/ window' = 0
      BY <1>8 DEF OpenWindow
    <3>4. closing' \in BOOLEAN
      BY <3>2, Zenon
    <3>5. window' \in Nat /\ opened' \in Nat
      BY <3>1, <3>2, <3>3, SMT
    <3> QED
      BY <3>4, <3>5, Zenon
  <2> QED
    BY <1>1, <2>1, <2>2
       DEF HostTypes, PollPlace, SendPlace, PumpingHead, PumpAlone, PollerFree,
           sdlVars, layerVars
<1>9. CASE Terminated \/ UNCHANGED engineVars
  BY <1>1, <1>9
     DEF Terminated, engineVars, vars, pollVars, HostTypes, PollPlace, SendPlace,
         PumpingHead, Pumping, IsSent, PumpAlone, UserCode, windowVars, sdlVars, layerVars
<1> QED
  BY <1>2, <1>3, <1>4, <1>5, <1>6, <1>7, <1>8, <1>9

LEMMA EngineInvHolds == EngineSpec => [](IInv /\ EngineInv)
<1>1. EngineInit => EngineInv
  <2> SUFFICES ASSUME EngineInit PROVE EngineInv
    OBVIOUS
  <2>1. /\ calls \in Seq(Frames) /\ sdl \in Seq(SdlEvents) /\ payload \in Seq(Sent)
        /\ Len(payload) = 0
    BY EmptySeq DEF EngineInit
  <2>2. sender[Poller] = "idle" /\ sent = 0 /\ poller = "idle"
    BY QueueAssumption DEF EngineInit, Init
  <2> QED
    BY <2>1, <2>2 DEF EngineInit, EngineInv, HostTypes, PollPlace, SendPlace, PumpingHead,
       PumpAlone, Places
<1>2. IInv /\ EngineInv /\ [EngineNext]_engineVars => EngineInv'
  BY SendTypes, LockTypes, PollTypes, HostSteps, QueueAssumption DEF EngineNext, MainStep
<1> QED
  BY <1>1, <1>2, EngineIsAQueue, InvHolds, PTL DEF EngineSpec

\* The variables of the engine and of its queue keep their types.
THEOREM EngineTypes == EngineSpec => []EngineTypeOK
BY EngineInvHolds, EngineInvTypes, PTL

-----------------------------------------------------------------------------
(* Closing *)

(***************************************************************************)
(* The callbacks of the window and what they were asked: m.should_close is *)
(* set only for an exit or for the closing of the window that is there.    *)
(***************************************************************************)
LEMMA NotifyCloses ==
  ASSUME IInv, EngineInv, ClosedOnlyByRequest, Notify,
         WindowHears(payload[queue[idx][pos]]), UNCHANGED <<window, payload>>
  PROVE  ClosedOnlyByRequest'
<1> DEFINE n == Len(dispatched) + 1
<1>1. Polling /\ pos <= Len(queue[idx]) /\ UNCHANGED <<sent, dispatched>>
  BY DEF Notify, Polling, senderVars
<1>2. /\ Len(queue[idx]) \in Nat /\ Len(queue[index]) \in Nat /\ Len(dispatched) \in Nat
      /\ pos \in Nat \ {0} /\ sent \in Nat
  BY LenProperties DEF IInv, TypeOK
<1>3. queue[idx][pos] = n
  BY <1>1, <1>2 DEF IInv, Numbered
<1>4. n <= sent
  <2>1. sent = Len(dispatched) + (Len(queue[idx]) + 1 - pos) + Len(queue[index])
    BY <1>1 DEF IInv, Numbered, Taken
  <2> DEFINE d == Len(dispatched)
             l == Len(queue[idx])
             w == Len(queue[index])
  <2>2. /\ d \in Nat /\ l \in Nat /\ w \in Nat /\ pos \in Nat /\ pos <= l
        /\ sent = d + (l + 1 - pos) + w
    BY <1>1, <1>2, <2>1
  <2> HIDE DEF d, l, w
  <2>3. d + 1 <= sent
    BY <2>2
  <2> QED
    BY <2>3 DEF d
<1>5. n \in 1..(Len(dispatched) + 1)
  BY <1>2
<1>6. \A i : AsksToClose(payload[i])' <=> AsksToClose(payload[i])
  BY DEF AsksToClose
<1>7. closing' => closing \/ AsksToClose(payload[n])
  BY <1>3 DEF WindowHears, EngineInv, HostTypes
<1> HIDE DEF n
<1> QED
  BY <1>1, <1>4, <1>5, <1>6, <1>7 DEF ClosedOnlyByRequest, n

\* A closing window stays asked for: what was dispatched stays dispatched.
LEMMA StaysAsked ==
  ASSUME IInv, EngineInv, ClosedOnlyByRequest,
         closing' = closing, UNCHANGED window, sent' >= sent,
         Len(dispatched') >= Len(dispatched), Len(dispatched') \in Nat, sent' \in Nat,
         \A i \in 1..sent : payload'[i] = payload[i]
  PROVE  ClosedOnlyByRequest'
<1> SUFFICES ASSUME closing'
             PROVE  \E i \in 1..(Len(dispatched') + 1) :
                      i <= sent' /\ AsksToClose(payload[i])'
  BY DEF ClosedOnlyByRequest
<1>1. Len(dispatched) \in Nat /\ sent \in Nat
  BY LenProperties DEF IInv, TypeOK
<1>2. PICK i \in 1..(Len(dispatched) + 1) : i <= sent /\ AsksToClose(payload[i])
  BY DEF ClosedOnlyByRequest
<1>3. payload'[i] = payload[i] /\ AsksToClose(payload[i])'
  BY <1>1, <1>2 DEF AsksToClose
<1> QED
  BY <1>1, <1>2, <1>3

(***************************************************************************)
(* SDLWindow's callbacks: a window that is to close was asked to, by an    *)
(* exit or by its own id, even if it has replaced another one.             *)
(***************************************************************************)
THEOREM NoWindowClosesForAnother == EngineSpec => []ClosedOnlyByRequest
<1>1. EngineInit => ClosedOnlyByRequest
  BY DEF EngineInit, ClosedOnlyByRequest
<1>2. IInv /\ EngineInv /\ ClosedOnlyByRequest /\ [EngineNext]_engineVars
        => ClosedOnlyByRequest'
  <2> SUFFICES ASSUME IInv, EngineInv, ClosedOnlyByRequest, [EngineNext]_engineVars
               PROVE  ClosedOnlyByRequest'
    OBVIOUS
  <2>0. Len(dispatched) \in Nat /\ sent \in Nat
    BY LenProperties DEF IInv, TypeOK
  <2>1. ASSUME NEW made \in BOOLEAN, OpenWindow(made) PROVE ClosedOnlyByRequest'
    BY <2>1 DEF OpenWindow, ClosedOnlyByRequest
  <2>2. ASSUME UNCHANGED <<closing, window, payload, sent, dispatched>>
        PROVE  ClosedOnlyByRequest'
    BY <2>0, <2>2, StaysAsked
  <2>3. ASSUME NEW s \in Senders, SendBegins(s) PROVE ClosedOnlyByRequest'
    BY <2>2, <2>3 DEF SendBegins, Lock, pollVars, windowVars
  <2>4. ASSUME NEW s \in Senders, SendGoesOn(s) PROVE ClosedOnlyByRequest'
    <3>1. UNCHANGED <<closing, window, dispatched>>
      BY <2>4 DEF SendGoesOn, Allocate, Construct, pollVars, windowVars
    <3>2. CASE \E e : payload' = Append(payload, e) /\ sent' = sent + 1
      <4>1. PICK e : payload' = Append(payload, e) /\ sent' = sent + 1
        BY <3>2
      <4>2. payload \in Seq(Sent \cup {e}) /\ Len(payload) = sent
        BY LenProperties DEF EngineInv, HostTypes
      <4>3. \A i \in 1..sent : payload'[i] = payload[i]
        BY <2>0, <4>1, <4>2, AppendProperties
      <4>4. sent' >= sent /\ sent' \in Nat
        BY <2>0, <4>1
      <4>5. /\ closing' = closing /\ window' = window
            /\ Len(dispatched') >= Len(dispatched) /\ Len(dispatched') \in Nat
        BY <2>0, <3>1
      <4> QED
        BY <4>3, <4>4, <4>5, StaysAsked
    <3>3. CASE UNCHANGED <<payload, sent>>
      BY <2>2, <3>1, <3>3
    <3> QED
      BY <2>4, <3>2, <3>3 DEF SendGoesOn, Allocate, Construct
  <2>5. CASE Poll
    <3>1. UNCHANGED <<window, payload>>
      BY <2>5 DEF Poll
    <3>2. CASE Notify
      <4>1. WindowHears(payload[queue[idx][pos]]) \/ closing' = closing
        BY <2>5 DEF Poll
      <4>2. CASE closing' = closing
        BY <2>2, <3>1, <3>2, <4>2 DEF Notify, senderVars
      <4> QED
        BY <3>1, <3>2, <4>1, <4>2, NotifyCloses
    <3>3. CASE Swap \/ Reset
      BY <2>2, <2>5, <3>1, <3>3 DEF Poll, Swap, TakePool, Notify, Reset, senderVars
    <3>4. CASE Destroy
      <4>1. closing' = closing /\ sent' = sent
        BY <2>5, <3>4 DEF Poll, Notify, Destroy, senderVars
      <4>2. dispatched' = Append(dispatched, queue[idx][pos])
        BY <3>4 DEF Destroy
      <4>3. dispatched \in Seq({queue[idx][pos]} \cup Nat)
        BY DEF IInv, TypeOK
      <4>4. Len(dispatched') = Len(dispatched) + 1
        BY <4>2, <4>3, AppendProperties
      <4> QED
        BY <2>0, <3>1, <4>1, <4>4, StaysAsked
    <3> QED
      BY <2>5, <3>2, <3>3, <3>4 DEF Poll
  <2>6. CASE \/ Create \/ HostDestroys \/ Tick \/ PumpDrops \/ PumpSends \/ PumpEnds
             \/ CallReturns \/ Terminated \/ UNCHANGED engineVars
             \/ \E app \in Apps \cup {NoApp} : PushLayer(app)
             \/ \E e \in SdlEvents : SdlEvent(e)
    BY <2>2, <2>6
       DEF Create, HostDestroys, Tick, BeginPoll, PumpDrops, PumpSends, Lock, PumpEnds,
           CallReturns, Terminated, PushLayer, SdlEvent, engineVars, vars, senderVars,
           pollVars, windowVars
  <2> QED
    BY <2>1, <2>3, <2>4, <2>5, <2>6, QueueAssumption DEF EngineNext, MainStep
<1> QED
  BY <1>1, <1>2, EngineInvHolds, PTL DEF EngineSpec
=============================================================================

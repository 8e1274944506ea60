-------------------------- MODULE ThreadPoolProofs --------------------------
(***************************************************************************)
(* Theorems about toast::ThreadPool, for every number of workers, clients  *)
(* and jobs and for every order of teardown.                               *)
(***************************************************************************)
EXTENDS ThreadPool, FiniteSetTheorems, SequenceTheorems, TLAPS

LEMMA FiniteWorkers == /\ WorkerCount \in Nat
                       /\ IsFiniteSet(Workers)
                       /\ \A S \in SUBSET Workers : IsFiniteSet(S)
<1>1. WorkerCount \in Nat
  BY PoolAssumption DEF WorkerCount
<1>2. IsFiniteSet(Workers)
  BY <1>1, FS_Interval DEF Workers
<1> QED
  BY <1>1, <1>2, FS_Subset

-----------------------------------------------------------------------------
(* Types, and the exact count of active jobs they depend on: active_jobs   *)
(* is a natural number only because every decrement has its increment.     *)

Counting == TypeOK /\ ActiveCount

LEMMA InitCounting == Init => Counting
<1> SUFFICES ASSUME Init PROVE Counting
  OBVIOUS
<1>1. jobs \in Seq(Nat \ {NoJob})
  BY EmptySeq DEF Init
<1>2. TypeOK
  BY <1>1 DEF Init, TypeOK, WorkerStates, OwnerStates, NoJob
<1>3. Counted = {}
  BY DEF Init, Counted
<1> QED
  BY <1>2, <1>3, FS_EmptySet DEF Counting, ActiveCount, Init

(***************************************************************************)
(* Steps that move no worker into or out of the counted states.            *)
(***************************************************************************)
LEMMA SameCount ==
  ASSUME Counting, Counted' = Counted, active_jobs' = active_jobs
  PROVE  ActiveCount'
BY DEF Counting, ActiveCount

LEMMA ClientCounting ==
  ASSUME Counting, NEW c \in Clients, ClientStep(c)
  PROVE  Counting'
<1> USE DEF Counting, TypeOK, NoJob, WorkerStates, queueVars, ownerVars, stopVars
<1>1. CASE ClientQueueJob(c)
  <2> USE <1>1 DEF ClientQueueJob, Enqueue
  <2>1. Counted' = Counted /\ active_jobs' = active_jobs
    BY DEF Counted
  <2>2. TypeOK'
    OBVIOUS
  <2> QED
    BY <2>1, <2>2, SameCount
<1>2. CASE ClientNotify(c)
  <2> USE <1>2 DEF ClientNotify, Sleeping
  <2>1. Counted' = Counted /\ active_jobs' = active_jobs
    BY DEF Counted
  <2>2. TypeOK'
    OBVIOUS
  <2> QED
    BY <2>1, <2>2, SameCount
<1> QED
  BY <1>1, <1>2 DEF ClientStep

LEMMA WorkerCounting ==
  ASSUME Counting, NEW w \in Workers,
         WorkerStep(w) \/ JobQueueJob(w) \/ SpuriousWake(w)
  PROVE  Counting'
<1> USE DEF Counting, TypeOK, NoJob, WorkerStates, queueVars, ownerVars, stopVars
<1>0. IsFiniteSet(Counted)
  BY FiniteWorkers DEF Counted
<1>1. CASE Sleep(w) \/ Exit(w) \/ SpuriousWake(w)
  <2> USE <1>1 DEF Sleep, Exit, SpuriousWake
  <2>1. Counted' = Counted /\ active_jobs' = active_jobs
    BY DEF Counted
  <2>2. TypeOK'
    OBVIOUS
  <2> QED
    BY <2>1, <2>2, SameCount
<1>2. CASE JobQueueJob(w)
  <2> USE <1>2 DEF JobQueueJob, Enqueue
  <2>1. Counted' = Counted /\ active_jobs' = active_jobs
    BY DEF Counted
  <2>2. TypeOK'
    OBVIOUS
  <2> QED
    BY <2>1, <2>2, SameCount
<1>3. CASE JobNotify(w)
  <2> USE <1>3 DEF JobNotify, Sleeping
  <2>1. Counted' = Counted /\ active_jobs' = active_jobs
    BY DEF Counted
  <2>2. TypeOK'
    OBVIOUS
  <2> QED
    BY <2>1, <2>2, SameCount
<1>4. CASE JobReturns(w)
  <2> USE <1>4 DEF JobReturns
  <2>1. Counted' = Counted /\ active_jobs' = active_jobs
    BY DEF Counted
  <2>2. TypeOK'
    OBVIOUS
  <2> QED
    BY <2>1, <2>2, SameCount
<1>5. CASE NotifyIdle(w)
  <2> USE <1>5 DEF NotifyIdle
  <2>1. Counted' = Counted /\ active_jobs' = active_jobs
    BY DEF Counted
  <2>2. TypeOK'
    BY DEF OwnerStates
  <2> QED
    BY <2>1, <2>2, SameCount
<1>6. CASE Take(w)
  <2> USE <1>6 DEF Take
  <2>1. Counted' = Counted \cup {w} /\ w \notin Counted
    BY DEF Counted
  <2>2. Head(jobs) \in Nat \ {0} /\ Tail(jobs) \in Seq(Nat \ {0})
    OBVIOUS
  <2>3. TypeOK'
    BY <2>2
  <2>4. ActiveCount'
    BY <1>0, <2>1, FS_AddElement DEF ActiveCount
  <2> QED
    BY <2>3, <2>4
<1>7. CASE Decrement(w)
  <2> USE <1>7 DEF Decrement
  <2>1. Counted' = Counted \ {w} /\ w \in Counted
    BY DEF Counted
  <2>2. ActiveCount'
    BY <1>0, <2>1, FS_RemoveElement DEF ActiveCount
  <2>3. IsFiniteSet(Counted')
    BY <1>0, <2>1, FS_Subset
  <2>4. active_jobs' \in Nat
    BY <2>2, <2>3, FS_CardinalityType DEF ActiveCount
  <2>5. TypeOK'
    BY <2>4
  <2> QED
    BY <2>2, <2>5
<1> QED
  BY <1>1, <1>2, <1>3, <1>4, <1>5, <1>6, <1>7 DEF WorkerStep

LEMMA OwnerCounting ==
  ASSUME Counting, OwnerStep \/ SpuriousOwnerWake
  PROVE  Counting'
<1> USE DEF Counting, OwnerGoes, queueVars, stopVars
<1>1. CASE NotifyAll
  <2> USE <1>1 DEF NotifyAll
  <2>1. \A w \in Workers : worker'[w] = IF worker[w] = "wait" THEN "lock"
                                        ELSE worker[w]
    OBVIOUS
  <2>2. Counted' = Counted /\ active_jobs' = active_jobs
    BY <2>1 DEF Counted, TypeOK
  <2>3. TypeOK'
    BY DEF TypeOK, WorkerStates, OwnerStates, NoJob
  <2> QED
    BY <2>2, <2>3, SameCount
<1>2. CASE UNCHANGED <<worker, active_jobs, job, client, queueVars, finished>>
           /\ owner' \in OwnerStates /\ inDtor' \in BOOLEAN /\ should_stop' \in BOOLEAN
           /\ UNCHANGED orderly /\ logger' \in BOOLEAN
  <2>1. Counted' = Counted /\ active_jobs' = active_jobs
    BY <1>2 DEF Counted
  <2>2. TypeOK'
    BY <1>2 DEF TypeOK
  <2> QED
    BY <2>1, <2>2, SameCount
<1>3. CASE LogDestroyed /\ Enqueue
  <2> USE <1>3 DEF LogDestroyed, Enqueue
  <2>1. Counted' = Counted /\ active_jobs' = active_jobs
    BY DEF Counted
  <2>2. TypeOK'
    BY DEF TypeOK, OwnerStates, NoJob
  <2> QED
    BY <2>1, <2>2, SameCount
<1>4. CASE LogDestroyed /\ ~Enqueue
  BY <1>2, <1>4 DEF LogDestroyed, OwnerStates, TypeOK
<1> QED
  BY <1>1, <1>2, <1>3, <1>4 DEF OwnerStep, Teardown, CallWaitIdle, WaitIdleReturns,
     WaitIdleSleeps, SpuriousOwnerWake, Resume, SetStop, Join, BeginDtor,
     OwnerStates, TypeOK

LEMMA NextCounting == Counting /\ [Next]_vars => Counting'
<1> SUFFICES ASSUME Counting, [Next]_vars PROVE Counting'
  OBVIOUS
<1>1. CASE UNCHANGED vars
  BY <1>1 DEF vars, Counting, TypeOK, ActiveCount, Counted
<1> QED
  BY <1>1, ClientCounting, WorkerCounting, OwnerCounting DEF Next, Terminated

(***************************************************************************)
(* Every variable keeps its type and active_jobs is exact: it never goes   *)
(* below zero and is zero only when no worker holds a job.                 *)
(***************************************************************************)
THEOREM PoolCounts == Spec => [](TypeOK /\ ActiveCount)
<1>1. Spec => []Counting
  BY InitCounting, NextCounting, PTL DEF Spec
<1> QED
  BY <1>1, PTL DEF Counting

(***************************************************************************)
(* Of these the types alone: the deque, the flags and the state of every   *)
(* worker, client and owner stay what the constructor and the functions of *)
(* the pool can make of them.                                              *)
(***************************************************************************)
THEOREM PoolTypes == Spec => []TypeOK
BY PoolCounts, PTL

-----------------------------------------------------------------------------
(* The pool implements the abstract work queue. *)

WQP == INSTANCE WorkQueueProofs WITH Slots <- Workers, accepted <- queued,
         pending <- jobs, running <- job, closed <- should_stop

LEMMA InitSimulates == Init => WQP!Init
BY DEF Init, WQP!Init, NoJob, WQP!NoJob

(***************************************************************************)
(* Every step of the pool is one step of the work queue, or none.          *)
(***************************************************************************)
LEMMA NextSimulates == TypeOK /\ [Next]_vars => [WQP!Next]_WQP!vars
<1> SUFFICES ASSUME TypeOK, [Next]_vars PROVE [WQP!Next]_WQP!vars
  OBVIOUS
<1> USE DEF WQP!vars, queueVars, ownerVars, stopVars
<1>1. ASSUME NEW c \in Clients, ClientStep(c) PROVE [WQP!Next]_WQP!vars
  BY <1>1 DEF ClientStep, ClientQueueJob, ClientNotify, Enqueue, WQP!Next, WQP!Accept
<1>2. ASSUME NEW w \in Workers, JobQueueJob(w) PROVE [WQP!Next]_WQP!vars
  BY <1>2 DEF JobQueueJob, Enqueue, WQP!Next, WQP!Accept
<1>3. ASSUME NEW w \in Workers, Take(w) PROVE WQP!Next
  <2>1. job[w] = NoJob
    BY <1>3 DEF Take, TypeOK
  <2> QED
    BY <1>3, <2>1 DEF Take, NoJob, WQP!Next, WQP!Start, WQP!NoJob
<1>4. ASSUME NEW w \in Workers, JobReturns(w) PROVE WQP!Next
  <2>1. job[w] # NoJob
    BY <1>4 DEF JobReturns, TypeOK
  <2> QED
    BY <1>4, <2>1 DEF JobReturns, NoJob, WQP!Next, WQP!Finish, WQP!NoJob
<1>5. ASSUME NEW w \in Workers,
             \/ Sleep(w) \/ SpuriousWake(w) \/ Exit(w)
             \/ JobNotify(w) \/ Decrement(w) \/ NotifyIdle(w)
      PROVE UNCHANGED WQP!vars
  BY <1>5 DEF Sleep, SpuriousWake, Exit, JobNotify, Decrement, NotifyIdle
<1>6. CASE SetStop
  BY <1>6 DEF SetStop, OwnerGoes, WQP!Next, WQP!Close, TypeOK
<1>7. CASE \/ WaitIdleReturns \/ WaitIdleSleeps \/ NotifyAll \/ Join
           \/ CallWaitIdle \/ Resume \/ BeginDtor
           \/ SpuriousOwnerWake \/ UNCHANGED vars
  BY <1>7 DEF WaitIdleReturns, WaitIdleSleeps, NotifyAll, Join,
     CallWaitIdle, Resume, BeginDtor, SpuriousOwnerWake, OwnerGoes, vars
<1>8. CASE LogDestroyed
  BY <1>8 DEF LogDestroyed, Enqueue, WQP!Next, WQP!Accept
<1> QED
  BY <1>1, <1>2, <1>3, <1>4, <1>5, <1>6, <1>7, <1>8
     DEF Next, WorkerStep, OwnerStep, Teardown, Terminated

(***************************************************************************)
(* The two instances of the abstract module are the same specification.    *)
(***************************************************************************)
LEMMA SameQueue == /\ WQ!Init <=> WQP!Init
                   /\ [WQ!Next]_WQ!vars <=> [WQP!Next]_WQP!vars
BY DEF WQ!Init, WQP!Init, WQ!Next, WQP!Next, WQ!vars, WQP!vars, WQ!Accept,
   WQP!Accept, WQ!Start, WQP!Start, WQ!Finish, WQP!Finish, WQ!Close, WQP!Close,
   WQ!NoJob, WQP!NoJob

(***************************************************************************)
(* The thread pool, with its mutex, condition variables and counters,      *)
(* implements the abstract work queue.                                     *)
(***************************************************************************)
THEOREM PoolImplementsWorkQueue == Spec => ImplementsWorkQueue
<1>1. Init => WQ!Init
  BY InitSimulates, SameQueue
<1>2. TypeOK /\ [Next]_vars => [WQ!Next]_WQ!vars
  BY NextSimulates, SameQueue
<1> QED
  BY <1>1, <1>2, PoolCounts, PTL DEF Spec, ImplementsWorkQueue, WQ!Spec

(***************************************************************************)
(* Hence jobs start in the order they were queued, and each is in the      *)
(* queue, with one worker, or done, never in two of these places.          *)
(***************************************************************************)
THEOREM PoolKeepsPromise == Spec => []WQP!Promise
<1>1. Spec => WQP!Spec
  BY InitSimulates, NextSimulates, PoolCounts, PTL DEF Spec, WQP!Spec
<1> QED
  BY <1>1, WQP!WorkQueueKeepsItsPromise, PTL

-----------------------------------------------------------------------------
(* Wake-ups *)

(***************************************************************************)
(* After destroy's notify_all no worker sleeps on job_available: join      *)
(* waits for nobody that was not told to stop.                             *)
(***************************************************************************)
THEOREM StopIsHeard == Spec => []StopReachesEveryone
<1>1. Init => StopReachesEveryone
  BY DEF Init, StopReachesEveryone
<1>2. TypeOK /\ StopReachesEveryone /\ [Next]_vars => StopReachesEveryone'
  <2> SUFFICES ASSUME TypeOK, StopReachesEveryone, [Next]_vars
               PROVE StopReachesEveryone'
    OBVIOUS
  <2> USE DEF StopReachesEveryone, Sleeping, TypeOK, queueVars, ownerVars, stopVars
  <2>1. ASSUME NEW c \in Clients, ClientStep(c) PROVE StopReachesEveryone'
    BY <2>1 DEF ClientStep, ClientQueueJob, ClientNotify
  <2>2. ASSUME NEW w \in Workers,
               WorkerStep(w) \/ JobQueueJob(w) \/ SpuriousWake(w)
        PROVE  StopReachesEveryone'
    BY <2>2 DEF WorkerStep, Sleep, Exit, Take, JobNotify, JobReturns, Decrement,
       NotifyIdle, JobQueueJob, SpuriousWake
  <2>3. CASE NotifyAll
    BY <2>3 DEF NotifyAll, OwnerGoes
  <2>4. CASE \/ WaitIdleReturns \/ WaitIdleSleeps \/ Join \/ CallWaitIdle
             \/ Resume \/ SetStop \/ BeginDtor \/ SpuriousOwnerWake \/ LogDestroyed
    BY <2>4 DEF WaitIdleReturns, WaitIdleSleeps, Join, CallWaitIdle, Resume,
       SetStop, BeginDtor, SpuriousOwnerWake, LogDestroyed, OwnerGoes
  <2>5. CASE UNCHANGED vars
    BY <2>5 DEF vars
  <2> QED
    BY <2>1, <2>2, <2>3, <2>4, <2>5 DEF Next, OwnerStep, Teardown, Terminated
<1> QED
  BY <1>1, <1>2, PoolCounts, PTL DEF Spec

(***************************************************************************)
(* waitIdle never sleeps through the moment the pool becomes idle, though  *)
(* active_jobs reaches zero outside the lock.                              *)
(***************************************************************************)
THEOREM IdleIsHeard == Spec => []NoLostIdleWakeup
<1>1. Init => NoLostIdleWakeup
  BY DEF Init, NoLostIdleWakeup
<1>2. TypeOK /\ NoLostIdleWakeup /\ [Next]_vars => NoLostIdleWakeup'
  <2> SUFFICES ASSUME TypeOK, NoLostIdleWakeup, [Next]_vars, (owner = "asleep" /\ Idle)'
               PROVE \E v \in Workers : worker'[v] = "last"
    BY DEF NoLostIdleWakeup
  <2>0. Enqueue => jobs' # <<>>
    BY AppendProperties DEF Enqueue, TypeOK, NoJob
  <2> USE DEF NoLostIdleWakeup, Idle, TypeOK, queueVars, ownerVars, stopVars
  <2>1. ASSUME NEW c \in Clients, ClientStep(c)
        PROVE  \E v \in Workers : worker'[v] = "last"
    BY <2>0, <2>1 DEF ClientStep, ClientQueueJob, ClientNotify, Sleeping
  <2>2. ASSUME NEW w \in Workers, Decrement(w)
        PROVE  \E v \in Workers : worker'[v] = "last"
    BY <2>2 DEF Decrement
  <2>3. ASSUME NEW w \in Workers,
               \/ Sleep(w) \/ Exit(w) \/ JobReturns(w) \/ SpuriousWake(w)
        PROVE  \E v \in Workers : worker'[v] = "last"
    BY <2>3 DEF Sleep, Exit, JobReturns, SpuriousWake
  <2>4. ASSUME NEW w \in Workers, JobNotify(w)
        PROVE  \E v \in Workers : worker'[v] = "last"
    BY <2>4 DEF JobNotify, Sleeping
  <2>5. ASSUME NEW w \in Workers, JobQueueJob(w) \/ Take(w) \/ NotifyIdle(w)
        PROVE  FALSE
    BY <2>0, <2>5 DEF JobQueueJob, Take, NotifyIdle
  <2>6. CASE OwnerStep \/ SpuriousOwnerWake
    BY <2>6 DEF OwnerStep, Teardown, WaitIdleReturns, WaitIdleSleeps, NotifyAll,
       Join, LogDestroyed, CallWaitIdle, Resume, SetStop, BeginDtor,
       SpuriousOwnerWake, OwnerGoes
  <2>7. CASE UNCHANGED vars
    BY <2>7 DEF vars
  <2> QED
    BY <2>1, <2>2, <2>3, <2>4, <2>5, <2>6, <2>7 DEF Next, WorkerStep, Terminated
<1> QED
  BY <1>1, <1>2, PoolCounts, PTL DEF Spec

LEMMA CountsAreNat ==
  /\ IsFiniteSet(NotifyingClients) /\ Cardinality(NotifyingClients) \in Nat
  /\ IsFiniteSet(NotifyingJobs) /\ Cardinality(NotifyingJobs) \in Nat
  /\ IsFiniteSet(Locking) /\ Cardinality(Locking) \in Nat
<1>1. IsFiniteSet(NotifyingClients)
  BY PoolAssumption, FS_Subset DEF NotifyingClients
<1>2. IsFiniteSet(NotifyingJobs) /\ IsFiniteSet(Locking)
  BY FiniteWorkers DEF NotifyingJobs, Locking
<1> QED
  BY <1>1, <1>2, FS_CardinalityType

LEMMA EnqueueLengthens ==
  ASSUME TypeOK, Enqueue PROVE Len(jobs') = Len(jobs) + 1 /\ Len(jobs) \in Nat
BY AppendProperties, LenProperties DEF TypeOK, Enqueue, NoJob

(***************************************************************************)
(* No wake-up is lost: notify_one is called after the unlock, yet as long  *)
(* as a worker sleeps every queued job has somebody coming for it.         *)
(***************************************************************************)
LEMMA ClientConserves ==
  ASSUME TypeOK, WorkConserving, NEW c \in Clients, ClientStep(c)
  PROVE  WorkConserving'
<1> SUFFICES ASSUME Sleeping' # {}, ~should_stop'
             PROVE  Len(jobs') <= Notifying' + Cardinality(Locking')
  BY DEF WorkConserving
<1> USE CountsAreNat DEF Notifying, queueVars, ownerVars, stopVars
<1>1. CASE ClientQueueJob(c)
  <2>1. NotifyingClients' = NotifyingClients \cup {c} /\ c \notin NotifyingClients
    BY <1>1 DEF ClientQueueJob, NotifyingClients, TypeOK
  <2>2. Cardinality(NotifyingClients') = Cardinality(NotifyingClients) + 1
    BY <2>1, FS_AddElement
  <2>3. NotifyingJobs' = NotifyingJobs /\ Locking' = Locking /\ Sleeping # {}
    BY <1>1 DEF ClientQueueJob, NotifyingJobs, Locking, Sleeping
  <2>4. Len(jobs) <= Notifying + Cardinality(Locking)
    BY <1>1, <2>3 DEF WorkConserving, ClientQueueJob
  <2>5. Len(jobs') = Len(jobs) + 1 /\ Len(jobs) \in Nat
    BY <1>1, EnqueueLengthens DEF ClientQueueJob
  <2> QED
    BY <2>2, <2>3, <2>4, <2>5
<1>2. CASE ClientNotify(c)
  <2>1. PICK v \in Sleeping : worker' = [worker EXCEPT ![v] = "lock"]
    BY <1>2 DEF ClientNotify, Sleeping
  <2>2. NotifyingClients' = NotifyingClients \ {c} /\ c \in NotifyingClients
    BY <1>2 DEF ClientNotify, NotifyingClients, TypeOK
  <2>3. Cardinality(NotifyingClients') = Cardinality(NotifyingClients) - 1
    BY <2>2, FS_RemoveElement
  <2>4. Locking' = Locking \cup {v} /\ v \notin Locking /\ NotifyingJobs' = NotifyingJobs
    BY <2>1 DEF Locking, Sleeping, NotifyingJobs, TypeOK
  <2>5. Cardinality(Locking') = Cardinality(Locking) + 1
    BY <2>4, FS_AddElement
  <2>6. Len(jobs') <= Notifying + Cardinality(Locking) /\ Len(jobs') \in Nat
    BY <1>2, <2>1, LenProperties DEF WorkConserving, ClientNotify, TypeOK
  <2> QED
    BY <2>3, <2>4, <2>5, <2>6
<1> QED
  BY <1>1, <1>2 DEF ClientStep

LEMMA WorkerConserves ==
  ASSUME TypeOK, WorkConserving, NEW w \in Workers,
         WorkerStep(w) \/ JobQueueJob(w) \/ SpuriousWake(w)
  PROVE  WorkConserving'
<1> SUFFICES ASSUME Sleeping' # {}, ~should_stop'
             PROVE  Len(jobs') <= Notifying' + Cardinality(Locking')
  BY DEF WorkConserving
<1> USE CountsAreNat DEF Notifying, queueVars, ownerVars, stopVars
<1>0. Len(jobs) \in Nat
  BY LenProperties DEF TypeOK
<1>1. CASE JobQueueJob(w)
  <2>1. NotifyingJobs' = NotifyingJobs \cup {w} /\ w \notin NotifyingJobs
    BY <1>1 DEF JobQueueJob, NotifyingJobs, TypeOK
  <2>2. Cardinality(NotifyingJobs') = Cardinality(NotifyingJobs) + 1
    BY <2>1, FS_AddElement
  <2>3. NotifyingClients' = NotifyingClients /\ Locking' = Locking /\ Sleeping # {}
    BY <1>1 DEF JobQueueJob, NotifyingClients, Locking, Sleeping, TypeOK
  <2>4. Len(jobs) <= Notifying + Cardinality(Locking)
    BY <1>1, <2>3 DEF WorkConserving, JobQueueJob
  <2>5. Len(jobs') = Len(jobs) + 1
    BY <1>1, EnqueueLengthens DEF JobQueueJob
  <2> QED
    BY <1>0, <2>2, <2>3, <2>4, <2>5
<1>2. CASE JobNotify(w)
  <2>1. Sleeping # {}
    BY <1>2 DEF JobNotify, Sleeping, TypeOK
  <2>2. PICK v \in Sleeping : worker' = [worker EXCEPT ![w] = "run", ![v] = "lock"]
    BY <1>2, <2>1 DEF JobNotify
  <2>3. NotifyingJobs' = NotifyingJobs \ {w} /\ w \in NotifyingJobs
    BY <1>2, <2>2 DEF JobNotify, NotifyingJobs, Sleeping, TypeOK
  <2>4. Cardinality(NotifyingJobs') = Cardinality(NotifyingJobs) - 1
    BY <2>3, FS_RemoveElement
  <2>5. Locking' = Locking \cup {v} /\ v \notin Locking
    BY <1>2, <2>2 DEF JobNotify, Locking, Sleeping, TypeOK
  <2>6. Cardinality(Locking') = Cardinality(Locking) + 1
    BY <2>5, FS_AddElement
  <2>7. /\ Len(jobs') <= Notifying + Cardinality(Locking) /\ Len(jobs') \in Nat
        /\ NotifyingClients' = NotifyingClients
    BY <1>0, <1>2, <2>1 DEF WorkConserving, JobNotify, NotifyingClients
  <2> QED
    BY <2>4, <2>6, <2>7
<1>3. CASE Sleep(w)
  <2>1. Len(jobs') = 0
    BY <1>3, EmptySeq, Zenon DEF Sleep
  <2>2. NotifyingClients' = NotifyingClients /\ NotifyingJobs' = NotifyingJobs
    BY <1>3 DEF Sleep, NotifyingClients, NotifyingJobs, TypeOK
  <2>3. Locking' = Locking \ {w}
    BY <1>3 DEF Sleep, Locking, TypeOK
  <2>4. Cardinality(Locking') \in Nat
    BY <2>3, FS_RemoveElement, FS_CardinalityType
  <2> QED
    BY <2>1, <2>2, <2>4
<1>4. CASE Take(w)
  <2>1. Locking' = Locking \ {w} /\ w \in Locking
    BY <1>4 DEF Take, Locking, TypeOK
  <2>2. Cardinality(Locking') = Cardinality(Locking) - 1
    BY <2>1, FS_RemoveElement
  <2>3. /\ NotifyingClients' = NotifyingClients /\ NotifyingJobs' = NotifyingJobs
        /\ Sleeping # {}
    BY <1>4 DEF Take, NotifyingClients, NotifyingJobs, Sleeping, TypeOK
  <2>4. Len(jobs) <= Notifying + Cardinality(Locking)
    BY <1>4, <2>3 DEF WorkConserving, Take
  <2>5. Len(jobs') = Len(jobs) - 1
    BY <1>4, HeadTailProperties DEF Take, TypeOK
  <2> QED
    BY <1>0, <2>2, <2>3, <2>4, <2>5
<1>5. CASE SpuriousWake(w) \/ JobReturns(w) \/ Decrement(w) \/ NotifyIdle(w)
  <2> USE <1>5 DEF SpuriousWake, JobReturns, Decrement, NotifyIdle
  <2>1. Locking \subseteq Locking' /\ Locking' \subseteq Workers
    BY DEF Locking, TypeOK
  <2>2. Cardinality(Locking) <= Cardinality(Locking') /\ Cardinality(Locking') \in Nat
    BY <2>1, FiniteWorkers, FS_Subset, FS_CardinalityType
  <2>3. /\ NotifyingClients' = NotifyingClients /\ NotifyingJobs' = NotifyingJobs
        /\ Sleeping # {}
    BY DEF NotifyingClients, NotifyingJobs, Sleeping, TypeOK
  <2>4. Len(jobs') <= Notifying + Cardinality(Locking) /\ jobs' = jobs
    BY <2>3 DEF WorkConserving
  <2> QED
    BY <1>0, <2>2, <2>3, <2>4
<1>6. CASE Exit(w)
  BY <1>6 DEF Exit
<1> QED
  BY <1>1, <1>2, <1>3, <1>4, <1>5, <1>6 DEF WorkerStep

(***************************************************************************)
(* Inside destroy, its final log call included, should_stop is set.        *)
(***************************************************************************)
StopIsSet == owner \in {"notify", "join", "log"} => should_stop

LEMMA DestroyStops == Spec => []StopIsSet
<1>1. Init => StopIsSet
  BY DEF Init, StopIsSet
<1>2. StopIsSet /\ [Next]_vars => StopIsSet'
  <2> SUFFICES ASSUME StopIsSet, [Next]_vars PROVE StopIsSet'
    OBVIOUS
  <2> USE DEF StopIsSet, queueVars, ownerVars, stopVars
  <2>1. ASSUME NEW c \in Clients, ClientStep(c) PROVE StopIsSet'
    BY <2>1 DEF ClientStep, ClientQueueJob, ClientNotify
  <2>2. ASSUME NEW w \in Workers,
               WorkerStep(w) \/ JobQueueJob(w) \/ SpuriousWake(w)
        PROVE  StopIsSet'
    BY <2>2 DEF WorkerStep, Sleep, Exit, Take, JobNotify, JobReturns, Decrement,
       NotifyIdle, JobQueueJob, SpuriousWake
  <2>3. CASE OwnerStep \/ SpuriousOwnerWake \/ UNCHANGED vars
    BY <2>3 DEF OwnerStep, Teardown, WaitIdleReturns, WaitIdleSleeps, NotifyAll,
       Join, LogDestroyed, CallWaitIdle, Resume, SetStop, BeginDtor,
       SpuriousOwnerWake, OwnerGoes, vars
  <2> QED
    BY <2>1, <2>2, <2>3 DEF Next, Terminated
<1> QED
  BY <1>1, <1>2, PTL DEF Spec

(***************************************************************************)
(* The wake-up argument as an invariant of the pool, for any number of     *)
(* workers and clients (queueJob's notify_one outside the lock).           *)
(***************************************************************************)
THEOREM NoJobIsForgotten == Spec => []WorkConserving
<1>1. Init => WorkConserving
  BY DEF Init, WorkConserving, Sleeping
<1>2. TypeOK /\ StopIsSet /\ WorkConserving /\ [Next]_vars => WorkConserving'
  <2> SUFFICES ASSUME TypeOK, StopIsSet, WorkConserving, [Next]_vars
               PROVE WorkConserving'
    OBVIOUS
  <2>1. CASE NotifyAll
    BY <2>1 DEF NotifyAll, WorkConserving, Sleeping
  <2>2. CASE SetStop
    BY <2>2 DEF SetStop, WorkConserving
  <2>3. CASE UNCHANGED <<jobs, worker, client, should_stop>>
    BY <2>3 DEF WorkConserving, Sleeping, Notifying, NotifyingClients, NotifyingJobs, Locking
  <2>4. CASE \/ WaitIdleReturns \/ WaitIdleSleeps \/ Join \/ CallWaitIdle
             \/ Resume \/ BeginDtor \/ SpuriousOwnerWake \/ UNCHANGED vars
    BY <2>3, <2>4 DEF WaitIdleReturns, WaitIdleSleeps, Join, CallWaitIdle, Resume,
       BeginDtor, SpuriousOwnerWake, OwnerGoes, queueVars, stopVars, vars
  <2>5. CASE LogDestroyed
    BY <2>5 DEF LogDestroyed, StopIsSet, stopVars, WorkConserving
  <2> QED
    BY <2>1, <2>2, <2>4, <2>5, ClientConserves, WorkerConserves
       DEF Next, OwnerStep, Teardown, Terminated
<1> QED
  BY <1>1, <1>2, DestroyStops, PoolCounts, PTL DEF Spec

(***************************************************************************)
(* The three together: no notification of the pool is lost.                *)
(***************************************************************************)
THEOREM NobodySleepsThroughIt == Spec => []NoLostWakeup
<1> QED
  BY NoJobIsForgotten, IdleIsHeard, StopIsHeard, PTL DEF NoLostWakeup

-----------------------------------------------------------------------------
(* What waitIdle means *)

(***************************************************************************)
(* A zero counter means that no worker is busy.                            *)
(***************************************************************************)
LEMMA NobodyIsBusy ==
  ASSUME ActiveCount, active_jobs = 0
  PROVE  \A w \in Workers : worker[w] \notin {"run", "notify", "finish"}
<1>1. IsFiniteSet(Counted)
  BY FiniteWorkers DEF Counted
<1>2. Counted = {}
  BY <1>1, FS_EmptySet DEF ActiveCount
<1> QED
  BY <1>2 DEF Counted

(***************************************************************************)
(* When queue and counter say idle, every queued job has returned.         *)
(***************************************************************************)
LEMMA IdleIsDone ==
  ASSUME TypeOK, ActiveCount, WQP!Promise, Idle
  PROVE  finished = 1..queued /\ Len(jobs) = 0
<1>1. \A w \in Workers : worker[w] \notin {"run", "notify", "finish"}
  BY NobodyIsBusy DEF Idle
<1>2. \A w \in Workers : job[w] = NoJob
  BY <1>1 DEF TypeOK
<1>3. Len(jobs) = 0
  BY EmptySeq, Zenon DEF Idle
<1>4. WQP!Started = queued
  BY <1>3 DEF WQP!Started, TypeOK
<1>5. finished = 1..queued
  <2>1. finished \subseteq 1..queued
    BY <1>4 DEF WQP!Promise, WQP!ExactlyOnce
  <2>2. ASSUME NEW j \in 1..queued PROVE j \in finished
    <3>1. j \in finished \/ \E w \in Workers : job[w] = j
      BY <1>4 DEF WQP!Promise, WQP!ExactlyOnce
    <3>2. j # NoJob
      BY DEF TypeOK, NoJob
    <3> QED
      BY <1>2, <3>1, <3>2
  <2> QED
    BY <2>1, <2>2
<1> QED
  BY <1>3, <1>5

(***************************************************************************)
(* waitIdle returns only when every job queued so far has returned.        *)
(***************************************************************************)
THEOREM WaitIdleIsHonest == Spec => WaitIdleMeansDone
<1>1. TypeOK /\ ActiveCount /\ WQP!Promise /\ [Next]_vars =>
        (owner = "check" /\ owner' = "idle" => finished = 1..queued)
  <2> SUFFICES ASSUME TypeOK, ActiveCount, WQP!Promise, [Next]_vars,
                      owner = "check", owner' = "idle"
               PROVE  finished = 1..queued
    OBVIOUS
  <2>1. WaitIdleReturns
    BY DEF Next, ClientStep, WorkerStep, OwnerStep, Teardown, Terminated, vars,
       ownerVars, stopVars, LogDestroyed, ClientQueueJob, ClientNotify, Sleep, Exit, Take, JobNotify,
       JobReturns, Decrement, NotifyIdle, JobQueueJob, SpuriousWake, WaitIdleSleeps,
       NotifyAll, Join, CallWaitIdle, Resume, SetStop, BeginDtor,
       SpuriousOwnerWake, OwnerGoes
  <2> QED
    BY <2>1, IdleIsDone DEF WaitIdleReturns
<1> QED
  BY <1>1, PoolCounts, PoolKeepsPromise, PTL DEF Spec, WaitIdleMeansDone

(***************************************************************************)
(* In an orderly teardown no worker is busy from waitIdle's return on, and *)
(* the queue is empty but for the drain that destroy's log call may queue. *)
(***************************************************************************)
Quiet == /\ orderly /\ (owner = "idle" \/ should_stop) =>
              /\ active_jobs = 0
              /\ finished = 1..(queued - Len(jobs))
              /\ jobs = <<>> \/ LogLeavesDrain
         /\ should_stop => inDtor \/ owner \in {"notify", "join", "log", "destroyed"}

(***************************************************************************)
(* A teardown that waits first has run every job queued before the stop,   *)
(* and strands none but the drain its own log call asks a live Logger for. *)
(***************************************************************************)
THEOREM OrderlyTeardown == Spec => []OrderlyLosesNothing
<1>1. Init => Quiet
  BY DEF Init, Quiet
<1>2. TypeOK /\ ActiveCount /\ WQP!Promise /\ Quiet /\ [Next]_vars => Quiet'
  <2> SUFFICES ASSUME TypeOK, ActiveCount, WQP!Promise, Quiet, [Next]_vars
               PROVE Quiet'
    OBVIOUS
  <2>0. active_jobs = 0 =>
          \A w \in Workers : worker[w] \notin {"run", "notify", "finish"}
    BY NobodyIsBusy
  <2> USE DEF Quiet, LogLeavesDrain, queueVars, ownerVars, stopVars
  <2>1. ASSUME NEW c \in Clients, ClientStep(c) PROVE Quiet'
    BY <2>1 DEF ClientStep, ClientQueueJob, ClientMayQueue, ClientNotify, TypeOK
  <2>2. ASSUME NEW w \in Workers, Take(w) \/ JobReturns(w) \/ Decrement(w)
                                  \/ JobQueueJob(w) \/ JobNotify(w)
        PROVE  Quiet'
    BY <2>0, <2>2 DEF Take, JobReturns, Decrement, JobQueueJob, JobNotify
  <2>3. ASSUME NEW w \in Workers,
               Sleep(w) \/ Exit(w) \/ NotifyIdle(w) \/ SpuriousWake(w)
        PROVE  Quiet'
    BY <2>3 DEF Sleep, Exit, NotifyIdle, SpuriousWake
  <2>4. CASE WaitIdleReturns
    <3>1. finished = 1..queued /\ Len(jobs) = 0 /\ queued - 0 = queued
      BY <2>4, IdleIsDone DEF WaitIdleReturns, TypeOK
    <3> QED
      BY <2>4, <3>1 DEF WaitIdleReturns, OwnerGoes, Idle
  <2>5. CASE \/ WaitIdleSleeps \/ NotifyAll \/ Join \/ CallWaitIdle \/ Resume
             \/ SetStop \/ BeginDtor \/ SpuriousOwnerWake
    BY <2>5 DEF WaitIdleSleeps, NotifyAll, Join, CallWaitIdle, Resume, SetStop,
       BeginDtor, SpuriousOwnerWake, OwnerGoes
  <2>6. CASE UNCHANGED vars
    BY <2>6 DEF vars
  <2>7. CASE LogDestroyed /\ logger /\ Enqueue
    <3>1. Len(jobs') = Len(jobs) + 1 /\ Len(jobs) \in Nat
      BY <2>7, EnqueueLengthens
    <3>2. orderly /\ should_stop => Len(jobs) = 0
      BY <2>7 DEF LogDestroyed
    <3>3. queued' = queued + 1 /\ queued \in Nat
      BY <2>7 DEF Enqueue, TypeOK
    <3> QED
      BY <2>7, <3>1, <3>2, <3>3 DEF LogDestroyed
  <2>8. CASE LogDestroyed /\ UNCHANGED queueVars
    BY <2>8 DEF LogDestroyed
  <2> QED
    BY <2>1, <2>2, <2>3, <2>4, <2>5, <2>6, <2>7, <2>8
       DEF Next, WorkerStep, OwnerStep, Teardown, Terminated, LogDestroyed
<1>3. Quiet => OrderlyLosesNothing
  BY DEF Quiet, OrderlyLosesNothing
<1> QED
  BY <1>1, <1>2, <1>3, PoolCounts, PoolKeepsPromise, PTL DEF Spec
=============================================================================

------------------------------ MODULE ThreadPool ------------------------------
(***************************************************************************)
(* toast::ThreadPool (engine/src/toast/thread_pool.{hpp,cpp}).             *)
(*                                                                         *)
(* One step is one critical section of queue_mutex, or one access outside  *)
(* it: notify_one is called after the lock was released, and active_jobs   *)
(* is decremented before the lock is taken again.  A thread blocked in     *)
(* condition_variable::wait is in the wait set of that variable (worker    *)
(* state "wait", owner state "asleep"); it re-evaluates its predicate      *)
(* under the lock when it is notified or wakes spuriously.                 *)
(*                                                                         *)
(* Three kinds of threads act: the workers; the clients, which call the    *)
(* static queueJob; and the owner of the unique_ptr, the only one that can *)
(* call waitIdle, destroy and the destructor.  A running job may call      *)
(* queueJob too.  Jobs are numbered in the order they enter the queue.     *)
(***************************************************************************)
EXTENDS Naturals, Sequences, FiniteSets

CONSTANTS Clients,   \* threads that call queueJob
          Size,      \* the constructor's argument
          Hardware,  \* std::thread::hardware_concurrency()
          JobLimit   \* bound of the model: how many jobs are ever queued

ASSUME PoolAssumption == /\ Size \in Nat
                         /\ Hardware \in Nat
                         /\ JobLimit \in Nat
                         /\ IsFiniteSet(Clients)

\* size == 0 asks for all hardware threads; more than those are never made.
WorkerCount == IF Size = 0 \/ Size > Hardware THEN Hardware ELSE Size
Workers == 1..WorkerCount

VARIABLES jobs,         \* m.jobs
          active_jobs,  \* m.active_jobs
          should_stop,  \* m.should_stop
          worker,       \* worker[w]: where worker w is in threadLoop
          job,          \* job[w]: the job worker w runs, NoJob if none
          client,       \* client[c]: "idle", or "notify" inside queueJob
          owner,        \* where the owner is
          inDtor,       \* TRUE once ~ThreadPool has started
          orderly,      \* how this program uses the pool. TRUE: destroy() is
                        \* only called after waitIdle(), and clients stop
                        \* queueing jobs when that wait is over
          logger,       \* TRUE: a Logger is alive during the last call of
                        \* destroy(), which ends with a log call
          queued,       \* history: how many jobs were queued
          finished      \* history: the jobs that have returned

vars == <<jobs, active_jobs, should_stop, worker, job, client, owner, inDtor,
          orderly, logger, queued, finished>>
queueVars == <<jobs, queued>>
stopVars == <<should_stop, logger>>
ownerVars == <<owner, inDtor, orderly, stopVars>>

NoJob == 0

(***************************************************************************)
(* Worker states: "lock" is about to take queue_mutex at the top of the    *)
(* loop or on waking up, "wait" sleeps on job_available, "run" executes a  *)
(* job, "notify" is a job inside queueJob before notify_one, "finish" has  *)
(* returned from the job, "last" has seen active_jobs reach 0 and has not  *)
(* taken the lock yet, "exit" has left threadLoop.                         *)
(***************************************************************************)
WorkerStates == {"lock", "wait", "run", "notify", "finish", "last", "exit"}

(***************************************************************************)
(* Owner states: "use" before any teardown, "check" and "asleep" inside    *)
(* waitIdle, "idle" just returned from waitIdle, "notify", "join" and      *)
(* "log" inside destroy, "destroyed" returned from an explicit destroy,    *)
(* "gone" when the destructor has ended.                                   *)
(***************************************************************************)
OwnerStates == {"use", "check", "asleep", "idle", "notify", "join", "log",
                "destroyed", "gone"}

Init == /\ jobs = <<>>
        /\ active_jobs = 0
        /\ should_stop = FALSE
        /\ worker = [w \in Workers |-> "lock"]
        /\ job = [w \in Workers |-> NoJob]
        /\ client = [c \in Clients |-> "idle"]
        /\ owner = "use"
        /\ inDtor = FALSE
        /\ orderly \in BOOLEAN
        /\ logger = FALSE
        /\ queued = 0
        /\ finished = {}

-----------------------------------------------------------------------------
(* queueJob *)

Enqueue == /\ queued < JobLimit
           /\ queued' = queued + 1
           /\ jobs' = Append(jobs, queued + 1)

\* notify_one wakes one sleeping worker, if there is one.
Sleeping == {w \in Workers : worker[w] = "wait"}

\* A client may call the pool as long as its lifetime has not ended.
ClientMayQueue == /\ ~inDtor
                  /\ orderly => owner \in {"use", "check", "asleep"}

\* Slip: the notify_one after the unlock is forgotten.
ClientQueueJobSilently(c) == /\ client[c] = "idle"
                             /\ ClientMayQueue
                             /\ Enqueue
                             /\ UNCHANGED <<active_jobs, worker, job, client,
                                            ownerVars, finished>>

ClientQueueJob(c) == /\ client[c] = "idle"
                     /\ ClientMayQueue
                     /\ Enqueue
                     /\ client' = [client EXCEPT ![c] = "notify"]
                     /\ UNCHANGED <<active_jobs, worker, job, ownerVars, finished>>

ClientNotify(c) ==
  /\ client[c] = "notify"
  /\ client' = [client EXCEPT ![c] = "idle"]
  /\ IF Sleeping = {} THEN UNCHANGED worker
     ELSE \E w \in Sleeping : worker' = [worker EXCEPT ![w] = "lock"]
  /\ UNCHANGED <<queueVars, active_jobs, job, ownerVars, finished>>

JobQueueJob(w) == /\ worker[w] = "run"
                  /\ Enqueue
                  /\ worker' = [worker EXCEPT ![w] = "notify"]
                  /\ UNCHANGED <<active_jobs, job, client, ownerVars, finished>>

JobNotify(w) ==
  /\ worker[w] = "notify"
  /\ IF Sleeping = {} THEN worker' = [worker EXCEPT ![w] = "run"]
     ELSE \E v \in Sleeping :
            worker' = [worker EXCEPT ![w] = "run", ![v] = "lock"]
  /\ UNCHANGED <<queueVars, active_jobs, job, client, ownerVars, finished>>

-----------------------------------------------------------------------------
(* threadLoop *)

Sleep(w) == /\ worker[w] = "lock"
            /\ jobs = <<>>
            /\ ~should_stop
            /\ worker' = [worker EXCEPT ![w] = "wait"]
            /\ UNCHANGED <<queueVars, active_jobs, job, client, ownerVars, finished>>

SpuriousWake(w) == /\ worker[w] = "wait"
                   /\ worker' = [worker EXCEPT ![w] = "lock"]
                   /\ UNCHANGED <<queueVars, active_jobs, job, client, ownerVars,
                                  finished>>

Exit(w) == /\ worker[w] = "lock"
           /\ should_stop
           /\ worker' = [worker EXCEPT ![w] = "exit"]
           /\ UNCHANGED <<queueVars, active_jobs, job, client, ownerVars, finished>>

\* Slips: the job is not counted; the stop flag is only looked at on waking.
TakeUncounted(w) == /\ worker[w] = "lock"
                    /\ jobs # <<>>
                    /\ ~should_stop
                    /\ jobs' = Tail(jobs)
                    /\ job' = [job EXCEPT ![w] = Head(jobs)]
                    /\ worker' = [worker EXCEPT ![w] = "run"]
                    /\ UNCHANGED <<queued, active_jobs, client, ownerVars, finished>>

TakeAfterStop(w) == /\ worker[w] = "lock"
                    /\ jobs # <<>>
                    /\ jobs' = Tail(jobs)
                    /\ job' = [job EXCEPT ![w] = Head(jobs)]
                    /\ active_jobs' = active_jobs + 1
                    /\ worker' = [worker EXCEPT ![w] = "run"]
                    /\ UNCHANGED <<queued, client, ownerVars, finished>>

Take(w) == /\ worker[w] = "lock"
           /\ jobs # <<>>
           /\ ~should_stop
           /\ jobs' = Tail(jobs)
           /\ job' = [job EXCEPT ![w] = Head(jobs)]
           /\ active_jobs' = active_jobs + 1
           /\ worker' = [worker EXCEPT ![w] = "run"]
           /\ UNCHANGED <<queued, client, ownerVars, finished>>

JobReturns(w) == /\ worker[w] = "run"
                 /\ finished' = finished \cup {job[w]}
                 /\ job' = [job EXCEPT ![w] = NoJob]
                 /\ worker' = [worker EXCEPT ![w] = "finish"]
                 /\ UNCHANGED <<queueVars, active_jobs, client, ownerVars>>

Decrement(w) ==
  /\ worker[w] = "finish"
  /\ active_jobs' = active_jobs - 1
  /\ worker' = [worker EXCEPT ![w] = IF active_jobs = 1 THEN "last" ELSE "lock"]
  /\ UNCHANGED <<queueVars, job, client, ownerVars, finished>>

NotifyIdle(w) == /\ worker[w] = "last"
                 /\ worker' = [worker EXCEPT ![w] = "lock"]
                 /\ owner' = IF jobs = <<>> /\ owner = "asleep" THEN "check" ELSE owner
                 /\ UNCHANGED <<queueVars, active_jobs, job, client, stopVars,
                                inDtor, orderly, finished>>

-----------------------------------------------------------------------------
(* waitIdle, destroy and the destructor, all called by the owner *)

OwnerGoes(to) == /\ owner' = to
                 /\ UNCHANGED <<queueVars, active_jobs, job, client, orderly, finished>>

CallWaitIdle == /\ owner = "use"
                /\ OwnerGoes("check")
                /\ UNCHANGED <<worker, stopVars, inDtor>>

\* Slip: only the queue is looked at.
IdleByQueueOnly == jobs = <<>>

Idle == jobs = <<>> /\ active_jobs = 0

WaitIdleReturns == /\ owner = "check"
                   /\ Idle
                   /\ OwnerGoes("idle")
                   /\ UNCHANGED <<worker, stopVars, inDtor>>

WaitIdleSleeps == /\ owner = "check"
                  /\ ~Idle
                  /\ OwnerGoes("asleep")
                  /\ UNCHANGED <<worker, stopVars, inDtor>>

SpuriousOwnerWake == /\ owner = "asleep"
                     /\ OwnerGoes("check")
                     /\ UNCHANGED <<worker, stopVars, inDtor>>

\* waitIdle was only a pause: the owner goes on using the pool.
Resume == /\ owner = "idle"
          /\ ~inDtor
          /\ OwnerGoes("use")
          /\ UNCHANGED <<worker, stopVars, inDtor>>

SetStop == /\ \/ owner = "idle"
              \/ owner = "use" /\ ~orderly
           /\ should_stop' = TRUE
           /\ logger' \in BOOLEAN
           /\ OwnerGoes("notify")
           /\ UNCHANGED <<worker, inDtor>>

\* Slip: notify_one where notify_all is needed.
NotifyJustOne == /\ owner = "notify"
                 /\ IF Sleeping = {} THEN UNCHANGED worker
                    ELSE \E w \in Sleeping : worker' = [worker EXCEPT ![w] = "lock"]
                 /\ OwnerGoes("join")
                 /\ UNCHANGED <<stopVars, inDtor>>

NotifyAll == /\ owner = "notify"
             /\ worker' = [w \in Workers |->
                             IF worker[w] = "wait" THEN "lock" ELSE worker[w]]
             /\ OwnerGoes("join")
             /\ UNCHANGED <<stopVars, inDtor>>

Join == /\ owner = "join"
        /\ \A w \in Workers : worker[w] = "exit"
        /\ OwnerGoes("log")
        /\ UNCHANGED <<worker, stopVars, inDtor>>

\* The TOAST_INFO that ends destroy. A Logger whose drain slot is free answers
\* it by queueing a drain here, on the pool that has no worker left.
LogDestroyed == /\ owner = "log"
                /\ owner' = IF inDtor THEN "gone" ELSE "destroyed"
                /\ (logger /\ Enqueue) \/ UNCHANGED queueVars
                /\ UNCHANGED <<worker, active_jobs, job, client, stopVars, inDtor,
                               orderly, finished>>

\* The destructor calls waitIdle, then destroy, whether or not the owner has
\* called them; C++ asks that no call to the pool is under way when it starts.
BeginDtor == /\ owner \in {"use", "destroyed"}
             /\ ~inDtor
             /\ \A c \in Clients : client[c] = "idle"
             /\ inDtor' = TRUE
             /\ OwnerGoes("check")
             /\ UNCHANGED <<worker, stopVars>>

-----------------------------------------------------------------------------

ClientStep(c) == ClientQueueJob(c) \/ ClientNotify(c)

\* What a worker does by itself; a job may queue others before it returns.
WorkerStep(w) == \/ Sleep(w) \/ Exit(w) \/ Take(w)
                 \/ JobNotify(w) \/ JobReturns(w)
                 \/ Decrement(w) \/ NotifyIdle(w)

\* waitIdle, destroy and the destructor run to their end once called.
Teardown == WaitIdleReturns \/ WaitIdleSleeps \/ NotifyAll \/ Join \/ LogDestroyed

OwnerStep == \/ Teardown
             \/ CallWaitIdle \/ Resume \/ SetStop \/ BeginDtor

Terminated == owner = "gone" /\ UNCHANGED vars

Next == \/ \E c \in Clients : ClientStep(c)
        \/ \E w \in Workers : WorkerStep(w) \/ JobQueueJob(w) \/ SpuriousWake(w)
        \/ OwnerStep \/ SpuriousOwnerWake
        \/ Terminated

Spec == Init /\ [][Next]_vars

(***************************************************************************)
(* Fairness: the scheduler runs every thread that can run and the mutex    *)
(* goes to every thread that asks for it; jobs return; a thread inside     *)
(* queueJob, waitIdle or destroy goes on; and an owner that has started to *)
(* tear the pool down finishes.  Nobody is forced to queue a job or to     *)
(* start the teardown, and spurious wake-ups may never happen.             *)
(***************************************************************************)
Fairness == /\ \A c \in Clients : WF_vars(ClientNotify(c))
            /\ \A w \in Workers : WF_vars(WorkerStep(w))
            /\ WF_vars(Teardown)
            /\ WF_vars(inDtor /\ SetStop)

FairSpec == Spec /\ Fairness
-----------------------------------------------------------------------------
(* Properties *)

TypeOK == /\ jobs \in Seq(Nat \ {NoJob})
          /\ active_jobs \in Nat
          /\ should_stop \in BOOLEAN
          /\ worker \in [Workers -> WorkerStates]
          /\ job \in [Workers -> Nat]
          /\ \A w \in Workers : job[w] # NoJob <=> worker[w] \in {"run", "notify"}
          /\ client \in [Clients -> {"idle", "notify"}]
          /\ owner \in OwnerStates
          /\ inDtor \in BOOLEAN
          /\ orderly \in BOOLEAN
          /\ logger \in BOOLEAN
          /\ queued \in Nat
          /\ finished \subseteq Nat \ {NoJob}

(***************************************************************************)
(* active_jobs, which workers decrement without the lock, is exact: it     *)
(* counts the workers that have taken a job and not yet decremented it.    *)
(***************************************************************************)
Counted == {w \in Workers : worker[w] \in {"run", "notify", "finish"}}

ActiveCount == active_jobs = Cardinality(Counted)

(***************************************************************************)
(* No wake-up is lost between queueJob's unlock and its notify_one: while  *)
(* some worker sleeps, every queued job has a notify_one still to come or  *)
(* a worker on its way to the lock.                                        *)
(***************************************************************************)
NotifyingClients == {c \in Clients : client[c] = "notify"}
NotifyingJobs == {w \in Workers : worker[w] = "notify"}
Locking == {w \in Workers : worker[w] = "lock"}
Notifying == Cardinality(NotifyingClients) + Cardinality(NotifyingJobs)

WorkConserving == (Sleeping # {} /\ ~should_stop) =>
                     Len(jobs) <= Notifying + Cardinality(Locking)

(***************************************************************************)
(* The decrement of active_jobs outside the lock never costs waitIdle its  *)
(* notification: an owner asleep on all_done while the pool is idle has a  *)
(* worker on its way to notify it.                                         *)
(***************************************************************************)
NoLostIdleWakeup == (owner = "asleep" /\ Idle) =>
                       \E w \in Workers : worker[w] = "last"

(***************************************************************************)
(* should_stop is set under the lock, so no worker falls asleep after the  *)
(* notify_all of destroy, which would leave join waiting for ever.         *)
(***************************************************************************)
StopReachesEveryone == (should_stop /\ owner # "notify") => Sleeping = {}

(***************************************************************************)
(* Nobody sleeps through what he waits for: neither a worker through a job *)
(* or the stop, nor the owner through an idle pool, although all three     *)
(* notifications are sent after the mutex is released.                     *)
(***************************************************************************)
NoLostWakeup == WorkConserving /\ NoLostIdleWakeup /\ StopReachesEveryone

(***************************************************************************)
(* waitIdle returns only when every job queued before that moment, by a    *)
(* client or by another job, has returned.                                 *)
(***************************************************************************)
WaitIdleMeansDone ==
  [][owner = "check" /\ owner' = "idle" => finished = 1..queued]_vars

(***************************************************************************)
(* The sequence the header recommends, waitIdle and then destroy, drops no *)
(* job queued before the stop: all of them have been run when should_stop  *)
(* is set.  What destroy can leave behind is one job it queued itself: the *)
(* drain its own log call asks for when a Logger is alive (in Engine none  *)
(* is: the logger is declared after the pool and is destroyed first).      *)
(***************************************************************************)
LogLeavesDrain == /\ logger
                  /\ Len(jobs) = 1
                  /\ owner \in {"destroyed", "check", "asleep", "gone"}

OrderlyLosesNothing == (orderly /\ should_stop) =>
                          /\ finished = 1..(queued - Len(jobs))
                          /\ jobs = <<>> \/ LogLeavesDrain

(***************************************************************************)
(* The pool implements the abstract work queue: FIFO start, no job lost,   *)
(* doubled or started after should_stop.                                   *)
(***************************************************************************)
WQ == INSTANCE WorkQueue WITH Slots <- Workers, accepted <- queued,
        pending <- jobs, running <- job, closed <- should_stop

ImplementsWorkQueue == WQ!Spec

(***************************************************************************)
(* A queued job is eventually started, unless destroy drops it.            *)
(***************************************************************************)
QueuedJobsStart == \A j \in 1..JobLimit :
  (queued >= j) ~> (should_stop \/ \A i \in 1..Len(jobs) : jobs[i] # j)

(***************************************************************************)
(* A destructor that has started ends, with every worker joined.           *)
(***************************************************************************)
TornDown == owner = "gone" /\ \A w \in Workers : worker[w] = "exit"

DestructorEnds == inDtor ~> TornDown

(***************************************************************************)
(* A job that is in the queue once should_stop is set is never run, and    *)
(* waitIdle, which the destructor calls too, would wait for it for ever.   *)
(***************************************************************************)
StrandedByLog == logger /\ should_stop /\ jobs # <<>>

(***************************************************************************)
(* In the teardown the header recommends, unless a Logger is alive and     *)
(* destroy's own log call has left its drain behind, every call of the     *)
(* owner returns: waitIdle (the bounded number of jobs is what keeps the   *)
(* pool from being busy for ever) and the destructor, with every job run   *)
(* that was queued before its stop.                                        *)
(***************************************************************************)
OrderlyCallsReturn ==
  /\ (orderly /\ ~StrandedByLog /\ owner \in {"check", "asleep"}) ~> (owner = "idle")
  /\ (orderly /\ ~StrandedByLog /\ inDtor) ~>
        /\ TornDown
        /\ finished = 1..(queued - Len(jobs))
        /\ jobs = <<>> \/ logger
=============================================================================

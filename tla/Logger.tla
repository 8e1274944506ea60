------------------------------- MODULE Logger -------------------------------
(***************************************************************************)
(* logging::Logger (engine/src/toast/logger.{hpp,cpp}): any thread logs    *)
(* into log_queue; the thread that flips drain_pending from FALSE to TRUE  *)
(* owns the drain slot and queues one drain job on the thread pool; the    *)
(* job sends everything queued as one batch, releases the slot, and looks  *)
(* at the queue once more.                                                 *)
(*                                                                         *)
(* One step is one critical section of queue_mutex, one access to the      *)
(* atomic drain_pending, one call of ThreadPool::queueJob or one socket    *)
(* write.  The pool is the abstract one of WorkQueue: a queued job is run  *)
(* by some worker later.  Only drain jobs are shown: `scheduled' counts    *)
(* those waiting in the pool.  Messages are numbered in the order they     *)
(* enter log_queue; their text, formatting and framing are left out.       *)
(***************************************************************************)
EXTENDS Naturals, Sequences, FiniteSets

CONSTANTS Producers,    \* threads that log
          Workers,      \* threads of the pool
          LogLimit,     \* bound of the model: how many messages are logged
          MaxAttempts   \* max_attempts of initNetworkRetry

ASSUME LoggerAssumption == /\ LogLimit \in Nat
                           /\ MaxAttempts \in Nat \ {0}
                           /\ IsFiniteSet(Producers)
                           /\ IsFiniteSet(Workers)
                           /\ Producers \cap Workers = {}

VARIABLES
  log_queue,      \* m.log_queue
  drain_pending,  \* m.drain_pending
  socket,         \* m.socket: "closed"; "open"; "torn": still open, but a write
                  \* that failed has cut a frame short, so that the peer cannot
                  \* tell where the next one begins; "broken": the peer left
  attempts,       \* connection attempts made
  producer,       \* producer[p]: where p is in Logger::log
  worker,         \* worker[w]: where w is in Logger::drain
  batch,          \* batch[w]: what w took from the queue and has not sent
  scheduled,      \* drain jobs queued in the pool, not yet started
  owner,          \* where the thread that owns the logger is
  flushing,       \* what flushSync took from the queue and has not sent
  quiet,          \* TRUE: no thread logs once the destructor has started
  logged,         \* history: how many messages entered the queue
  sent,           \* history: the messages written to the socket in frames that
                  \* the peer can read, in order
  failed,         \* history: messages of a drain whose write threw, or went
                  \* out behind a frame cut short
  skipped         \* history: messages dropped in silence: the socket was
                  \* closed, or flushSync's write failed as those of `failed'

queueVars == <<log_queue, logged>>
poolVars == <<worker, batch, scheduled>>
netVars == <<socket, attempts, sent, failed, skipped>>
ownerVars == <<owner, flushing, quiet>>
vars == <<queueVars, drain_pending, producer, poolVars, netVars, ownerVars>>

(***************************************************************************)
(* Owner states: "none" before create; "connecting" in initNetworkRetry;   *)
(* "up"; then stop(): "spin" on drain_pending, "flush" and "send" in       *)
(* flushSync, "close" the socket; "clear" the instance pointer; "gone"     *)
(* when the object is freed.  "aborted" when the process called abort().   *)
(***************************************************************************)
OwnerStates == {"none", "connecting", "up", "spin", "flush", "send", "close",
                "clear", "gone", "aborted"}
ProducerStates == {"idle", "push", "claim", "submit"}
WorkerStates == {"idle", "collect", "write", "release", "recheck"}

\* The static pointer `instance' is set by create and cleared by ~Logger.
Instance == owner \notin {"none", "gone"}

\* The object's members may be used; afterwards their use is undefined.
Alive == owner \notin {"none", "gone", "aborted"}

Elements(s) == {s[i] : i \in 1..Len(s)}

Init == /\ log_queue = <<>>
        /\ drain_pending = FALSE
        /\ socket = "closed"
        /\ attempts = 0
        /\ producer = [p \in Producers |-> "idle"]
        /\ worker = [w \in Workers |-> "idle"]
        /\ batch = [w \in Workers |-> <<>>]
        /\ scheduled = 0
        /\ owner = "none"
        /\ flushing = <<>>
        /\ quiet \in BOOLEAN
        /\ logged = 0
        /\ sent = <<>>
        /\ failed = {}
        /\ skipped = {}

-----------------------------------------------------------------------------
(* Logger::log *)

\* The bound of the model counts the calls under way too.
UnderLimit == logged + Cardinality({p \in Producers : producer[p] = "push"}) < LogLimit

MayLog == Alive /\ (quiet => owner \in {"connecting", "up"})

\* With a null instance the message is only printed: no state changes.
ReadInstance(p) == /\ producer[p] = "idle"
                   /\ MayLog /\ UnderLimit
                   /\ producer' = [producer EXCEPT ![p] = "push"]
                   /\ UNCHANGED <<queueVars, drain_pending, poolVars, netVars,
                                  ownerVars>>

Push(p) == /\ producer[p] = "push"
           /\ Alive
           /\ logged' = logged + 1
           /\ log_queue' = Append(log_queue, logged + 1)
           /\ producer' = [producer EXCEPT ![p] = "claim"]
           /\ UNCHANGED <<drain_pending, poolVars, netVars, ownerVars>>

\* Slip: the old value of the flag is not looked at.
ClaimUnconditionally(p) == /\ producer[p] = "claim"
                           /\ Alive
                           /\ producer' = [producer EXCEPT ![p] = "submit"]
                           /\ drain_pending' = TRUE
                           /\ UNCHANGED <<queueVars, poolVars, netVars, ownerVars>>

\* drain_pending.exchange(true)
Claim(p) == /\ producer[p] = "claim"
            /\ Alive
            /\ producer' = [producer EXCEPT ![p] = IF drain_pending THEN "idle"
                                                   ELSE "submit"]
            /\ drain_pending' = TRUE
            /\ UNCHANGED <<queueVars, poolVars, netVars, ownerVars>>

Submit(p) == /\ producer[p] = "submit"
             /\ Alive
             /\ scheduled' = scheduled + 1
             /\ producer' = [producer EXCEPT ![p] = "idle"]
             /\ UNCHANGED <<queueVars, drain_pending, worker, batch, netVars,
                            ownerVars>>

\* TOAST_CRITICAL aborts the process as soon as its log call has returned.
AbortAfterCritical(p) == /\ producer[p] = "idle"
                         /\ Alive
                         /\ logged > 0
                         /\ owner' = "aborted"
                         /\ UNCHANGED <<queueVars, drain_pending, producer, poolVars,
                                        netVars, flushing, quiet>>

-----------------------------------------------------------------------------
(* Logger::drain, on a worker of the pool *)

WorkerGoes(w, from, to) == /\ worker[w] = from
                           /\ Alive
                           /\ worker' = [worker EXCEPT ![w] = to]

StartDrain(w) == /\ WorkerGoes(w, "idle", "collect")
                 /\ scheduled > 0
                 /\ scheduled' = scheduled - 1
                 /\ UNCHANGED <<queueVars, drain_pending, producer, batch, netVars,
                                ownerVars>>

\* Slip: the queue is copied and not cleared.
CollectCopying(w) ==
  /\ WorkerGoes(w, "collect", IF log_queue # <<>> /\ socket # "closed" THEN "write"
                              ELSE "release")
  /\ IF socket # "closed"
     THEN batch' = [batch EXCEPT ![w] = log_queue] /\ UNCHANGED skipped
     ELSE skipped' = skipped \cup Elements(log_queue) /\ UNCHANGED batch
  /\ UNCHANGED <<queueVars, drain_pending, producer, scheduled, socket, attempts, sent,
                 failed, ownerVars>>

(***************************************************************************)
(* collectQueue, then is_open().  A batch taken while the socket is closed *)
(* is dropped.  While initNetworkRetry is still connecting is_open() may   *)
(* already hold, but then the write fails: the messages are gone as well.  *)
(***************************************************************************)
Collect(w) == /\ WorkerGoes(w, "collect",
                            IF log_queue # <<>> /\ socket # "closed" THEN "write"
                            ELSE "release")
              /\ log_queue' = <<>>
              /\ IF socket # "closed"
                 THEN /\ batch' = [batch EXCEPT ![w] = log_queue]
                      /\ UNCHANGED skipped
                 ELSE /\ skipped' = skipped \cup Elements(log_queue)
                      /\ UNCHANGED batch
              /\ UNCHANGED <<logged, drain_pending, producer, scheduled, socket,
                             attempts, sent, failed, ownerVars>>

WriteSucceeds(w) == /\ WorkerGoes(w, "write", "release")
                    /\ socket = "open"
                    /\ sent' = sent \o batch[w]
                    /\ batch' = [batch EXCEPT ![w] = <<>>]
                    /\ UNCHANGED <<queueVars, drain_pending, producer, scheduled,
                                   socket, attempts, failed, skipped, ownerVars>>

(***************************************************************************)
(* A write can throw on any socket: on an open one too, which has a send   *)
(* timeout of one second, before or after a part of the frame went out.    *)
(* Nobody closes or replaces the socket then: the next batch is written to *)
(* it behind the partial frame, and whether that write throws or not, the  *)
(* peer cannot read it.  The catch block prints e.what() and nothing of    *)
(* the batch.                                                              *)
(***************************************************************************)
AfterFailure == IF socket = "open" THEN {"open", "torn"} ELSE {socket}

WriteFails(w) == /\ WorkerGoes(w, "write", "release")
                 /\ socket' \in AfterFailure
                 /\ failed' = failed \cup Elements(batch[w])
                 /\ batch' = [batch EXCEPT ![w] = <<>>]
                 /\ UNCHANGED <<queueVars, drain_pending, producer, scheduled,
                                attempts, sent, skipped, ownerVars>>

\* Slip: the slot is kept by a drain that goes on to look at the queue again.
ReleaseForgotten(w) == /\ WorkerGoes(w, "release", "recheck")
                       /\ UNCHANGED <<queueVars, drain_pending, producer, batch,
                                      scheduled, netVars, ownerVars>>

\* Slip: no second look at the queue.
ReleaseIsLast(w) == /\ WorkerGoes(w, "release", "idle")
                    /\ drain_pending' = FALSE
                    /\ UNCHANGED <<queueVars, producer, batch, scheduled, netVars,
                                   ownerVars>>

Release(w) == /\ WorkerGoes(w, "release", "recheck")
              /\ drain_pending' = FALSE
              /\ UNCHANGED <<queueVars, producer, batch, scheduled, netVars,
                             ownerVars>>

\* Slip: the second look schedules a drain without claiming the slot.
RecheckUnclaimed(w) == /\ WorkerGoes(w, "recheck", "idle")
                       /\ scheduled' = IF log_queue # <<>> THEN scheduled + 1
                                       ELSE scheduled
                       /\ drain_pending' = (drain_pending \/ log_queue # <<>>)
                       /\ UNCHANGED <<queueVars, producer, batch, netVars, ownerVars>>

\* Under queue_mutex: schedule another drain if the slot is still free.
Recheck(w) == /\ WorkerGoes(w, "recheck", "idle")
              /\ IF log_queue # <<>> /\ ~drain_pending
                 THEN drain_pending' = TRUE /\ scheduled' = scheduled + 1
                 ELSE UNCHANGED <<drain_pending, scheduled>>
              /\ UNCHANGED <<queueVars, producer, batch, netVars, ownerVars>>

-----------------------------------------------------------------------------
(* create, ~Logger and the network *)

OwnerGoes(from, to) == /\ owner = from
                       /\ owner' = to
                       /\ UNCHANGED quiet

\* The instance pointer is published before the connection is made.
Create == /\ OwnerGoes("none", "connecting")
          /\ UNCHANGED <<queueVars, drain_pending, producer, poolVars, netVars,
                         flushing>>

ConnectSucceeds == /\ OwnerGoes("connecting", "up")
                   /\ attempts' = attempts + 1
                   /\ socket' = "open"
                   /\ UNCHANGED <<queueVars, drain_pending, producer, poolVars, sent,
                                  failed, skipped, flushing>>

\* Slip: one attempt too many.
ConnectFailsLate == /\ OwnerGoes("connecting", IF attempts = MaxAttempts
                                               THEN "aborted" ELSE "connecting")
                    /\ attempts' = attempts + 1
                    /\ UNCHANGED <<queueVars, drain_pending, producer, poolVars,
                                   socket, sent, failed, skipped, flushing>>

ConnectFails == /\ OwnerGoes("connecting", IF attempts + 1 = MaxAttempts
                                           THEN "aborted" ELSE "connecting")
                /\ attempts' = attempts + 1
                /\ UNCHANGED <<queueVars, drain_pending, producer, poolVars, socket,
                               sent, failed, skipped, flushing>>

PeerLeaves == /\ socket \in {"open", "torn"}
              /\ socket' = "broken"
              /\ UNCHANGED <<queueVars, drain_pending, producer, poolVars, attempts,
                             sent, failed, skipped, ownerVars>>

\* When quiet, no call to log is under way when the destructor starts.
BeginStop == /\ OwnerGoes("up", "spin")
             /\ quiet => \A p \in Producers : producer[p] = "idle"
             /\ UNCHANGED <<queueVars, drain_pending, producer, poolVars, netVars,
                            flushing>>

SpinEnds == /\ OwnerGoes("spin", "flush")
            /\ ~drain_pending
            /\ UNCHANGED <<queueVars, drain_pending, producer, poolVars, netVars,
                           flushing>>

FlushCollect == /\ OwnerGoes("flush", "send")
                /\ flushing' = log_queue
                /\ log_queue' = <<>>
                /\ UNCHANGED <<logged, drain_pending, producer, poolVars, netVars>>

\* flushSync ignores the error code of the write, which can fail as in drain.
FlushSend == /\ OwnerGoes("send", "close")
             /\ flushing' = <<>>
             /\ \/ /\ socket = "open"
                   /\ sent' = sent \o flushing
                   /\ UNCHANGED <<socket, skipped>>
                \/ /\ flushing # <<>>
                   /\ skipped' = skipped \cup Elements(flushing)
                   /\ socket' \in AfterFailure
                   /\ UNCHANGED sent
                \/ flushing = <<>> /\ UNCHANGED <<socket, sent, skipped>>
             /\ UNCHANGED <<queueVars, drain_pending, producer, poolVars, attempts,
                            failed>>

CloseSocket == /\ OwnerGoes("close", "clear")
               /\ socket' = "closed"
               /\ UNCHANGED <<queueVars, drain_pending, producer, poolVars, attempts,
                              sent, failed, skipped, flushing>>

ClearInstance == /\ OwnerGoes("clear", "gone")
                 /\ UNCHANGED <<queueVars, drain_pending, producer, poolVars, netVars,
                                flushing>>

-----------------------------------------------------------------------------

ProducerStep(p) == Push(p) \/ Claim(p) \/ Submit(p)

WorkerStep(w) == \/ StartDrain(w) \/ Collect(w) \/ WriteSucceeds(w)
                 \/ WriteFails(w) \/ Release(w) \/ Recheck(w)

Connecting == ConnectSucceeds \/ ConnectFails

Stopping == SpinEnds \/ FlushCollect \/ FlushSend \/ CloseSocket \/ ClearInstance

\* Nothing more can happen, or only what would use a freed object.
Terminated == owner \in {"gone", "aborted"} /\ UNCHANGED vars

Next == \/ \E p \in Producers :
             ReadInstance(p) \/ ProducerStep(p) \/ AbortAfterCritical(p)
        \/ \E w \in Workers : WorkerStep(w)
        \/ Create \/ Connecting \/ PeerLeaves \/ BeginStop \/ Stopping
        \/ Terminated

Spec == Init /\ [][Next]_vars

(***************************************************************************)
(* Fairness: every thread inside log, drain, create or stop is scheduled   *)
(* again, and a pool worker is free for a queued drain (the liveness of    *)
(* ThreadPool).  Nobody has to log, to stop the logger, to abort, and the  *)
(* peer need not leave.                                                    *)
(***************************************************************************)
Fairness == /\ \A p \in Producers : WF_vars(ProducerStep(p))
            /\ \A w \in Workers : WF_vars(WorkerStep(w))
            /\ WF_vars(Connecting)
            /\ WF_vars(Stopping)

FairSpec == Spec /\ Fairness
-----------------------------------------------------------------------------
(* Properties *)

TypeOK == /\ log_queue \in Seq(Nat \ {0})
          /\ drain_pending \in BOOLEAN
          /\ socket \in {"closed", "open", "torn", "broken"}
          /\ attempts \in 0..MaxAttempts
          /\ producer \in [Producers -> ProducerStates]
          /\ worker \in [Workers -> WorkerStates]
          /\ batch \in [Workers -> Seq(Nat \ {0})]
          /\ scheduled \in Nat
          /\ owner \in OwnerStates
          /\ flushing \in Seq(Nat \ {0})
          /\ quiet \in BOOLEAN
          /\ logged \in Nat
          /\ sent \in Seq(Nat \ {0})
          /\ failed \subseteq Nat
          /\ skipped \subseteq Nat

(***************************************************************************)
(* drain_pending is a token: while it is TRUE exactly one drain exists, in *)
(* a producer about to queue it, in the pool's queue, or on a worker that  *)
(* has not released the slot; while it is FALSE there is none.  Hence no   *)
(* two workers ever collect or write at the same time.                     *)
(***************************************************************************)
Submitting == {p \in Producers : producer[p] = "submit"}
Draining == {w \in Workers : worker[w] \in {"collect", "write", "release"}}
Holders == Cardinality(Submitting) + scheduled + Cardinality(Draining)

SlotToken == Holders = IF drain_pending THEN 1 ELSE 0

(***************************************************************************)
(* No message is stranded: if the queue is not empty and no drain is under *)
(* way, a producer is about to claim the slot or a worker is about to look *)
(* at the queue again.                                                     *)
(***************************************************************************)
NoStrandedLog == (Alive /\ log_queue # <<>> /\ ~drain_pending) =>
                    \/ \E p \in Producers : producer[p] = "claim"
                    \/ \E w \in Workers : worker[w] = "recheck"

(***************************************************************************)
(* Messages reach the socket in the order they were logged, although many  *)
(* workers take turns to drain and some of their writes fail: as long as   *)
(* flushSync does not run beside a drain for messages logged during the    *)
(* shutdown.                                                               *)
(***************************************************************************)
Before(s, t) == \A i \in 1..Len(s), j \in 1..Len(t) : s[i] < t[j]
Increasing(s) == \A i, j \in 1..Len(s) : i < j => s[i] < s[j]
Batches == {batch[w] : w \in Workers} \cup {flushing}

KeepsOrder == (quiet \/ owner \in {"connecting", "up", "spin"}) =>
  /\ Increasing(sent)
  /\ Before(sent, log_queue)
  /\ \A b \in Batches : Before(sent, b) /\ Before(b, log_queue)

(***************************************************************************)
(* Whoever drains, fails, flushes or aborts, and whenever: each message    *)
(* that was logged is in exactly one place, waiting, in the hands of one   *)
(* thread, on the socket once in a frame the peer can read, lost with a    *)
(* write that failed or followed a frame cut short, or dropped while there *)
(* was no connection.  None vanishes and none is written twice.            *)
(***************************************************************************)
Carried == UNION {Elements(batch[w]) : w \in Workers}

Places == <<Elements(log_queue), Carried, Elements(flushing), Elements(sent), failed,
            skipped>>

Distinct(s) == \A i, j \in 1..Len(s) : i # j => s[i] # s[j]

EachLogOnce == /\ 1..logged = UNION {Places[k] : k \in 1..6}
               /\ \A k, l \in 1..6 : k # l => Places[k] \cap Places[l] = {}
               /\ Distinct(sent)

(***************************************************************************)
(* Every message that entered the queue leaves it for the socket (or is    *)
(* lost with it), unless the logger is destroyed or the process aborts.    *)
(***************************************************************************)
EveryLogAttempted == \A n \in 1..LogLimit :
  (logged >= n) ~> \/ n \in Elements(sent) \cup failed \cup skipped
                   \/ ~Alive

(***************************************************************************)
(* stop() does not spin for ever on drain_pending once logging has ended.  *)
(***************************************************************************)
StopEnds == (quiet /\ owner = "spin") ~> ~Alive

(***************************************************************************)
(* logger.hpp:81 says of stop(): "Blocks until the background work         *)
(* finishes to avoid data races during shutdown".                          *)
(***************************************************************************)
StopWaitsForBackgroundWork ==
  (quiet /\ owner = "gone") =>
     scheduled = 0 /\ \A w \in Workers : worker[w] = "idle"
=============================================================================

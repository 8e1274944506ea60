------------------------------ MODULE WorkQueue ------------------------------
(***************************************************************************)
(* What toast::ThreadPool promises its callers, without threads, mutexes   *)
(* or condition variables: jobs start one by one in the order they were    *)
(* accepted, each in a free execution slot, and none starts once the pool  *)
(* was told to stop.  Jobs are numbered 1, 2, ... as they are accepted.    *)
(***************************************************************************)
EXTENDS Naturals, Sequences

CONSTANTS Slots,     \* execution slots: one per worker of the pool
          JobLimit   \* bound of the model on the number of jobs

VARIABLES accepted,  \* how many jobs were accepted so far
          pending,   \* accepted jobs not yet started, oldest first
          running,   \* running[s]: the job in slot s, NoJob when it is free
          finished,  \* the jobs whose function has returned
          closed     \* TRUE once the pool was told to stop

vars == <<accepted, pending, running, finished, closed>>

NoJob == 0

Init == /\ accepted = 0
        /\ pending = <<>>
        /\ running = [s \in Slots |-> NoJob]
        /\ finished = {}
        /\ closed = FALSE

Accept == /\ accepted < JobLimit
          /\ accepted' = accepted + 1
          /\ pending' = Append(pending, accepted + 1)
          /\ UNCHANGED <<running, finished, closed>>

Start(s) == /\ ~closed
            /\ pending # <<>>
            /\ running[s] = NoJob
            /\ running' = [running EXCEPT ![s] = Head(pending)]
            /\ pending' = Tail(pending)
            /\ UNCHANGED <<accepted, finished, closed>>

Finish(s) == /\ running[s] # NoJob
             /\ finished' = finished \cup {running[s]}
             /\ running' = [running EXCEPT ![s] = NoJob]
             /\ UNCHANGED <<accepted, pending, closed>>

Close == /\ ~closed
         /\ closed' = TRUE
         /\ UNCHANGED <<accepted, pending, running, finished>>

Next == \/ Accept
        \/ \E s \in Slots : Start(s) \/ Finish(s)
        \/ Close

Spec == Init /\ [][Next]_vars

TypeOK == /\ accepted \in Nat
          /\ pending \in Seq(Nat \ {NoJob})
          /\ running \in [Slots -> Nat]
          /\ finished \subseteq Nat \ {NoJob}
          /\ closed \in BOOLEAN

(***************************************************************************)
(* The jobs that have left the queue are 1 .. Started.                     *)
(***************************************************************************)
Started == accepted - Len(pending)

(***************************************************************************)
(* Jobs start in the order they were accepted: what still waits is exactly *)
(* the tail of the numbering, in order.                                    *)
(***************************************************************************)
FifoStart == /\ Len(pending) <= accepted
             /\ \A i \in 1..Len(pending) : pending[i] = Started + i

(***************************************************************************)
(* A job that left the queue is in one place only: in one slot, or         *)
(* finished.  No job is lost, run twice or run in two slots.               *)
(***************************************************************************)
ExactlyOnce ==
  /\ \A j \in 1..Started : j \in finished \/ \E s \in Slots : running[s] = j
  /\ finished \subseteq 1..Started
  /\ \A s \in Slots : running[s] # NoJob =>
        /\ running[s] \in (1..Started) \ finished
        /\ \A t \in Slots : running[t] = running[s] => t = s
=============================================================================

----------------------------- MODULE EventQueue -----------------------------
(***************************************************************************)
(* The double-buffered event queue (engine/src/toast/events/event.cpp and  *)
(* event.inl): event::send from any thread, event::pollEvents from one.    *)
(*                                                                         *)
(* send holds pool_mutex while it reserves memory, puts the pointer in the *)
(* queue of the current pool and constructs the event there.  pollEvents   *)
(* holds it only while it swaps the pools; it walks the queue of the pool  *)
(* it took, and empties that pool, without the lock.  The callbacks that   *)
(* an event runs may send others: that is the poller acting as a sender.   *)
(* Events are numbered in the order they are put in a queue.               *)
(***************************************************************************)
EXTENDS Naturals, Sequences, FiniteSets

CONSTANTS Senders,    \* threads that call send
          Poller,     \* the thread that calls pollEvents
          Free,       \* what pool_mutex holds when nobody does
          EventLimit  \* bound of the model: how many events are ever sent

ASSUME QueueAssumption == /\ Poller \in Senders
                          /\ Free \notin Senders
                          /\ EventLimit \in Nat

VARIABLES
  index,       \* index of the pool that receives events
  queue,       \* queue[i]: pools[i].queue
  pool_mutex,  \* the thread that holds it, Free if none
  sender,      \* sender[s]: where s is in send
  target,      \* target[s]: the pool s has put its event in
  poller,      \* where the poller is in pollEvents
  idx,         \* the pool the poller took
  pos,         \* position in it of the event the poller is at
  sent,        \* history: how many events were put in a queue
  built,       \* history: the events whose constructor has ended and which
               \* are not destroyed
  dispatched,  \* history: the events dispatched and destroyed, in order
  horizon      \* history: how many events were sent when the pools were swapped

senderVars == <<pool_mutex, sender, target, sent>>
pollVars == <<index, poller, idx, pos, dispatched, horizon>>
vars == <<senderVars, pollVars, queue, built>>

Pools == {0, 1}

SenderStates == {"idle", "allocate", "construct"}
PollerStates == {"idle", "swap", "iterate", "callback"}

Init == /\ index = 0
        /\ queue = [i \in Pools |-> <<>>]
        /\ pool_mutex = Free
        /\ sender = [s \in Senders |-> "idle"]
        /\ target = [s \in Senders |-> 0]
        /\ poller = "idle"
        /\ idx = 1
        /\ pos = 1
        /\ sent = 0
        /\ built = {}
        /\ dispatched = <<>>
        /\ horizon = 0

-----------------------------------------------------------------------------
(* event::send *)

\* The poller sends between polls, or from the callback of an event.
MaySend(s) == s = Poller => poller \in {"idle", "callback"}

Lock(s) == /\ sender[s] = "idle"
           /\ MaySend(s)
           /\ sent < EventLimit
           /\ pool_mutex = Free
           /\ pool_mutex' = s
           /\ sender' = [sender EXCEPT ![s] = "allocate"]
           /\ UNCHANGED <<target, sent, pollVars, queue, built>>

\* _detail::allocate: the event is in the queue before it is constructed.
Allocate(s) == /\ sender[s] = "allocate"
               /\ sent' = sent + 1
               /\ queue' = [queue EXCEPT ![index] = Append(@, sent + 1)]
               /\ target' = [target EXCEPT ![s] = index]
               /\ sender' = [sender EXCEPT ![s] = "construct"]
               /\ UNCHANGED <<pool_mutex, pollVars, built>>

Construct(s) == /\ sender[s] = "construct"
                /\ built' = built \cup {sent}
                /\ pool_mutex' = Free
                /\ sender' = [sender EXCEPT ![s] = "idle"]
                /\ UNCHANGED <<target, sent, pollVars, queue>>

-----------------------------------------------------------------------------
(* event::pollEvents *)

\* The poller does nothing else while it is inside send.
PollerFree == sender[Poller] = "idle"

BeginPoll == /\ poller = "idle"
             /\ PollerFree
             /\ poller' = "swap"
             /\ UNCHANGED <<senderVars, index, idx, pos, dispatched, horizon, queue,
                            built>>

TakePool(next) == /\ poller = "swap"
                  /\ idx' = index
                  /\ index' = next
                  /\ pos' = 1
                  /\ horizon' = sent
                  /\ poller' = "iterate"
                  /\ UNCHANGED <<senderVars, dispatched, queue, built>>

\* Slips: the swap without the mutex, and without the modulo.
SwapUnlocked == TakePool(1 - index)
SwapWithoutModulo == pool_mutex = Free /\ TakePool(index + 1)

Swap == pool_mutex = Free /\ TakePool(1 - index)

Notify == /\ poller = "iterate"
          /\ pos <= Len(queue[idx])
          /\ poller' = "callback"
          /\ UNCHANGED <<senderVars, index, idx, pos, dispatched, horizon, queue,
                         built>>

\* notify() has returned; destroy_at ends the event's life.
Destroy == /\ poller = "callback"
           /\ PollerFree
           /\ dispatched' = Append(dispatched, queue[idx][pos])
           /\ built' = built \ {queue[idx][pos]}
           /\ pos' = pos + 1
           /\ poller' = "iterate"
           /\ UNCHANGED <<senderVars, index, idx, horizon, queue>>

\* Slip: the queue is not cleared.
ResetForgotten == /\ poller = "iterate"
                  /\ pos > Len(queue[idx])
                  /\ poller' = "idle"
                  /\ UNCHANGED <<senderVars, index, idx, pos, dispatched, horizon,
                                 queue, built>>

\* The range-for ends; the queue is cleared and the memory released.
Reset == /\ poller = "iterate"
         /\ pos > Len(queue[idx])
         /\ queue' = [queue EXCEPT ![idx] = <<>>]
         /\ poller' = "idle"
         /\ UNCHANGED <<senderVars, index, idx, pos, dispatched, horizon, built>>

-----------------------------------------------------------------------------

SendStep(s) == Allocate(s) \/ Construct(s)
PollStep == BeginPoll \/ Swap \/ Notify \/ Destroy \/ Reset

Next == \/ \E s \in Senders : Lock(s) \/ SendStep(s)
        \/ PollStep

Spec == Init /\ [][Next]_vars
-----------------------------------------------------------------------------
(* Properties *)

Polling == poller \in {"iterate", "callback"}

TypeOK == /\ index \in Pools /\ idx \in Pools
          /\ queue \in [Pools -> Seq(Nat \ {0})]
          /\ pool_mutex \in Senders \cup {Free}
          /\ sender \in [Senders -> SenderStates]
          /\ target \in [Senders -> Pools]
          /\ poller \in PollerStates
          /\ pos \in Nat \ {0}
          /\ sent \in Nat /\ horizon \in Nat
          /\ built \subseteq Nat
          /\ dispatched \in Seq(Nat \ {0})

(***************************************************************************)
(* The poller walks its pool without the lock, so no sender may touch that *)
(* pool: none is constructing an event in it, and the event whose          *)
(* callbacks run has been constructed.                                     *)
(***************************************************************************)
PoolsDontMeet == Polling =>
  /\ index # idx
  /\ \A s \in Senders : sender[s] = "construct" => target[s] # idx
  /\ poller = "callback" => queue[idx][pos] \in built

(***************************************************************************)
(* Every event is dispatched once, in the order of sending: what was       *)
(* dispatched, what the poller has before it, and what waits in the other  *)
(* pool are together 1 .. sent.                                            *)
(***************************************************************************)
Remaining == IF Polling THEN SubSeq(queue[idx], pos, Len(queue[idx])) ELSE <<>>

SentInOrder == dispatched \o Remaining \o queue[index] = [n \in 1..sent |-> n]

(***************************************************************************)
(* An event sent while a poll is under way, by one of its callbacks or by  *)
(* another thread, waits for the next poll.                                *)
(***************************************************************************)
DeferredToNextPoll == \A i \in 1..Len(dispatched) : dispatched[i] <= horizon

(***************************************************************************)
(* The two pools behind one mutex are the bus of EventBus.                 *)
(***************************************************************************)
Bus == INSTANCE EventBus WITH outbox <- queue[index], polling <- Polling,
                              round <- Remaining

ImplementsBus == Bus!Spec
=============================================================================

---------------------------- MODULE EventDispatch ----------------------------
(***************************************************************************)
(* Subscriptions and dispatch (engine/src/toast/events/{event.hpp,         *)
(* event.inl, event.cpp, listener.hpp, listener.inl, listener.cpp}).       *)
(*                                                                         *)
(* Every event type keeps its callbacks in a multimap ordered by priority, *)
(* and a vector `processing' that caches their order; notify rebuilds the  *)
(* cache if it is not valid and then walks it without the lock.  A         *)
(* callback that is unsubscribed goes to the deletion queue and is freed   *)
(* when the next poll starts.  A Listener owns its callbacks, whose        *)
(* wrappers point back to it.                                              *)
(*                                                                         *)
(* The queue of events is the one of EventQueue, reduced to what dispatch  *)
(* needs: `round' is what the poll under way has left, `outbox' what the   *)
(* next one will get.  A step is one critical section of a type's mutex,   *)
(* or one step of the poller: other threads come in between the callbacks  *)
(* that one unsubscribe or one destructor takes out.  Callbacks are        *)
(* numbered as they are subscribed; info[c] is what is known of callback   *)
(* c.  A Listener is used by one thread at a time.                         *)
(***************************************************************************)
EXTENDS Naturals, Sequences, SequencesExt

CONSTANTS Types,          \* event types
          Listeners,      \* Listener objects
          Names,          \* names given to callbacks
          Priorities,     \* priorities given to callbacks
          CallbackLimit,  \* bound of the model: how many callbacks are made
          OutboxLimit     \* bound of the model: how many events wait for a poll

ASSUME DispatchAssumption == /\ Priorities \subseteq Nat
                             /\ CallbackLimit \in Nat
                             /\ OutboxLimit \in Nat

VARIABLES
  callbacks,   \* callbacks[t]: the multimap of type t, in iteration order
  cached,      \* cached[t]
  processing,  \* processing[t]
  deletion,    \* EventSystem::deletion_queue
  freed,       \* history: the callbacks that were deleted
  info,        \* history: info[c] = [type, listener, name, priority]
  handles,     \* handles[l]: m.callbacks of listener l
  enabled,     \* enabled[l]: m.enabled of listener l
  alive,       \* the listeners not destroyed
  leaving,     \* the callbacks that the loop of an unsubscribe has still before it
  outbox,      \* types of the events waiting for the next poll
  round,       \* types of the events this poll still has to dispatch
  phase,       \* where the poller is
  at           \* position in processing[Head(round)] while dispatching, else 1

typeVars == <<callbacks, cached, processing>>
listenerVars == <<handles, enabled, alive, leaving>>
pollVars == <<round, phase, at>>
vars == <<typeVars, listenerVars, pollVars, outbox, deletion, freed, info>>

Phases == {"idle", "next", "dispatch", "running"}
Made == 1..Len(info)

Information == [type : Types, listener : Listeners, name : Names,
                priority : Priorities]

Init == /\ callbacks = [t \in Types |-> <<>>]
        /\ cached = [t \in Types |-> FALSE]
        /\ processing = [t \in Types |-> <<>>]
        /\ deletion = {}
        /\ freed = {}
        /\ info = <<>>
        /\ handles = [l \in Listeners |-> {}]
        /\ enabled \in [Listeners -> BOOLEAN]
        /\ alive = Listeners
        /\ leaving = {}
        /\ outbox = <<>>
        /\ round = <<>>
        /\ phase = "idle"
        /\ at = 1

-----------------------------------------------------------------------------
(* Listener::subscribe and Event<T>::subscribe, from any thread *)

\* k is where a multimap ordered by std::greater<> puts a key equal to others:
\* after them.
UpperBound(t, p, k) ==
  \A i \in 1..Len(callbacks[t]) : info[callbacks[t][i]].priority >= p <=> i < k

\* Slip: before the callbacks of the same priority.
LowerBound(t, p, k) ==
  \A i \in 1..Len(callbacks[t]) : info[callbacks[t][i]].priority > p <=> i < k

Place(t, p, k) == UpperBound(t, p, k)

\* What a Listener's Handle and the multimap's node say of a callback.
Handle(t, l, n, p) == [type |-> t, listener |-> l, name |-> n, priority |-> p]

MaySubscribe(l) == /\ l \in alive
                   /\ \A c \in leaving : info[c].listener # l
                   /\ Len(info) < CallbackLimit

Insert(l, t, n, p) ==
  \E k \in 1..Len(callbacks[t]) + 1 :
    /\ Place(t, p, k)
    /\ callbacks' = [callbacks EXCEPT ![t] = InsertAt(@, k, Len(info) + 1)]
    /\ handles' = [handles EXCEPT ![l] = @ \cup {Len(info) + 1}]
    /\ info' = Append(info, Handle(t, l, n, p))

\* Slip: the cache is left valid.
SubscribeCached(l, t, n, p) ==
  /\ MaySubscribe(l)
  /\ Insert(l, t, n, p)
  /\ UNCHANGED <<cached, processing, enabled, alive, leaving, pollVars, outbox,
                 deletion, freed>>

Subscribe(l, t, n, p) ==
  /\ MaySubscribe(l)
  /\ Insert(l, t, n, p)
  /\ cached' = [cached EXCEPT ![t] = FALSE]
  /\ UNCHANGED <<processing, enabled, alive, leaving, pollVars, outbox, deletion,
                 freed>>

-----------------------------------------------------------------------------
(* What the main thread does between polls or from a callback *)

MainMayAct == phase \in {"idle", "running"} /\ leaving = {}

\* Slip: the callback is deleted at once.
RetireAtOnce(t, c) == /\ cached' = [cached EXCEPT ![t] = FALSE]
                      /\ freed' = freed \cup {c}
                      /\ UNCHANGED deletion

Retire(t, c) == /\ cached' = [cached EXCEPT ![t] = FALSE]
                /\ deletion' = deletion \cup {c}
                /\ UNCHANGED freed

\* Event<T>::unsubscribe of one callback, under the mutex of its type.
Unsubscribe(c) ==
  /\ c \in leaving
  /\ leaving' = leaving \ {c}
  /\ LET t == info[c].type IN
       /\ \E k \in 1..Len(callbacks[t]) :
            /\ callbacks[t][k] = c
            /\ callbacks' = [callbacks EXCEPT ![t] = RemoveAt(@, k)]
       /\ Retire(t, c)
  /\ UNCHANGED <<processing, handles, enabled, alive, pollVars, outbox, info>>

Named(l, t, n) == {c \in handles[l] : info[c].type = t /\ info[c].name = n}

\* The loops of Listener::unsubscribe and of the destructor begin.  In which
\* order they go through their handles makes no difference.
UnsubscribeName(l, t, n) ==
  /\ MainMayAct
  /\ l \in alive
  /\ Named(l, t, n) # {}
  /\ leaving' = Named(l, t, n)
  /\ handles' = [handles EXCEPT ![l] = @ \ Named(l, t, n)]
  /\ UNCHANGED <<typeVars, deletion, freed, enabled, alive, pollVars, outbox, info>>

\* Slip: the destructor leaves the callbacks in the event's map.
DestroyWithoutUnsubscribing(l) ==
  /\ MainMayAct
  /\ l \in alive
  /\ handles' = [handles EXCEPT ![l] = {}]
  /\ alive' = alive \ {l}
  /\ UNCHANGED <<typeVars, deletion, freed, enabled, leaving, pollVars, outbox, info>>

DestroyListener(l) ==
  /\ MainMayAct
  /\ l \in alive
  /\ leaving' = handles[l]
  /\ handles' = [handles EXCEPT ![l] = {}]
  /\ alive' = alive \ {l}
  /\ UNCHANGED <<typeVars, deletion, freed, enabled, pollVars, outbox, info>>

SetEnabled(l, state) ==
  /\ MainMayAct
  /\ l \in alive
  /\ enabled[l] # state
  /\ enabled' = [enabled EXCEPT ![l] = state]
  /\ UNCHANGED <<typeVars, handles, alive, leaving, pollVars, outbox, deletion, freed,
                 info>>

\* event::send, from any thread; EventQueue shows its steps.
Send(t) == /\ Len(outbox) < OutboxLimit
           /\ outbox' = Append(outbox, t)
           /\ UNCHANGED <<typeVars, listenerVars, pollVars, deletion, freed, info>>

-----------------------------------------------------------------------------
(* pollEvents and Event<T>::notify *)

\* Slip: the deletion queue is never cleared.
BeginPollKeeping == /\ phase = "idle"
                    /\ leaving = {}
                    /\ round' = outbox
                    /\ outbox' = <<>>
                    /\ phase' = "next"
                    /\ UNCHANGED <<typeVars, listenerVars, at,
                                   deletion, freed, info>>

BeginPoll == /\ phase = "idle"
             /\ leaving = {}
             /\ freed' = freed \cup deletion
             /\ deletion' = {}
             /\ round' = outbox
             /\ outbox' = <<>>
             /\ phase' = "next"
             /\ UNCHANGED <<typeVars, listenerVars, at, info>>

EndPoll == /\ phase = "next"
           /\ round = <<>>
           /\ phase' = "idle"
           /\ UNCHANGED <<typeVars, listenerVars, round, at, outbox,
                          deletion, freed, info>>

\* Under the type's mutex: rebuild the cache if it is not valid.
StartNotify == /\ phase = "next"
               /\ round # <<>>
               /\ LET t == Head(round) IN
                    /\ processing' = IF cached[t] THEN processing
                                     ELSE [processing EXCEPT ![t] = callbacks[t]]
                    /\ cached' = [cached EXCEPT ![t] = TRUE]
               /\ phase' = "dispatch"
               /\ UNCHANGED <<callbacks, listenerVars, round, at, outbox, deletion,
                              freed, info>>

Order == processing[Head(round)]

\* Slip: no return after the event is consumed.
FinishEventGoingOn == /\ round' = Tail(round)
                      /\ phase' = "dispatch"
                      /\ UNCHANGED at

FinishEvent == /\ round' = Tail(round)
               /\ phase' = "next"
               /\ at' = 1

NextCallback == /\ at' = at + 1
                /\ phase' = "dispatch"
                /\ UNCHANGED round

\* The wrapper reads m.enabled of its listener; if that object is gone the
\* read may give anything.
Invoke == /\ phase = "dispatch"
          /\ at <= Len(Order)
          /\ LET l == info[Order[at]].listener IN
               /\ \/ /\ l \in alive => enabled[l]
                     /\ phase' = "running"
                     /\ UNCHANGED <<round, at>>
                  \/ /\ l \in alive => ~enabled[l]
                     /\ NextCallback
          /\ UNCHANGED <<typeVars, listenerVars, outbox, deletion, freed, info>>

\* The callback returns; TRUE consumes the event.
Return == /\ phase = "running"
          /\ leaving = {}
          /\ FinishEvent \/ NextCallback
          /\ UNCHANGED <<typeVars, listenerVars, outbox, deletion,
                         freed, info>>

NotifyEnds == /\ phase = "dispatch"
              /\ at > Len(Order)
              /\ FinishEvent
              /\ UNCHANGED <<typeVars, listenerVars, outbox, deletion,
                             freed, info>>

-----------------------------------------------------------------------------

PollStep == BeginPoll \/ EndPoll \/ StartNotify \/ Invoke \/ Return \/ NotifyEnds

Next == \/ \E l \in Listeners, t \in Types, n \in Names, p \in Priorities :
             Subscribe(l, t, n, p)
        \/ \E l \in Listeners, t \in Types, n \in Names : UnsubscribeName(l, t, n)
        \/ \E l \in Listeners : DestroyListener(l) \/ SetEnabled(l, ~enabled[l])
        \/ \E c \in Made : Unsubscribe(c)
        \/ \E t \in Types : Send(t)
        \/ PollStep

Spec == Init /\ [][Next]_vars

\* The main loop polls for ever, every callback returns (Engine::tick), and a
\* loop that unsubscribes goes on: both are the main thread's steps.
FairSpec == Spec /\ WF_vars(PollStep \/ \E c \in Made : Unsubscribe(c))
-----------------------------------------------------------------------------
(* Properties *)

TypeOK == /\ callbacks \in [Types -> Seq(Made)]
          /\ cached \in [Types -> BOOLEAN]
          /\ processing \in [Types -> Seq(Made)]
          /\ deletion \subseteq Made
          /\ freed \subseteq Made
          /\ info \in Seq(Information)
          /\ handles \in [Listeners -> SUBSET Made]
          /\ enabled \in [Listeners -> BOOLEAN]
          /\ alive \subseteq Listeners
          /\ leaving \subseteq Made
          /\ outbox \in Seq(Types)
          /\ round \in Seq(Types)
          /\ phase \in Phases
          /\ at \in Nat \ {0}
          /\ phase \in {"dispatch", "running"} => round # <<>>

(***************************************************************************)
(* A callback may be unsubscribed while notify walks the cached list that  *)
(* still names it, because it is deleted only when the next poll starts:   *)
(* no callback that notify has still to look at is ever freed.             *)
(***************************************************************************)
NoFreedCallbackCalled == phase \in {"dispatch", "running"} =>
  \A i \in at..Len(Order) : Order[i] \notin freed

(***************************************************************************)
(* A valid cache is the multimap: whoever subscribes or unsubscribes, and  *)
(* whenever, the next notify sees it.                                      *)
(***************************************************************************)
CacheCoherent == \A t \in Types : cached[t] => processing[t] = callbacks[t]

(***************************************************************************)
(* Callbacks run from the highest priority to the lowest, and those of the *)
(* same priority in the order they were subscribed.                        *)
(***************************************************************************)
Earlier(c, d) == \/ info[c].priority > info[d].priority
                 \/ info[c].priority = info[d].priority /\ c < d

RunsByPriority == \A t \in Types : \A i, j \in 1..Len(processing[t]) :
  i < j => Earlier(processing[t][i], processing[t][j])

(***************************************************************************)
(* Each callback is in one place of its life: held by one live listener    *)
(* (or about to be unsubscribed) and in the map of its type, or waiting    *)
(* for deletion, or deleted; so no handle dangles and nothing is deleted   *)
(* twice.                                                                  *)
(***************************************************************************)
Held == UNION {handles[l] : l \in Listeners}
Subscribed == UNION {{callbacks[t][i] : i \in 1..Len(callbacks[t])} : t \in Types}

OneLife == /\ \A l \in Listeners : \A c \in handles[l] :
                l \in alive /\ info[c].listener = l
           /\ leaving \cup Held = Subscribed
           /\ \A l \in Listeners : handles[l] \cap leaving = {}
           /\ Made = Subscribed \cup deletion \cup freed
           /\ Subscribed \cap deletion = {}
           /\ (Subscribed \cup deletion) \cap freed = {}

(***************************************************************************)
(* Dispatch with its multimaps, caches and flags does what Event<T>        *)
(* promises: every event is offered to exactly those subscribed when its   *)
(* dispatch began, by priority and order of subscribing, until one         *)
(* consumes it, whoever comes and goes during the walk.                    *)
(***************************************************************************)
StillToOffer == CASE phase = "dispatch" -> {Order[i] : i \in at..Len(Order)}
                  [] phase = "running" -> {Order[i] : i \in at + 1..Len(Order)}
                  [] OTHER -> {}

Poller == CASE phase = "dispatch" -> "offering"
            [] phase = "running" -> "running"
            [] OTHER -> "idle"

Promised == INSTANCE Dispatch WITH
  Callbacks <- Information, subs <- Subscribed, due <- StillToOffer, poller <- Poller

ImplementsDispatch == Promised!Spec

(***************************************************************************)
(* What is unsubscribed is deleted in the end.                             *)
(***************************************************************************)
UnsubscribedIsFreed == \A c \in 1..CallbackLimit : (c \in deletion) ~> (c \in freed)

(***************************************************************************)
(* docs/event_system.md:58: "When an event::Listener instance is           *)
(* destroyed, it automatically unsubscribes all registered callbacks": no  *)
(* callback of a destroyed listener runs.                                  *)
(***************************************************************************)
DestroyedListenerIsSilent == phase = "dispatch" /\ at <= Len(Order) =>
  info[Order[at]].listener \in alive
=============================================================================

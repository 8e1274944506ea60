------------------------------ MODULE Dispatch ------------------------------
(***************************************************************************)
(* What Event<T> promises (event.hpp): an event is offered to those that   *)
(* were subscribed to its type when its dispatch began, one after the      *)
(* other from the highest priority to the lowest, those of one priority in *)
(* the order they subscribed, until one consumes it.  Who subscribes or    *)
(* unsubscribes meanwhile changes the next dispatch, not this one.         *)
(* EventDispatch, with its multimaps and caches, is shown to implement     *)
(* this.                                                                   *)
(***************************************************************************)
EXTENDS Naturals, Sequences

CONSTANTS Types,
          Callbacks   \* what can be subscribed: records with a type and a priority

VARIABLES info,    \* info[c]: the c-th callback that was subscribed
          subs,    \* those subscribed now
          due,     \* those the event being dispatched is still to be offered to
          poller   \* "idle", "offering" an event, or "running" a callback

dispatchVars == <<info, subs, due, poller>>

Init == info = <<>> /\ subs = {} /\ due = {} /\ poller = "idle"

Subscribe(k) == /\ info' = Append(info, k)
                /\ subs' = subs \cup {Len(info) + 1}
                /\ UNCHANGED <<due, poller>>

Unsubscribe(c) == /\ c \in subs
                  /\ subs' = subs \ {c}
                  /\ UNCHANGED <<info, due, poller>>

Start(t) == /\ poller = "idle"
            /\ due' = {c \in subs : info[c].type = t}
            /\ poller' = "offering"
            /\ UNCHANGED <<info, subs>>

Before(c, d) == \/ info[c].priority > info[d].priority
                \/ info[c].priority = info[d].priority /\ c < d

\* A callback whose listener is disabled does not run.
Offer(c) == /\ poller = "offering"
            /\ c \in due
            /\ \A d \in due \ {c} : Before(c, d)
            /\ due' = due \ {c}
            /\ poller' \in {"offering", "running"}
            /\ UNCHANGED <<info, subs>>

PassOn == /\ poller = "running"
          /\ poller' = "offering"
          /\ UNCHANGED <<info, subs, due>>

Consume == /\ poller = "running"
           /\ poller' = "idle"
           /\ due' = {}
           /\ UNCHANGED <<info, subs>>

End == /\ poller = "offering"
       /\ due = {}
       /\ poller' = "idle"
       /\ UNCHANGED <<info, subs, due>>

Next == \/ \E k \in Callbacks : Subscribe(k)
        \/ \E c \in subs : Unsubscribe(c)
        \/ \E t \in Types : Start(t)
        \/ \E c \in due : Offer(c)
        \/ PassOn
        \/ Consume
        \/ End

Spec == Init /\ [][Next]_dispatchVars
=============================================================================

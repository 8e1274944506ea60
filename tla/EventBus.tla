------------------------------ MODULE EventBus ------------------------------
(***************************************************************************)
(* What the event system promises (docs/event_system.md, event.hpp):       *)
(* anybody may send at any time; a poll dispatches everything that was     *)
(* sent before it began, once and in order, and nothing that was sent      *)
(* since.  EventQueue is shown to implement it, and EventDispatch uses the *)
(* promise instead of the two pools.                                       *)
(***************************************************************************)
EXTENDS Naturals, Sequences

VARIABLES sent,        \* how many events were sent
          outbox,      \* those that wait for the next poll
          polling,     \* whether a poll is under way
          round,       \* what it has still to dispatch
          dispatched   \* what was dispatched, in order

busVars == <<sent, outbox, polling, round, dispatched>>

Init == /\ sent = 0
        /\ outbox = <<>>
        /\ polling = FALSE
        /\ round = <<>>
        /\ dispatched = <<>>

Send == /\ sent' = sent + 1
        /\ outbox' = Append(outbox, sent + 1)
        /\ UNCHANGED <<polling, round, dispatched>>

BeginPoll == /\ ~polling
             /\ polling' = TRUE
             /\ round' = outbox
             /\ outbox' = <<>>
             /\ UNCHANGED <<sent, dispatched>>

Dispatch == /\ polling
            /\ round # <<>>
            /\ dispatched' = Append(dispatched, Head(round))
            /\ round' = Tail(round)
            /\ UNCHANGED <<sent, outbox, polling>>

EndPoll == /\ polling
           /\ round = <<>>
           /\ polling' = FALSE
           /\ UNCHANGED <<sent, outbox, round, dispatched>>

Next == Send \/ BeginPoll \/ Dispatch \/ EndPoll

Spec == Init /\ [][Next]_busVars
=============================================================================

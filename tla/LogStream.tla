----------------------------- MODULE LogStream -----------------------------
(***************************************************************************)
(* What the log server promises (docs/logging_system.md, server.rs): one   *)
(* log that only grows, in which the logs of each source keep their order; *)
(* a reader is given all there was when it came, and then follows, missing *)
(* only what it was too slow for.  What is stored between the two it does  *)
(* not get.  LogServer is shown to implement this.                         *)
(*                                                                         *)
(* The n-th log of source s is <<s, n>>; a reader is given positions of    *)
(* the log.                                                                *)
(***************************************************************************)
EXTENDS Naturals, Sequences, SequencesExt

CONSTANTS Sources, Readers,
          Capacity   \* how far behind the end of the log a reader may be

VARIABLES log,
          reader,    \* reader[r]: "new", "replayed", "following" or "gone"
          joined,    \* joined[r]: the length of the log when r began to follow
          seen       \* seen[r]: what r was given

streamVars == <<log, reader, joined, seen>>

Init == /\ log = <<>>
        /\ reader = [r \in Readers |-> "new"]
        /\ joined = [r \in Readers |-> 0]
        /\ seen = [r \in Readers |-> <<>>]

\* The next log of s.
Store(s, n) == /\ n = 1 \/ Contains(log, <<s, n - 1>>)
               /\ ~Contains(log, <<s, n>>)
               /\ log' = Append(log, <<s, n>>)
               /\ UNCHANGED <<reader, joined, seen>>

Goes(r, from, to) == /\ reader[r] = from
                     /\ reader' = [reader EXCEPT ![r] = to]

\* All there was when it asked.
Replay(r) == /\ Goes(r, "new", "replayed")
             /\ \E k \in 0..Len(log) : seen' = [seen EXCEPT ![r] = [i \in 1..k |-> i]]
             /\ UNCHANGED <<log, joined>>

Follow(r) == /\ Goes(r, "replayed", "following")
             /\ joined' = [joined EXCEPT ![r] = Len(log)]
             /\ UNCHANGED <<log, seen>>

\* Later logs in order; one that is passed over is no longer kept.
Deliver(r) ==
  /\ Goes(r, "following", "following")
  /\ \E n \in joined[r] + 1 .. Len(log) :
       /\ n + Capacity > Len(log)
       /\ \A m \in ToSet(seen[r]) : m < n
       /\ \A m \in joined[r] + 1 .. n - 1 : m \in ToSet(seen[r]) \/ m + Capacity <= Len(log)
       /\ seen' = [seen EXCEPT ![r] = Append(@, n)]
  /\ UNCHANGED <<log, joined>>

Leave(r) == /\ Goes(r, "new", "gone") \/ Goes(r, "following", "gone")
            /\ UNCHANGED <<log, joined, seen>>

Next == \/ \E s \in Sources, n \in 1 .. Len(log) + 1 : Store(s, n)
        \/ \E r \in Readers : Replay(r) \/ Follow(r) \/ Deliver(r) \/ Leave(r)

Spec == Init /\ [][Next]_streamVars
=============================================================================

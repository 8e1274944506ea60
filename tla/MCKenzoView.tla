---------------------------- MODULE MCKenzoView ----------------------------
(***************************************************************************)
(* KenzoView on small instances.  The search is for one word, typed letter *)
(* by letter: two letters tell the severities apart.                       *)
(***************************************************************************)
EXTENDS KenzoView

Log(sev, sink) == [severity |-> sev, sink |-> sink]

TwoLogs == {Log(0, 1), Log(3, 2)}

WordFinds == [q \in Queries |-> IF Len(q) < 2 THEN Logs
                                ELSE {log \in Logs : log.severity = 3}]

\* A log in which the whole word is found where its text cannot be sliced, or none.
WordSlips == [q \in Queries |-> IF Len(q) < 2 THEN {}
                                ELSE {log \in Logs : log.severity = 3}]

NothingSlips == [q \in Queries |-> {}]
=============================================================================

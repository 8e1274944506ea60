------------------------------ MODULE MCLogger ------------------------------
(***************************************************************************)
(* Logger on small instances: two logging threads and two pool workers.    *)
(***************************************************************************)
EXTENDS Logger

CONSTANTS main, gameplay,     \* threads that log
          worker0, worker1    \* threads of the pool
=============================================================================

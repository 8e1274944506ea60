--------------------------- MODULE MCKenzoSession ---------------------------
(***************************************************************************)
(* KenzoSession on a small instance: the session's task and an old one.    *)
(***************************************************************************)
EXTENDS KenzoSession

CONSTANTS a, b   \* two tasks
=============================================================================

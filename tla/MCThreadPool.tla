---------------------------- MODULE MCThreadPool ----------------------------
(***************************************************************************)
(* ThreadPool on small instances: the two client threads are model values, *)
(* the workers are numbered.                                               *)
(***************************************************************************)
EXTENDS ThreadPool

CONSTANTS main, gameplay   \* two threads that queue jobs
=============================================================================
